----------------------------- MODULE SscanfCallsProofs -----------------------------
(***************************************************************************)
(* What a call of sscanf gives, for every call: proofs that words, arrays  *)
(* and enums are filled with what the parts of its text stand for.         *)
(***************************************************************************)
EXTENDS SscanfProofs

(***************************************************************************)
(* Words, and the letters they are spelled with.                           *)
(***************************************************************************)
(* A call with words, that have room for what is escaped in them *)
OfWords(c) == c.kind = "words" /\ SpacersFit(c)
HasWords(c) == c \in Calls /\ OfWords(c)

Backslash == {"\\"}
Nuls == {NUL}

(* What is escaped *)
Escaped(by) == Backslash \cup Spaces \cup {by}

\* A numeral stands for a number.
LEMMA NumberTyped ==
  ASSUME NEW seq \in Seq(Dec)
  PROVE  Number(seq) \in Int /\ Wrap(Number(seq)) = Number(seq)
<1> DEFINE n == Len(seq)
<1>0. n \in Nat
  OBVIOUS
<1>1. PICK h : /\ h[0] = 0
               /\ \A k \in 1..n : h[k - 1] \in Int => h[k] = WithDigit(h[k - 1], seq[k])
               /\ Number(seq) = Wrap(h[n])
  BY NumberRuns, Zenon
<1> DEFINE Good == {k \in Nat : k <= n => h[k] \in Int}
<1>2. 0 \in Good
  BY <1>1
<1>3. ASSUME NEW k \in Good PROVE k + 1 \in Good
  <2> SUFFICES ASSUME k + 1 <= n PROVE h[k + 1] \in Int
    OBVIOUS
  <2>1. k \in Nat /\ k + 1 \in 1..n /\ (k + 1) - 1 = k /\ h[k] \in Int
    BY <1>0
  <2>2. h[k + 1] = WithDigit(h[k], seq[k + 1])
    BY <1>1, <2>1
  <2>3. seq[k + 1] \in Dec
    BY <2>1
  <2>4. Code[seq[k + 1]] - 48 \in Int
    BY <2>3, DecDigits
  <2> QED
    BY <2>1, <2>2, <2>4 DEF WithDigit
<1> HIDE DEF Good
<1>4. Good = Nat
  <2>1. Good \in SUBSET Nat
    BY DEF Good
  <2> QED
    BY <1>2, <1>3, <2>1, Induct
<1>5. h[n] \in Int
  BY <1>0, <1>4 DEF Good
<1> QED
  BY <1>1, <1>5, WrapIsAnInteger, WrapTwice

(* Where every part stands *)
Standing(text, at, parts) ==
  /\ \A k \in 1..Len(parts) + 1 : at[k] \in Nat \ {0}
  /\ \A k \in 1..Len(parts) : /\ at[k + 1] = at[k] + Len(parts[k])
                              /\ \A j \in 1..Len(parts[k]) : Ch(text, at[k] + j - 1) = parts[k][j]

\* Where the first part begins at a place, all do.
LEMMA PartsPlaces ==
  ASSUME NEW text, NEW at, NEW parts, Parts(text, at, parts), Len(parts) \in Nat, at[1] \in Nat \ {0},
         \A k \in 1..Len(parts) : Len(parts[k]) \in Nat
  PROVE  Standing(text, at, parts)
<1> DEFINE m == Len(parts)
           Good == {k \in Nat : k + 1 \in 1..m + 1 => at[k + 1] \in Nat \ {0}}
<1>0. /\ m \in Nat
      /\ \A k \in 1..m : /\ at[k + 1] = at[k] + Len(parts[k])
                         /\ \A j \in 1..Len(parts[k]) : Ch(text, at[k] + j - 1) = parts[k][j]
  BY Zenon DEF Parts
<1>1. 0 \in Good
  OBVIOUS
<1>2. ASSUME NEW k \in Good PROVE k + 1 \in Good
  <2>1. k \in Nat /\ k + 1 \in Nat
    OBVIOUS
  <2> SUFFICES ASSUME (k + 1) + 1 \in 1..m + 1 PROVE at[(k + 1) + 1] \in Nat \ {0}
    BY <2>1
  <2>2. k + 1 \in 1..m /\ k + 1 \in 1..m + 1
    BY <1>0, <2>1
  <2>3. at[k + 1] \in Nat \ {0} /\ Len(parts[k + 1]) \in Nat
    BY <2>2
  <2>4. at[(k + 1) + 1] = at[k + 1] + Len(parts[k + 1])
    BY <1>0, <2>2
  <2> QED
    BY <2>3, <2>4
<1> HIDE DEF Good
<1>3. Good = Nat
  <2>1. Good \in SUBSET Nat
    BY DEF Good
  <2> QED
    BY <1>1, <1>2, <2>1, Induct
<1>4. ASSUME NEW k \in 1..m + 1 PROVE at[k] \in Nat \ {0}
  <2>1. k - 1 \in Nat /\ (k - 1) + 1 = k
    BY <1>0
  <2>2. k - 1 \in Good
    BY <1>3, <2>1
  <2> QED
    BY <2>1, <2>2 DEF Good
<1> QED
  BY <1>0, <1>4, Zenon DEF Standing

\* The parts of one and of two characters.
LEMMA ShortParts ==
  ASSUME NEW text, NEW p \in Nat, NEW x, NEW y
  PROVE  /\ Len(<<x>>) = 1 /\ Len(<<x, y>>) = 2
         /\ (\A j \in 1..1 : Ch(text, p + j - 1) = <<x>>[j]) => Ch(text, p) = x
         /\ (\A j \in 1..2 : Ch(text, p + j - 1) = <<x, y>>[j]) => Ch(text, p) = x /\ Ch(text, p + 1) = y
<1>1. Len(<<x>>) = 1 /\ Len(<<x, y>>) = 2 /\ <<x>>[1] = x /\ <<x, y>>[1] = x /\ <<x, y>>[2] = y
  OBVIOUS
<1>2. 1 \in 1..1 /\ 1 \in 1..2 /\ 2 \in 1..2 /\ p + 1 - 1 = p /\ p + 2 - 1 = p + 1
  OBVIOUS
<1> DEFINE one == <<x>>
           two == <<x, y>>
<1>3. Len(one) = 1 /\ Len(two) = 2 /\ one[1] = x /\ two[1] = x /\ two[2] = y
  BY <1>1
<1> HIDE DEF one, two
<1>4. (\A j \in 1..1 : Ch(text, p + j - 1) = one[j]) => Ch(text, p) = x
  BY <1>2, <1>3
<1>5. (\A j \in 1..2 : Ch(text, p + j - 1) = two[j]) => Ch(text, p) = x /\ Ch(text, p + 1) = y
  BY <1>2, <1>3
<1> QED
  BY <1>3, <1>4, <1>5 DEF one, two

\* What a character is spelled with.
LEMMA Spelling ==
  ASSUME NEW word, NEW by, Len(word) \in Nat
  PROVE  /\ Len(Spelled(word, by)) = Len(word)
         /\ \A j \in 1..Len(word) :
              IF word[j] \in Escaped(by)
              THEN \E b \in Backslash : Spelled(word, by)[j] = <<b, word[j]>>
              ELSE Spelled(word, by)[j] = <<word[j]>>
<1> DEFINE Written(j) == IF word[j] \in {"\\", " ", by} THEN <<"\\", word[j]>> ELSE <<word[j]>>
<1>1. Spelled(word, by) = [j \in 1..Len(word) |-> Written(j)]
  BY Zenon DEF Spelled
<1>2. \A x : x \in Escaped(by) <=> x \in {"\\", " ", by}
  BY Zenon DEF Escaped, Backslash, Spaces
<1>3. \A j : IF word[j] \in Escaped(by) THEN \E b \in Backslash : Written(j) = <<b, word[j]>> ELSE Written(j) = <<word[j]>>
  <2>1. "\\" \in Backslash
    BY DEF Backslash
  <2> QED
    BY <1>2, <2>1, Zenon
<1> HIDE DEF Written
<1> QED
  BY <1>1, <1>3

\* What a call with words is.
LEMMA WordsAre ==
  ASSUME NEW c, HasWords(c)
  PROVE  /\ c.params = Len(c.words) /\ Len(c.words) \in Nat
         /\ Numeral(c.digits) /\ c.size = Number(c.digits) /\ c.size \in Nat \ {0}
         /\ c.by \notin Backslash /\ c.by # NUL
         /\ \E S : c.text \in Seq(S)
         /\ \E S : c.format \in Seq(S)
         /\ Corrected(c.text) = c.text /\ Len(c.text) \in Nat
<1>1. c \in Calls /\ c.kind = "words"
  BY DEF HasWords, OfWords
<1>2. /\ c.params = Len(c.words)
      /\ Numeral(c.digits) /\ c.size = Number(c.digits) /\ c.size > 0
      /\ c.by \notin {"\\", NUL} /\ c.text # <<"SOH">>
  BY <1>1, WordsAssumption, Zenon
<1>3. c.params \in Nat /\ c.text \in Seq(ToSet(c.text)) /\ c.format \in Seq(ToSet(c.format))
  BY <1>1, CallsAssumption
<1>4. c.size \in Nat \ {0}
  <2>1. c.size \in Int
    <3>1. c.digits \in Seq(Dec)
      BY <1>2 DEF Numeral
    <3>2. Len(c.digits) \in Nat
      BY <3>1
    <3>3. Number(c.digits) \in Int
      BY <3>1, NumberTyped
    <3> QED
      BY <1>2, <3>3
  <2> QED
    BY <1>2, <2>1
<1>5. c.by \notin Backslash /\ c.by # NUL
  BY <1>2, Zenon DEF Backslash
<1>6. Corrected(c.text) = c.text /\ Len(c.text) \in Nat
  BY <1>2, <1>3 DEF Corrected
<1> QED
  BY <1>2, <1>3, <1>4, <1>5, <1>6, Zenon

\* What the k-th word is, and where it stands.
LEMMA WordIs ==
  ASSUME NEW c, HasWords(c), NEW k \in 1..Len(c.words)
  PROVE  LET w == c.words[k]
             L == c.letters[k]
             n == Len(w)
         IN  /\ n \in Nat \ {0} /\ \E S : w \in Seq(S)
             /\ \A j \in 1..n : /\ w[j] # NUL
                                /\ w[j] \in Spaces \cup {c.by} => j < c.size \/ k = Len(c.words)
             /\ Parts(c.text, L, Spelled(w, c.by))
             /\ k = 1 => L[1] = 1
             /\ k > 1 => L[1] = c.letters[k - 1][Len(c.words[k - 1]) + 1] + 1
             /\ k = Len(c.words) => L[n + 1] = Len(c.text) + 1
             /\ k # Len(c.words) => Ch(c.text, L[n + 1]) = c.by
<1> DEFINE w == c.words[k]
           L == c.letters[k]
           n == Len(w)
<1>0. Len(c.words) \in Nat
  BY WordsAre
<1>1. c \in Calls /\ c.kind = "words" /\ SpacersFit(c)
  BY DEF HasWords, OfWords
<1>2. /\ w \in Seq(ToSet(w)) /\ n > 0
      /\ \A j \in 1..n : w[j] # NUL
      /\ Parts(c.text, L, Spelled(w, c.by))
      /\ L[1] = IF k = 1 THEN 1 ELSE c.letters[k - 1][Len(c.words[k - 1]) + 1] + 1
      /\ IF k = Len(c.words) THEN L[n + 1] = Len(c.text) + 1 ELSE Ch(c.text, L[n + 1]) = c.by
  BY <1>1, WordsAssumption, Zenon
<1>3. \A x : x \in Spaces \cup {c.by} <=> x \in {" ", c.by}
  BY Zenon DEF Spaces
<1>4. \A j \in 1..n : /\ w[j] # NUL
                      /\ w[j] \in Spaces \cup {c.by} => j < c.size \/ k = Len(c.words)
  <2>1. k # Len(c.words) => k \in 1..Len(c.words) - 1
    BY <1>0
  <2>2. k # Len(c.words) => \A j \in 1..n : w[j] \in {" ", c.by} => j < c.size
    BY <1>1, <2>1, Zenon DEF SpacersFit
  <2> QED
    BY <1>2, <1>3, <2>2, Zenon
<1>5. w \in Seq(ToSet(w)) /\ n \in Nat \ {0}
  <2>1. w \in Seq(ToSet(w)) /\ n > 0
    BY <1>2, Zenon
  <2> HIDE DEF w
  <2> QED
    BY <2>1
<1>6. /\ k = 1 => L[1] = 1
      /\ k > 1 => L[1] = c.letters[k - 1][Len(c.words[k - 1]) + 1] + 1
  <2>1. k > 1 => k # 1
    OBVIOUS
  <2> QED
    BY <1>2, <2>1, Zenon
<1> QED
  BY <1>2, <1>4, <1>5, <1>6, Zenon

(* The letter j of a word stands from q to r *)
LetterAt(w, by, t, j, q, r) ==
  /\ w[j] # NUL
  /\ w[j] \in Escaped(by) => r = q + 2 /\ Ch(t, q) \in Backslash /\ Ch(t, q + 1) = w[j]
  /\ w[j] \notin Escaped(by) => r = q + 1 /\ Ch(t, q) = w[j]

\* A letter stands for itself, or behind a backslash.
LEMMA LetterIs ==
  ASSUME NEW c, HasWords(c), NEW k \in 1..Len(c.words), NEW j \in 1..Len(c.words[k]), c.letters[k][1] \in Nat \ {0}
  PROVE  LET w == c.words[k]
             p == c.letters[k][j]
         IN  /\ p \in Nat \ {0} /\ c.letters[k][Len(w) + 1] \in Nat \ {0}
             /\ LetterAt(w, c.by, c.text, j, p, c.letters[k][j + 1])
<1> DEFINE w == c.words[k]
           n == Len(w)
           parts == Spelled(w, c.by)
           p == c.letters[k][j]
           L == c.letters[k]
           t == c.text
<1>1. n \in Nat /\ Parts(t, L, parts) /\ j \in 1..n
  BY WordIs
<1>2. /\ Len(parts) = n
      /\ \A i \in 1..n : IF w[i] \in Escaped(c.by)
                         THEN \E b \in Backslash : parts[i] = <<b, w[i]>>
                         ELSE parts[i] = <<w[i]>>
  BY <1>1, Spelling
<1>3. L[1] \in Nat \ {0}
  OBVIOUS
<1> HIDE DEF parts, w, n, L, t
<1>4. \A i \in 1..n : Len(parts[i]) \in Nat
  <2> SUFFICES ASSUME NEW i \in 1..n PROVE Len(parts[i]) \in Nat
    OBVIOUS
  <2>1. CASE w[i] \in Escaped(c.by)
    <3>1. PICK b \in Backslash : parts[i] = <<b, w[i]>>
      BY <1>2, <2>1, Zenon
    <3> QED
      BY <3>1
  <2>2. CASE w[i] \notin Escaped(c.by)
    <3>1. parts[i] = <<w[i]>>
      BY <1>2, <2>2, Zenon
    <3> QED
      BY <3>1
  <2> QED
    BY <2>1, <2>2
<1>5. /\ \A i \in 1..n + 1 : L[i] \in Nat \ {0}
      /\ \A i \in 1..n : /\ L[i + 1] = L[i] + Len(parts[i])
                         /\ \A m \in 1..Len(parts[i]) : Ch(t, L[i] + m - 1) = parts[i][m]
  <2>1. Parts(t, L, parts) /\ Len(parts) \in Nat /\ L[1] \in Nat \ {0} /\ Len(parts) = n
    BY <1>1, <1>2, <1>3
  <2>2. \A i \in 1..Len(parts) : Len(parts[i]) \in Nat
    BY <1>4, <2>1, Zenon
  <2>3. Standing(t, L, parts)
    BY <2>1, <2>2, PartsPlaces, Zenon
  <2> QED
    BY <2>1, <2>3, Zenon DEF Standing
<1>6. p = L[j]
  BY DEF L
<1> HIDE DEF p
<1>7. p \in Nat \ {0} /\ L[n + 1] \in Nat \ {0} /\ L[j + 1] = p + Len(parts[j])
      /\ \A m \in 1..Len(parts[j]) : Ch(t, p + m - 1) = parts[j][m]
  <2>1. j \in 1..n + 1 /\ n + 1 \in 1..n + 1
    BY <1>1
  <2> QED
    BY <1>1, <1>5, <1>6, <2>1
<1>8. w[j] \in Escaped(c.by) => L[j + 1] = p + 2 /\ Ch(t, p) \in Backslash /\ Ch(t, p + 1) = w[j]
  <2> SUFFICES ASSUME w[j] \in Escaped(c.by) PROVE L[j + 1] = p + 2 /\ Ch(t, p) \in Backslash /\ Ch(t, p + 1) = w[j]
    OBVIOUS
  <2>1. PICK b \in Backslash : parts[j] = <<b, w[j]>>
    BY <1>1, <1>2, Zenon
  <2>2. Len(<<b, w[j]>>) = 2
    OBVIOUS
  <2>3. \A m \in 1..2 : Ch(t, p + m - 1) = <<b, w[j]>>[m]
    BY <1>7, <2>1, <2>2, Zenon
  <2>4. Ch(t, p) = b /\ Ch(t, p + 1) = w[j]
    BY <1>7, <2>3, ShortParts
  <2> QED
    BY <1>7, <2>1, <2>2, <2>4, Zenon
<1>9. w[j] \notin Escaped(c.by) => L[j + 1] = p + 1 /\ Ch(t, p) = w[j]
  <2> SUFFICES ASSUME w[j] \notin Escaped(c.by) PROVE L[j + 1] = p + 1 /\ Ch(t, p) = w[j]
    OBVIOUS
  <2>1. parts[j] = <<w[j]>>
    BY <1>1, <1>2, Zenon
  <2>2. Len(<<w[j]>>) = 1
    OBVIOUS
  <2>3. \A m \in 1..1 : Ch(t, p + m - 1) = <<w[j]>>[m]
    BY <1>7, <2>1, <2>2, Zenon
  <2>4. Ch(t, p) = w[j]
    BY <1>7, <2>3, ShortParts
  <2> QED
    BY <1>7, <2>1, <2>2, <2>4, Zenon
<1>10. w[j] # NUL
  BY WordIs DEF w
<1>11. LetterAt(w, c.by, t, j, p, L[j + 1])
  BY <1>8, <1>9, <1>10, Zenon DEF LetterAt
<1> QED
  BY <1>7, <1>11 DEF w, n, L, t, p

\* Every word has its place.
LEMMA WordsPlaces ==
  ASSUME NEW c, HasWords(c)
  PROVE  \A k \in 1..Len(c.words) : c.letters[k][1] \in Nat \ {0}
<1> DEFINE m == Len(c.words)
           Good == {k \in Nat : k + 1 \in 1..m => c.letters[k + 1][1] \in Nat \ {0}}
<1>0. m \in Nat
  BY WordsAre
<1>1. 0 \in Good
  <2>1. 0 + 1 \in 1..m => c.letters[0 + 1][1] = 1
    BY WordIs
  <2> QED
    BY <2>1
<1>2. ASSUME NEW k \in Good PROVE k + 1 \in Good
  <2>1. k \in Nat /\ k + 1 \in Nat
    OBVIOUS
  <2> SUFFICES ASSUME (k + 1) + 1 \in 1..m PROVE c.letters[(k + 1) + 1][1] \in Nat \ {0}
    BY <2>1
  <2>2. k + 1 \in 1..m /\ (k + 1) + 1 > 1 /\ ((k + 1) + 1) - 1 = k + 1
    BY <1>0, <2>1
  <2>3. c.letters[k + 1][1] \in Nat \ {0}
    BY <2>2
  <2>4. Len(c.words[k + 1]) \in Nat \ {0}
    BY <2>2, WordIs
  <2>5. Len(c.words[k + 1]) \in 1..Len(c.words[k + 1])
    BY <2>4
  <2>6. c.letters[k + 1][Len(c.words[k + 1]) + 1] \in Nat \ {0}
    BY <2>2, <2>3, <2>5, LetterIs
  <2>7. c.letters[(k + 1) + 1][1] = c.letters[k + 1][Len(c.words[k + 1]) + 1] + 1
    <3> DEFINE i == (k + 1) + 1
    <3>1. i \in 1..Len(c.words) /\ i > 1 /\ i - 1 = k + 1
      BY <2>2
    <3> HIDE DEF i
    <3>2. c.letters[i][1] = c.letters[i - 1][Len(c.words[i - 1]) + 1] + 1
      BY <3>1, WordIs, Zenon
    <3> QED
      BY <3>1, <3>2 DEF i
  <2> DEFINE x == c.letters[k + 1][Len(c.words[k + 1]) + 1]
             y == c.letters[(k + 1) + 1][1]
  <2>8. x \in Nat \ {0} /\ y = x + 1
    BY <2>6, <2>7
  <2> HIDE DEF x, y
  <2>9. y \in Nat \ {0}
    BY <2>8
  <2> QED
    BY <2>9 DEF y
<1> HIDE DEF Good
<1>3. Good = Nat
  <2>1. Good \in SUBSET Nat
    BY DEF Good
  <2> QED
    BY <1>1, <1>2, <2>1, Induct
<1> SUFFICES ASSUME NEW k \in 1..m PROVE c.letters[k][1] \in Nat \ {0}
  OBVIOUS
<1>4. k - 1 \in Nat /\ (k - 1) + 1 = k
  BY <1>0
<1>5. k - 1 \in Good
  BY <1>3, <1>4
<1> QED
  BY <1>4, <1>5 DEF Good

(***************************************************************************)
(* A word, letter by letter.                                               *)
(***************************************************************************)
\* What ends a word, and what may be escaped.
LEMMA Endings ==
  ASSUME NEW by, by \notin Backslash, by # NUL, NEW all \in BOOLEAN
  PROVE  /\ \A x \in Backslash : ~EndsString({by}, all, x)
         /\ \A x : x \notin Escaped(by) /\ x # NUL => ~EndsString({by}, all, x)
         /\ \A x : x # NUL /\ all => ~EndsString({by}, all, x)
         /\ ~all => EndsString({by}, all, by)
         /\ \A x \in Escaped(by) : Escapable({by}, all, x)
<1>1. \A x : IsWhitespace(x) <=> x \in Spaces \/ x = NUL
  BY Zenon DEF IsWhitespace, Spaces
<1>2. IsDefaultDelimiter({by}) <=> by \in Spaces
  <2>1. IsDefaultDelimiter({by}) <=> {by} = Spaces
    BY Zenon DEF IsDefaultDelimiter, Spaces
  <2>2. \E y : Spaces = {y}
    BY Zenon DEF Spaces
  <2>3. \A y : {by} = {y} <=> by \in {y}
    OBVIOUS
  <2> QED
    BY <2>1, <2>2, <2>3, Zenon
<1>3. \A x \in Backslash : x \notin Spaces /\ x # NUL
  <2>1. \A x \in Backslash : x # " " /\ x # NUL
    BY Zenon DEF Backslash, NUL
  <2> QED
    BY <2>1, Zenon DEF Spaces
<1>4. \A x : x \in {by} <=> x = by
  OBVIOUS
<1>5. \A x : IsStringEnd({by}, x) => x \in Spaces \/ x = NUL \/ x = by
  BY <1>1, <1>4, Zenon DEF IsStringEnd, IsDelimiter
<1>6. IsStringEnd({by}, by)
  BY <1>1, <1>2, <1>4, Zenon DEF IsStringEnd, IsDelimiter
<1>7. \A x : EndsString({by}, all, x) <=> IF all THEN x = NUL ELSE IsStringEnd({by}, x)
  <2>1. all => \A x : EndsString({by}, all, x) <=> x = NUL
    BY Zenon DEF EndsString
  <2>2. ~all => \A x : EndsString({by}, all, x) <=> IsStringEnd({by}, x)
    BY Zenon DEF EndsString
  <2> QED
    BY <2>1, <2>2, Zenon
<1>8. \A x : x \in Escaped(by) <=> x \in Backslash \/ x \in Spaces \/ x = by
  BY <1>4, Zenon DEF Escaped
<1>9. \A x \in Escaped(by) : Escapable({by}, all, x)
  <2>1. \A x \in Backslash : x = "\\"
    BY DEF Backslash
  <2> QED
    BY <1>1, <1>2, <1>4, <1>8, <2>1, Zenon DEF Escapable, IsDelimiter
<1>10. \A x \in Backslash : ~EndsString({by}, all, x)
  BY <1>3, <1>5, <1>7, Zenon
<1>11. \A x : x \notin Escaped(by) /\ x # NUL => ~EndsString({by}, all, x)
  BY <1>5, <1>7, <1>8, Zenon
<1>12. \A x : x # NUL /\ all => ~EndsString({by}, all, x)
  BY <1>7, Zenon
<1>13. ~all => EndsString({by}, all, by)
  BY <1>6, <1>7, Zenon
<1> QED
  BY <1>9, <1>10, <1>11, <1>12, <1>13, Zenon

(* What the run h of DoS from p on has before the character at q *)
Having(h, p, q) == h[q - p]

\* It is the run that DoS makes.
LEMMA HavingRun ==
  ASSUME NEW h, NEW d, NEW t, Len(t) \in Nat, NEW p \in 1..(Len(t) + 1), NEW length, NEW all,
         StringRun(h, d, t, p, length, all)
  PROVE  /\ Having(h, p, p) = NoString
         /\ DoS(d, t, p, length, all) =
              StringEnds(t, Having(h, p, Len(t) + 1).out,
                         IF Having(h, p, Len(t) + 1).end = 0 THEN Len(t) + 1 ELSE Having(h, p, Len(t) + 1).end)
<1> DEFINE n == Len(t) - p + 1
<1>1. /\ h[0] = NoString
      /\ DoS(d, t, p, length, all) = StringEnds(t, h[n].out, IF h[n].end = 0 THEN Len(t) + 1 ELSE h[n].end)
  BY Zenon DEF StringRun
<1>2. n = (Len(t) + 1) - p /\ p - p = 0
  OBVIOUS
<1> HIDE DEF n
<1> QED
  BY <1>1, <1>2, Zenon DEF Having

\* Every turn is a step of DoS.
LEMMA HavingNext ==
  ASSUME NEW h, NEW d, NEW t, Len(t) \in Nat, NEW p \in 1..(Len(t) + 1), NEW length, NEW all,
         StringRun(h, d, t, p, length, all), NEW q \in p..Len(t)
  PROVE  Having(h, p, q + 1) = StringStep(d, t, length, all, Having(h, p, q), q)
<1> DEFINE n == Len(t) - p + 1
<1>1. \A k \in 1..n : h[k] = StringStep(d, t, length, all, h[k - 1], p + k - 1)
  BY Zenon DEF StringRun
<1>2. (q + 1) - p \in 1..n /\ ((q + 1) - p) - 1 = q - p /\ p + ((q + 1) - p) - 1 = q
  OBVIOUS
<1> HIDE DEF n
<1>3. h[(q + 1) - p] = StringStep(d, t, length, all, h[((q + 1) - p) - 1], p + ((q + 1) - p) - 1)
  BY <1>1, <1>2, Zenon
<1> QED
  BY <1>2, <1>3, Zenon DEF Having

\* What it has is what it should be made of.
LEMMA HavingTyped ==
  ASSUME NEW h, NEW d, NEW t, Len(t) \in Nat, NEW p \in 1..(Len(t) + 1), NEW length, NEW all,
         StringRun(h, d, t, p, length, all), NEW q \in p..(Len(t) + 1)
  PROVE  Having(h, p, q) \in Copying(t, p)
<1> DEFINE n == Len(t) - p + 1
<1>1. \A k \in 0..n : h[k] \in Copying(t, p)
  BY Zenon DEF StringRun
<1>2. q - p \in 0..n
  OBVIOUS
<1> HIDE DEF n
<1> QED
  BY <1>1, <1>2, Zenon DEF Having

(* What DoS has in the middle of a string *)
Has(b, i, out, literal) == b.i = i /\ b.out = out /\ b.literal = literal /\ b.end = 0

\* A character behind a backslash is taken as it is.
LEMMA LiteralTurn ==
  ASSUME NEW h, NEW d, NEW t, Len(t) \in Nat, NEW p \in 1..(Len(t) + 1), NEW length \in Nat, NEW all,
         StringRun(h, d, t, p, length, all), NEW q \in p..Len(t), Having(h, p, q).end = 0,
         Having(h, p, q).literal
  PROVE  Has(Having(h, p, q + 1), Having(h, p, q).i, Append(Having(h, p, q).out, t[q]), FALSE)
<1> DEFINE a == Having(h, p, q)
           b == Having(h, p, q + 1)
<1>1. b = StringStep(d, t, length, all, a, q)
  BY HavingNext
<1>2. a \in Copying(t, p)
  <2>1. q \in p..(Len(t) + 1)
    OBVIOUS
  <2> QED
    BY <2>1, HavingTyped, Zenon
<1>4. b = [a EXCEPT !.literal = FALSE, !.out = Append(@, t[q])]
  BY <1>1, Zenon DEF StringStep
<1>5. PICK S : a \in [i : Nat, out : Seq(S), literal : BOOLEAN, end : {0} \cup {e \in Nat : p <= e}]
  BY <1>2, Zenon DEF Copying
<1> HIDE DEF a, b
<1> QED
  BY <1>4, <1>5 DEF a, b, Has

\* Where the string ends it ends.
LEMMA EndTurn ==
  ASSUME NEW h, NEW d, NEW t, Len(t) \in Nat, NEW p \in 1..(Len(t) + 1), NEW length \in Nat, NEW all,
         StringRun(h, d, t, p, length, all), NEW q \in p..Len(t), Having(h, p, q).end = 0,
         ~Having(h, p, q).literal, EndsString(d, all, t[q])
  PROVE  LET a == Having(h, p, q)
             b == Having(h, p, q + 1)
         IN  b.out = a.out /\ b.end = q
<1> DEFINE a == Having(h, p, q)
           b == Having(h, p, q + 1)
<1>1. b = StringStep(d, t, length, all, a, q)
  BY HavingNext
<1>2. a \in Copying(t, p)
  <2>1. q \in p..(Len(t) + 1)
    OBVIOUS
  <2> QED
    BY <2>1, HavingTyped, Zenon
<1>4. b = [a EXCEPT !.end = q]
  BY <1>1, Zenon DEF StringStep
<1>5. PICK S : a \in [i : Nat, out : Seq(S), literal : BOOLEAN, end : {0} \cup {e \in Nat : p <= e}]
  BY <1>2, Zenon DEF Copying
<1> HIDE DEF a, b
<1> QED
  BY <1>4, <1>5 DEF a, b

\* With no room left a character is passed.
LEMMA FullTurn ==
  ASSUME NEW h, NEW d, NEW t, Len(t) \in Nat, NEW p \in 1..(Len(t) + 1), NEW length \in Nat, NEW all,
         StringRun(h, d, t, p, length, all), NEW q \in p..Len(t), Having(h, p, q).end = 0,
         ~Having(h, p, q).literal, ~EndsString(d, all, t[q]), Having(h, p, q).i + 1 >= length
  PROVE  Has(Having(h, p, q + 1), Having(h, p, q).i + 1, Having(h, p, q).out, FALSE)
<1> DEFINE a == Having(h, p, q)
           b == Having(h, p, q + 1)
<1>1. b = StringStep(d, t, length, all, a, q)
  BY HavingNext
<1>2. a \in Copying(t, p)
  <2>1. q \in p..(Len(t) + 1)
    OBVIOUS
  <2> QED
    BY <2>1, HavingTyped, Zenon
<1>4. b = [a EXCEPT !.i = @ + 1]
  BY <1>1, Zenon DEF StringStep
<1>5. PICK S : a \in [i : Nat, out : Seq(S), literal : BOOLEAN, end : {0} \cup {e \in Nat : p <= e}]
  BY <1>2, Zenon DEF Copying
<1> HIDE DEF a, b
<1> QED
  BY <1>4, <1>5 DEF a, b, Has

\* With room it is taken.
LEMMA PlainTurn ==
  ASSUME NEW h, NEW d, NEW t, Len(t) \in Nat, NEW p \in 1..(Len(t) + 1), NEW length \in Nat, NEW all,
         StringRun(h, d, t, p, length, all), NEW q \in p..Len(t), Having(h, p, q).end = 0,
         ~Having(h, p, q).literal, ~EndsString(d, all, t[q]), Having(h, p, q).i + 1 < length, t[q] \notin Backslash
  PROVE  Has(Having(h, p, q + 1), Having(h, p, q).i + 1, Append(Having(h, p, q).out, t[q]), FALSE)
<1> DEFINE a == Having(h, p, q)
           b == Having(h, p, q + 1)
<1>1. b = StringStep(d, t, length, all, a, q)
  BY HavingNext
<1>2. a \in Copying(t, p)
  <2>1. q \in p..(Len(t) + 1)
    OBVIOUS
  <2> QED
    BY <2>1, HavingTyped, Zenon
<1>3. ~(Having(h, p, q).i + 1 >= length) /\ (t[q] = "\\" <=> t[q] \in Backslash)
  <2>1. Having(h, p, q).i \in Nat
    BY <1>2 DEF Copying
  <2> QED
    BY <2>1 DEF Backslash
<1>4. b = [a EXCEPT !.i = @ + 1, !.out = Append(@, t[q])]
  BY <1>1, <1>3, Zenon DEF StringStep
<1>5. PICK S : a \in [i : Nat, out : Seq(S), literal : BOOLEAN, end : {0} \cup {e \in Nat : p <= e}]
  BY <1>2, Zenon DEF Copying
<1> HIDE DEF a, b
<1> QED
  BY <1>4, <1>5 DEF a, b, Has

\* A backslash in front of what it may escape is left out.
LEMMA EscapeTurn ==
  ASSUME NEW h, NEW d, NEW t, Len(t) \in Nat, NEW p \in 1..(Len(t) + 1), NEW length \in Nat, NEW all,
         StringRun(h, d, t, p, length, all), NEW q \in p..Len(t), Having(h, p, q).end = 0,
         ~Having(h, p, q).literal, ~EndsString(d, all, t[q]), Having(h, p, q).i + 1 < length, t[q] \in Backslash,
         Ch(t, q + 1) # NUL, Escapable(d, all, Ch(t, q + 1))
  PROVE  Has(Having(h, p, q + 1), Having(h, p, q).i + 1, Having(h, p, q).out, TRUE)
<1> DEFINE a == Having(h, p, q)
           b == Having(h, p, q + 1)
<1>1. b = StringStep(d, t, length, all, a, q)
  BY HavingNext
<1>2. a \in Copying(t, p)
  <2>1. q \in p..(Len(t) + 1)
    OBVIOUS
  <2> QED
    BY <2>1, HavingTyped, Zenon
<1>3. ~(Having(h, p, q).i + 1 >= length) /\ (t[q] = "\\" <=> t[q] \in Backslash)
  <2>1. Having(h, p, q).i \in Nat
    BY <1>2 DEF Copying
  <2> QED
    BY <2>1 DEF Backslash
<1>4. b = [a EXCEPT !.i = @ + 1, !.literal = TRUE]
  BY <1>1, <1>3, Zenon DEF StringStep
<1>5. PICK S : a \in [i : Nat, out : Seq(S), literal : BOOLEAN, end : {0} \cup {e \in Nat : p <= e}]
  BY <1>2, Zenon DEF Copying
<1> HIDE DEF a, b
<1> QED
  BY <1>4, <1>5 DEF a, b, Has

(* After j letters of a word: those for which there was room *)
WordSoFar(w, size, j, a) ==
  /\ a.end = 0 /\ a.literal = FALSE
  /\ IF j < size THEN a.i = j /\ a.out = SubSeq(w, 1, j) ELSE a.i >= size - 1 /\ a.out = SubSeq(w, 1, size - 1)

\* A letter more.
LEMMA LetterMore ==
  ASSUME NEW S, NEW w \in Seq(S), NEW j \in 1..Len(w)
  PROVE  Append(SubSeq(w, 1, j - 1), w[j]) = SubSeq(w, 1, j)
<1>1. SubSeq(w, 1, j - 1) \in Seq(S) /\ Len(SubSeq(w, 1, j - 1)) = j - 1 /\ SubSeq(w, 1, j) \in Seq(S) /\ Len(SubSeq(w, 1, j)) = j
  OBVIOUS
<1>2. /\ \A i \in 1..j : SubSeq(w, 1, j)[i] = w[i]
      /\ \A i \in 1..(j - 1) : SubSeq(w, 1, j - 1)[i] = w[i]
  OBVIOUS
<1> DEFINE u == SubSeq(w, 1, j - 1)
           v == SubSeq(w, 1, j)
<1>3. u \in Seq(S) /\ Len(u) = j - 1 /\ v \in Seq(S) /\ Len(v) = j /\ w[j] \in S
      /\ (\A i \in 1..j : v[i] = w[i]) /\ (\A i \in 1..(j - 1) : u[i] = w[i])
  BY <1>1, <1>2
<1> HIDE DEF u, v
<1>4. Append(u, w[j]) \in Seq(S) /\ Len(Append(u, w[j])) = j
  BY <1>3
<1>5. \A i \in 1..j : Append(u, w[j])[i] = v[i]
  <2> SUFFICES ASSUME NEW i \in 1..j PROVE Append(u, w[j])[i] = v[i]
    OBVIOUS
  <2>1. CASE i = j
    BY <1>3, <2>1
  <2>2. CASE i # j
    <3>1. i \in 1..(j - 1)
      BY <2>2
    <3> QED
      BY <1>3, <3>1
  <2> QED
    BY <2>1, <2>2
<1>6. Append(u, w[j]) = v
  BY <1>3, <1>4, <1>5
<1> QED
  BY <1>6 DEF u, v

(* A letter further: the first j are read, up to r *)
LetterOn(w, size, j, t, h, p, q, r) == WordSoFar(w, size, j, Having(h, p, r)) /\ r \in q + 1..Len(t) + 1

\* DoS reads a letter for which there is room.
LEMMA LetterRead ==
  ASSUME NEW S, NEW w \in Seq(S), NEW size \in Nat \ {0}, NEW by, by \notin Backslash, by # NUL, NEW all \in BOOLEAN,
         NEW t, Len(t) \in Nat, NEW p \in 1..(Len(t) + 1), NEW h, StringRun(h, {by}, t, p, size, all),
         NEW j \in 1..Len(w), NEW q \in Nat, p <= q, NEW r, LetterAt(w, by, t, j, q, r), j < size,
         WordSoFar(w, size, j - 1, Having(h, p, q))
  PROVE  LetterOn(w, size, j, t, h, p, q, r)
<1> DEFINE a == Having(h, p, q)
           b == Having(h, p, q + 1)
           c == Having(h, p, q + 2)
           x == w[j]
<1>1. a.end = 0 /\ a.literal = FALSE /\ a.i = j - 1 /\ a.out = SubSeq(w, 1, j - 1)
  <2>1. j - 1 < size
    OBVIOUS
  <2> QED
    BY <2>1, Zenon DEF WordSoFar
<1>2. a.i + 1 = j /\ a.i + 1 < size /\ size \in Nat /\ Append(a.out, x) = SubSeq(w, 1, j)
  BY <1>1, LetterMore
<1>3. x # NUL /\ \A y \in Backslash : y # NUL
  BY DEF LetterAt, Backslash, NUL
<1>4. q \in p..Len(t) /\ t[q] = Ch(t, q)
  <2>1. Ch(t, q) # NUL
    BY <1>3, Zenon DEF LetterAt
  <2> QED
    BY <2>1, Inside
<1>5. /\ \A y \in Backslash : ~EndsString({by}, all, y)
      /\ x \notin Escaped(by) => ~EndsString({by}, all, x)
      /\ \A y \in Escaped(by) : Escapable({by}, all, y)
  BY <1>3, Endings, Zenon
<1>6. ASSUME NEW e, e.i = j, e.out = SubSeq(w, 1, j), e.literal = FALSE, e.end = 0 PROVE WordSoFar(w, size, j, e)
  BY <1>6, Zenon DEF WordSoFar
<1>7. CASE x \notin Escaped(by)
  <2>1. r = q + 1 /\ t[q] = x /\ x \notin Backslash
    BY <1>4, <1>7, Zenon DEF LetterAt, Escaped
  <2>2. b.i = a.i + 1 /\ b.out = Append(a.out, t[q]) /\ b.literal = FALSE /\ b.end = 0
    <3>1. ~a.literal /\ ~EndsString({by}, all, t[q]) /\ t[q] \notin Backslash
      BY <1>1, <1>5, <1>7, <2>1, Zenon
    <3>2. Has(b, a.i + 1, Append(a.out, t[q]), FALSE)
      BY <1>1, <1>2, <1>4, <3>1, PlainTurn, Zenon
    <3> QED
      BY <3>2, Zenon DEF Has
  <2>3. WordSoFar(w, size, j, b)
    BY <1>2, <1>6, <2>1, <2>2, Zenon
  <2> QED
    BY <1>4, <2>1, <2>3 DEF LetterOn
<1>8. CASE x \in Escaped(by)
  <2>1. r = q + 2 /\ t[q] \in Backslash /\ Ch(t, q + 1) = x
    BY <1>4, <1>8, Zenon DEF LetterAt
  <2>2. b.i = a.i + 1 /\ b.out = a.out /\ b.literal = TRUE /\ b.end = 0
    <3>1. ~a.literal /\ ~EndsString({by}, all, t[q]) /\ Ch(t, q + 1) # NUL /\ Escapable({by}, all, Ch(t, q + 1))
      BY <1>1, <1>3, <1>5, <1>8, <2>1, Zenon
    <3>2. Has(b, a.i + 1, a.out, TRUE)
      BY <1>1, <1>2, <1>4, <2>1, <3>1, EscapeTurn, Zenon
    <3> QED
      BY <3>2, Zenon DEF Has
  <2>3. q + 1 \in p..Len(t) /\ (q + 1) + 1 = q + 2 /\ t[q + 1] = x
    <3>1. Ch(t, q + 1) # NUL
      BY <1>3, <2>1
    <3> QED
      BY <2>1, <3>1, Inside
  <2>4. c.i = b.i /\ c.out = Append(b.out, t[q + 1]) /\ c.literal = FALSE /\ c.end = 0
    <3> DEFINE y == q + 1
    <3>1. y \in p..Len(t) /\ Having(h, p, y).end = 0 /\ Having(h, p, y).literal
      BY <2>2, <2>3
    <3> HIDE DEF y
    <3>2. Has(Having(h, p, y + 1), Having(h, p, y).i, Append(Having(h, p, y).out, t[y]), FALSE)
      BY <1>2, <3>1, LiteralTurn, Zenon
    <3>3. y + 1 = q + 2
      BY DEF y
    <3> QED
      BY <3>2, <3>3, Zenon DEF y, Has
  <2>5. WordSoFar(w, size, j, c)
    BY <1>2, <1>6, <2>2, <2>3, <2>4, Zenon
  <2> QED
    BY <2>1, <2>3, <2>5 DEF LetterOn
<1> QED
  BY <1>7, <1>8

\* And passes one for which there is none, if it does not end the word.
LEMMA LetterSkipped ==
  ASSUME NEW w, Len(w) \in Nat, NEW size \in Nat \ {0}, NEW by, by \notin Backslash, by # NUL, NEW all \in BOOLEAN,
         NEW t, Len(t) \in Nat, NEW p \in 1..(Len(t) + 1), NEW h, StringRun(h, {by}, t, p, size, all),
         NEW j \in 1..Len(w), NEW q \in Nat, p <= q, NEW r, LetterAt(w, by, t, j, q, r), j >= size,
         w[j] \in Spaces \cup {by} => all,
         WordSoFar(w, size, j - 1, Having(h, p, q))
  PROVE  LetterOn(w, size, j, t, h, p, q, r)
<1> DEFINE a == Having(h, p, q)
           b == Having(h, p, q + 1)
           c == Having(h, p, q + 2)
           x == w[j]
<1>1. a.end = 0 /\ a.literal = FALSE /\ a.i >= size - 1 /\ a.out = SubSeq(w, 1, size - 1)
  <2>1. CASE j - 1 < size
    <3>1. a.end = 0 /\ a.literal = FALSE /\ a.i = j - 1 /\ a.out = SubSeq(w, 1, j - 1)
      BY <2>1, Zenon DEF WordSoFar
    <3>2. j - 1 = size - 1 /\ j - 1 \in Nat
      BY <2>1
    <3> QED
      BY <3>1, <3>2
  <2>2. CASE ~(j - 1 < size)
    BY <2>2, Zenon DEF WordSoFar
  <2> QED
    BY <2>1, <2>2
<1>2. x # NUL /\ \A y \in Backslash : y # NUL
  BY DEF LetterAt, Backslash, NUL
<1>3. q \in p..Len(t) /\ t[q] = Ch(t, q)
  <2>1. Ch(t, q) # NUL
    BY <1>2, Zenon DEF LetterAt
  <2> QED
    BY <2>1, Inside
<1>4. a.i \in Nat /\ a.i + 1 >= size /\ size \in Nat
  <2>1. q \in p..(Len(t) + 1)
    BY <1>3
  <2>2. a \in Copying(t, p)
    BY <2>1, HavingTyped
  <2>3. a.i \in Nat
    BY <2>2 DEF Copying
  <2> HIDE DEF a
  <2> QED
    BY <1>1, <2>3
<1>5. \A y \in Backslash : ~EndsString({by}, all, y)
  BY Endings, Zenon
<1>6. ~EndsString({by}, all, x)
  <2>1. CASE x \in Backslash
    BY <1>5, <2>1
  <2>2. CASE x \in Spaces \cup {by}
    <3>1. all
      BY <2>2
    <3>2. \A y : y # NUL /\ all => ~EndsString({by}, all, y)
      BY Endings, Zenon
    <3> QED
      BY <1>2, <3>1, <3>2, Zenon
  <2>3. CASE x \notin Escaped(by)
    <3>1. \A y : y \notin Escaped(by) /\ y # NUL => ~EndsString({by}, all, y)
      BY Endings, Zenon
    <3> QED
      BY <1>2, <2>3, <3>1, Zenon
  <2> QED
    BY <2>1, <2>2, <2>3, Zenon DEF Escaped
<1>7. ASSUME NEW e, e.i >= size - 1, e.out = SubSeq(w, 1, size - 1), e.literal = FALSE, e.end = 0
      PROVE  WordSoFar(w, size, j, e)
  <2>1. ~(j < size)
    OBVIOUS
  <2> QED
    BY <1>7, <2>1, Zenon DEF WordSoFar
<1>8. ~EndsString({by}, all, t[q])
  BY <1>3, <1>5, <1>6, Zenon DEF LetterAt
<1>9. b.i = a.i + 1 /\ b.out = a.out /\ b.literal = FALSE /\ b.end = 0
  <2>1. ~a.literal
    BY <1>1
  <2>2. Has(b, a.i + 1, a.out, FALSE)
    BY <1>1, <1>3, <1>4, <1>8, <2>1, FullTurn, Zenon
  <2> QED
    BY <2>2, Zenon DEF Has
<1>10. b.i \in Nat /\ b.i + 1 >= size /\ b.i >= size - 1
  BY <1>4, <1>9
<1>11. CASE x \notin Escaped(by)
  <2>1. r = q + 1
    BY <1>11, Zenon DEF LetterAt
  <2>2. WordSoFar(w, size, j, b)
    BY <1>1, <1>7, <1>9, <1>10, Zenon
  <2> QED
    BY <1>3, <2>1, <2>2 DEF LetterOn
<1>12. CASE x \in Escaped(by)
  <2>1. r = q + 2 /\ Ch(t, q + 1) = x
    BY <1>12, Zenon DEF LetterAt
  <2>2. q + 1 \in p..Len(t) /\ (q + 1) + 1 = q + 2 /\ t[q + 1] = x
    <3>1. Ch(t, q + 1) # NUL
      BY <1>2, <2>1
    <3> QED
      BY <2>1, <3>1, Inside
  <2>3. c.i = b.i + 1 /\ c.out = b.out /\ c.literal = FALSE /\ c.end = 0
    <3> DEFINE y == q + 1
    <3>1. y \in p..Len(t) /\ Having(h, p, y).end = 0 /\ ~Having(h, p, y).literal /\ Having(h, p, y).i + 1 >= size
          /\ ~EndsString({by}, all, t[y])
      BY <1>6, <1>9, <1>10, <2>2
    <3> HIDE DEF y
    <3>2. Has(Having(h, p, y + 1), Having(h, p, y).i + 1, Having(h, p, y).out, FALSE)
      BY <1>4, <3>1, FullTurn, Zenon
    <3>3. y + 1 = q + 2
      BY DEF y
    <3> QED
      BY <3>2, <3>3, Zenon DEF y, Has
  <2>4. c.i >= size - 1
    <3>1. c.i = b.i + 1
      BY <2>3
    <3> HIDE DEF b, c
    <3> QED
      BY <1>10, <3>1
  <2>5. WordSoFar(w, size, j, c)
    BY <1>1, <1>7, <1>9, <2>3, <2>4, Zenon
  <2> QED
    BY <2>1, <2>2, <2>5 DEF LetterOn
<1> QED
  BY <1>11, <1>12

\* A string that has ended stays so.
LEMMA EndStays ==
  ASSUME NEW h, NEW d, NEW t, Len(t) \in Nat, NEW p \in 1..(Len(t) + 1), NEW length, NEW all,
         StringRun(h, d, t, p, length, all), NEW q \in p..(Len(t) + 1), Having(h, p, q).end # 0
  PROVE  Having(h, p, Len(t) + 1) = Having(h, p, q)
<1> DEFINE n == Len(t)
           Good == {k \in Nat : q + k <= n + 1 => Having(h, p, q + k) = Having(h, p, q)}
<1>1. 0 \in Good
  BY q + 0 = q
<1>2. ASSUME NEW k \in Good PROVE k + 1 \in Good
  <2>1. k \in Nat /\ k + 1 \in Nat
    OBVIOUS
  <2> SUFFICES ASSUME q + (k + 1) <= n + 1 PROVE Having(h, p, q + (k + 1)) = Having(h, p, q)
    BY <2>1
  <2> DEFINE r == q + k
  <2>2. r \in p..Len(t) /\ r + 1 = q + (k + 1)
    BY <2>1
  <2>3. Having(h, p, r) = Having(h, p, q)
    BY <2>1, <2>2
  <2> HIDE DEF r
  <2>4. Having(h, p, r + 1) = StringStep(d, t, length, all, Having(h, p, r), r)
    BY <2>2, HavingNext
  <2>5. Having(h, p, r).end # 0
    BY <2>3
  <2>6. Having(h, p, r + 1) = Having(h, p, r)
    BY <2>4, <2>5, Zenon DEF StringStep
  <2> QED
    BY <2>2, <2>3, <2>6
<1> HIDE DEF Good
<1>3. Good = Nat
  <2>1. Good \in SUBSET Nat
    BY DEF Good
  <2> QED
    BY <1>1, <1>2, <2>1, Induct
<1>4. (n + 1) - q \in Nat /\ q + ((n + 1) - q) = n + 1
  OBVIOUS
<1>5. (n + 1) - q \in Good
  BY <1>3, <1>4
<1> QED
  BY <1>4, <1>5 DEF Good

\* Every letter of a word is at its place.
LEMMA LetterStands ==
  ASSUME NEW c, HasWords(c), NEW k \in 1..Len(c.words), NEW j \in 1..Len(c.words[k])
  PROVE  LetterAt(c.words[k], c.by, c.text, j, c.letters[k][j], c.letters[k][j + 1])
<1>1. c.letters[k][1] \in Nat \ {0}
  BY WordsPlaces
<1> QED
  BY <1>1, LetterIs

\* The first character of a word.
LEMMA FirstOfWord ==
  ASSUME NEW c, HasWords(c), NEW k \in 1..Len(c.words)
  PROVE  LET p == c.letters[k][1]
         IN  /\ p \in 1..Len(c.text) /\ c.text[p] # NUL /\ Ch(c.text, p) # NUL
             /\ c.text[p] \in Backslash \/ c.text[p] \notin Escaped(c.by)
<1> DEFINE p == c.letters[k][1]
           w == c.words[k]
<1>1. 1 \in 1..Len(w)
  BY WordIs
<1>2. LetterAt(w, c.by, c.text, 1, p, c.letters[k][1 + 1])
  BY <1>1, LetterStands, Zenon
<1>3. w[1] # NUL /\ (Ch(c.text, p) \in Backslash \/ (Ch(c.text, p) \notin Escaped(c.by) /\ Ch(c.text, p) = w[1]))
  BY <1>2, Zenon DEF LetterAt
<1>4. \A y \in Backslash : y # NUL
  BY DEF Backslash, NUL
<1>5. Ch(c.text, p) # NUL
  BY <1>3, <1>4
<1>6. p \in 1..Len(c.text) /\ Ch(c.text, p) = c.text[p]
  BY <1>5, Inside
<1> QED
  BY <1>3, <1>5, <1>6, Zenon

\* DoS reads a word letter by letter.
LEMMA LettersRead ==
  ASSUME NEW c, HasWords(c), NEW k \in 1..Len(c.words), NEW h,
         StringRun(h, {c.by}, c.text, c.letters[k][1], c.size, k = Len(c.words))
  PROVE  \A j \in 0..Len(c.words[k]) :
           /\ c.letters[k][j + 1] \in c.letters[k][1]..(Len(c.text) + 1)
           /\ WordSoFar(c.words[k], c.size, j, Having(h, c.letters[k][1], c.letters[k][j + 1]))
<1> DEFINE w == c.words[k]
           n == Len(w)
           t == c.text
           L == c.letters[k]
           p == L[1]
           last == k = Len(c.words)
           At(j) == L[j + 1] \in p..(Len(t) + 1) /\ WordSoFar(w, c.size, j, Having(h, p, L[j + 1]))
           Good == {j \in Nat : j <= n => At(j)}
<1>1. /\ n \in Nat /\ \A j \in 1..n : w[j] \in Spaces \cup {c.by} => j < c.size \/ last
      /\ \E S : w \in Seq(S)
  BY WordIs
<1>2. c.size \in Nat \ {0} /\ c.by \notin Backslash /\ c.by # NUL /\ Len(t) \in Nat
  BY WordsAre
<1>3. p \in 1..(Len(t) + 1) /\ p \in Nat
  <2>1. p \in 1..Len(t)
    BY FirstOfWord
  <2> HIDE DEF p, t
  <2> QED
    BY <1>2, <2>1
<1>4. StringRun(h, {c.by}, t, p, c.size, last)
  OBVIOUS
<1>5. \A j \in 1..n : LetterAt(w, c.by, t, j, L[j], L[j + 1])
  BY LetterStands
<1> HIDE DEF w, n, t, p, last, L
<1>6. 0 \in Good
  <2>1. L[0 + 1] = p
    BY DEF p
  <2>2. Having(h, p, p) = NoString
    BY <1>2, <1>3, <1>4, HavingRun, Zenon
  <2>3. WordSoFar(w, c.size, 0, NoString)
    <3>1. NoString.i = 0 /\ NoString.out = <<>> /\ NoString.literal = FALSE /\ NoString.end = 0
      BY DEF NoString
    <3>2. SubSeq(w, 1, 0) = <<>> /\ 0 < c.size
      BY <1>1, <1>2
    <3> QED
      BY <3>1, <3>2, Zenon DEF WordSoFar
  <2>4. At(0)
    BY <1>2, <1>3, <2>1, <2>2, <2>3
  <2> QED
    BY <2>4
<1>7. ASSUME NEW i \in Good PROVE i + 1 \in Good
  <2>1. i \in Nat /\ i + 1 \in Nat
    OBVIOUS
  <2> SUFFICES ASSUME i + 1 <= n PROVE At(i + 1)
    BY <2>1
  <2> DEFINE j == i + 1
  <2>2. j \in 1..n /\ j - 1 = i /\ i <= n
    BY <1>1, <2>1
  <2>3. At(i)
    BY <2>2
  <2>4. L[j] \in p..(Len(t) + 1) /\ WordSoFar(w, c.size, j - 1, Having(h, p, L[j]))
    BY <2>2, <2>3
  <2> HIDE DEF j
  <2>5. LetterAt(w, c.by, t, j, L[j], L[j + 1]) /\ L[j] \in Nat /\ p <= L[j]
    BY <1>3, <1>5, <2>2, <2>4
  <2>6. last \in BOOLEAN /\ j \in 1..Len(w) /\ Len(w) \in Nat
    BY <1>1, <2>2 DEF last, n
  <2>7. LetterOn(w, c.size, j, t, h, p, L[j], L[j + 1])
    <3>1. CASE j < c.size
      <4>1. PICK S : w \in Seq(S)
        BY <1>1
      <4> QED
        BY <1>2, <1>3, <1>4, <2>2, <2>4, <2>5, <2>6, <3>1, <4>1, LetterRead, Zenon
    <3>2. CASE j >= c.size
      <4>1. w[j] \in Spaces \cup {c.by} => last
        <5>1. ~(j < c.size)
          BY <1>2, <2>2, <3>2
        <5> QED
          BY <1>1, <2>2, <5>1, Zenon
      <4> QED
        BY <1>1, <1>2, <1>3, <1>4, <2>2, <2>4, <2>5, <2>6, <3>2, <4>1, LetterSkipped, Zenon
    <3>3. j < c.size \/ j >= c.size
      BY <1>2, <2>2
    <3> QED
      BY <3>1, <3>2, <3>3
  <2>8. WordSoFar(w, c.size, j, Having(h, p, L[j + 1])) /\ L[j + 1] \in L[j] + 1..Len(t) + 1
    BY <2>7, Zenon DEF LetterOn
  <2> DEFINE x == L[j]
             y == L[j + 1]
  <2>9. x \in p..(Len(t) + 1) /\ y \in x + 1..Len(t) + 1
    BY <2>4, <2>8
  <2> HIDE DEF x, y
  <2>10. y \in p..(Len(t) + 1)
    BY <1>2, <1>3, <2>9
  <2> QED
    BY <2>8, <2>10 DEF j, y
<1> HIDE DEF Good
<1>8. Good = Nat
  <2>1. Good \in SUBSET Nat
    BY DEF Good
  <2> QED
    BY <1>6, <1>7, <2>1, Induct
<1>9. ASSUME NEW j \in 0..n PROVE At(j)
  <2>1. j \in Good /\ j <= n
    BY <1>1, <1>8
  <2> QED
    BY <2>1, Zenon DEF Good
<1> QED
  BY <1>9, Zenon DEF w, n, t, p, L

\* What is cut twice at the same length is cut once.
LEMMA CutTwice ==
  ASSUME NEW S, NEW w \in Seq(S), NEW size \in Nat \ {0}
  PROVE  /\ Len(w) < size => CutTo(SubSeq(w, 1, Len(w)), size) = CutTo(w, size)
         /\ Len(w) >= size => CutTo(SubSeq(w, 1, size - 1), size) = CutTo(w, size)
<1>1. SubSeq(w, 1, Len(w)) = w
  OBVIOUS
<1>2. ASSUME Len(w) >= size PROVE CutTo(SubSeq(w, 1, size - 1), size) = CutTo(w, size)
  <2> DEFINE u == SubSeq(w, 1, size - 1)
  <2>1. Len(u) = size - 1 /\ ~(Len(w) < size)
    BY <1>2
  <2> HIDE DEF u
  <2>2. Len(u) < size
    BY <2>1
  <2> QED
    BY <2>1, <2>2, Zenon DEF CutTo, u
<1> QED
  BY <1>1, <1>2, Zenon

(* The word k of a call, where it begins and where it ends *)
Word(c, k) == c.words[k]
From(c, k) == c.letters[k][1]
To(c, k) == c.letters[k][Len(c.words[k]) + 1]

\* A word is read as it was written, up to the size of its destination, and
\* what is read next begins behind the delimiter.
LEMMA WordRead ==
  ASSUME NEW c, HasWords(c), NEW k \in 1..Len(c.words)
  PROVE  LET r == DoS({c.by}, c.text, From(c, k), c.size, k = Len(c.words))
         IN  /\ CutTo(r.v, c.size) = CutTo(Word(c, k), c.size)
             /\ k = Len(c.words) => r.p = Len(c.text) + 1
             /\ k # Len(c.words) => r.p = To(c, k) + 1
<1> DEFINE w == c.words[k]
           n == Len(w)
           t == c.text
           p == From(c, k)
           e == To(c, k)
           size == c.size
           last == k = Len(c.words)
           r == DoS({c.by}, t, p, size, last)
<1>1. /\ n \in Nat /\ (last => e = Len(t) + 1) /\ (~last => Ch(t, e) = c.by)
  BY WordIs DEF To
<1>2. PICK S : w \in Seq(S)
  BY WordIs
<1>3. size \in Nat \ {0} /\ c.by \notin Backslash /\ c.by # NUL /\ Len(t) \in Nat
  BY WordsAre
<1>4. p \in 1..Len(t)
  BY FirstOfWord DEF From
<1>5. p \in 1..(Len(t) + 1)
  BY <1>3, <1>4
<1>6. PICK h : StringRun(h, {c.by}, t, p, size, last)
  BY <1>3, <1>5, StringRuns, Zenon
<1>7. e \in p..(Len(t) + 1) /\ WordSoFar(w, size, n, Having(h, p, e))
  <2>1. \A j \in 0..n : c.letters[k][j + 1] \in p..(Len(t) + 1) /\ WordSoFar(w, size, j, Having(h, p, c.letters[k][j + 1]))
    BY <1>6, LettersRead DEF From
  <2>2. n \in 0..n
    BY <1>1
  <2> QED
    BY <2>1, <2>2, Zenon DEF To
<1> HIDE DEF w, n, t, p, e, size, last
<1> DEFINE a == Having(h, p, e)
           z == Having(h, p, Len(t) + 1)
<1>8. a.end = 0 /\ a.literal = FALSE /\ CutTo(a.out, size) = CutTo(w, size)
  <2>1. CASE n < size
    <3>1. a.end = 0 /\ a.literal = FALSE /\ a.out = SubSeq(w, 1, n)
      BY <1>7, <2>1, Zenon DEF WordSoFar
    <3>2. CutTo(SubSeq(w, 1, Len(w)), size) = CutTo(w, size)
      BY <1>2, <1>3, <2>1, CutTwice DEF n
    <3> QED
      BY <3>1, <3>2, Zenon DEF n
  <2>2. CASE ~(n < size)
    <3>1. a.end = 0 /\ a.literal = FALSE /\ a.out = SubSeq(w, 1, size - 1)
      BY <1>7, <2>2, Zenon DEF WordSoFar
    <3>2. CutTo(SubSeq(w, 1, size - 1), size) = CutTo(w, size)
      <4>1. Len(w) >= size
        BY <1>1, <1>3, <2>2 DEF n
      <4> QED
        BY <1>2, <1>3, <4>1, CutTwice
    <3> QED
      BY <3>1, <3>2, Zenon
  <2> QED
    BY <2>1, <2>2
<1>9. r = StringEnds(t, z.out, IF z.end = 0 THEN Len(t) + 1 ELSE z.end)
  BY <1>3, <1>5, <1>6, HavingRun
<1>10. CASE last
  <2>1. r = StringEnds(t, a.out, Len(t) + 1)
    BY <1>1, <1>8, <1>9, <1>10, Zenon
  <2>2. Ch(t, Len(t) + 1) = NUL
    BY <1>3 DEF Ch
  <2>3. r.v = a.out /\ r.p = Len(t) + 1
    BY <2>1, <2>2 DEF StringEnds
  <2> QED
    BY <1>8, <1>10, <2>3 DEF w, n, t, p, e, size, last, From, To, Word
<1>11. CASE ~last
  <2>1. e \in 1..Len(t) /\ t[e] = c.by /\ Ch(t, e) # NUL
    <3>1. Ch(t, e) # NUL
      BY <1>1, <1>3, <1>11
    <3> QED
      BY <1>1, <1>11, <3>1, Inside
  <2>2. e \in p..Len(t) /\ e + 1 \in p..(Len(t) + 1) /\ e # 0
    BY <1>3, <1>4, <1>7, <2>1
  <2>3. EndsString({c.by}, last, t[e])
    <3>1. last \in BOOLEAN
      BY DEF last
    <3> QED
      BY <1>3, <1>11, <2>1, <3>1, Endings, Zenon
  <2>4. Having(h, p, e + 1).out = a.out /\ Having(h, p, e + 1).end = e
    <3>1. ~a.literal
      BY <1>8
    <3>2. LET u == Having(h, p, e)
              v == Having(h, p, e + 1)
          IN  v.out = u.out /\ v.end = e
      BY <1>3, <1>5, <1>6, <1>8, <2>2, <2>3, <3>1, EndTurn
    <3> QED
      BY <3>2
  <2>5. z = Having(h, p, e + 1)
    BY <1>3, <1>5, <1>6, <2>2, <2>4, EndStays
  <2>6. r = StringEnds(t, a.out, e)
    <3>1. z.out = a.out /\ z.end = e /\ e # 0
      BY <2>2, <2>4, <2>5
    <3> QED
      BY <1>9, <3>1, Zenon
  <2>7. r.v = a.out /\ r.p = e + 1
    BY <2>1, <2>6 DEF StringEnds
  <2> QED
    BY <1>8, <1>11, <2>7 DEF w, n, t, p, e, size, last, From, To, Word
<1> QED
  BY <1>10, <1>11

\* Nothing is skipped in front of a word, nor behind the last.
LEMMA BehindWord ==
  ASSUME NEW c, HasWords(c), NEW k \in 1..Len(c.words)
  PROVE  /\ SkipOneSpacer({c.by}, c.text, From(c, k)) = From(c, k)
         /\ SkipOneSpacer({c.by}, c.text, Len(c.text) + 1) = Len(c.text) + 1
         /\ SkipWhitespace(c.text, From(c, k)) = From(c, k)
<1> DEFINE t == c.text
           p == From(c, k)
<1>1. c.by \notin Backslash /\ c.by # NUL /\ Len(t) \in Nat
  BY WordsAre
<1>2. PICK S : t \in Seq(S)
  BY WordsAre
<1>3. p \in 1..Len(t) /\ t[p] # NUL /\ (t[p] \in Backslash \/ t[p] \notin Escaped(c.by)) /\ Ch(t, p) # NUL
  BY FirstOfWord DEF From
<1>4. t[p] \notin Spaces /\ t[p] # c.by
  <2>1. \A y \in Backslash : y \notin Spaces
    BY Zenon DEF Backslash, Spaces
  <2> QED
    BY <1>1, <1>3, <2>1, Zenon DEF Escaped
<1>5. ~IsWhitespace(t[p])
  BY <1>3, <1>4, Zenon DEF IsWhitespace, Spaces
<1> HIDE DEF t, p
<1>6. SkipWhitespace(t, p) = p
  BY <1>2, <1>3, <1>5, NothingToSkip
<1>7. Ch(t, p) = t[p]
  BY <1>3, Inside
<1>8. \A x : IsDelimiter({c.by}, x) <=> x = c.by
  BY Zenon DEF IsDelimiter
<1>9. SkipOneSpacer({c.by}, t, p) = p
  BY <1>4, <1>6, <1>7, <1>8, Zenon DEF SkipOneSpacer
<1>10. SkipOneSpacer({c.by}, t, Len(t) + 1) = Len(t) + 1
  <2>1. SkipWhitespace(t, Len(t) + 1) = Len(t) + 1
    <3>1. Len(t) + 1 \in 1..(Len(t) + 1)
      BY <1>1
    <3>2. SkipWhitespace(t, Len(t) + 1) \in Len(t) + 1..Len(t) + 1
      BY <1>2, <3>1, Skipped
    <3> DEFINE e == SkipWhitespace(t, Len(t) + 1)
    <3>3. e \in Len(t) + 1..Len(t) + 1
      BY <3>2
    <3> HIDE DEF e
    <3>4. e = Len(t) + 1
      BY <1>1, <3>3
    <3> QED
      BY <3>4 DEF e
  <2>2. Ch(t, Len(t) + 1) = NUL
    BY <1>1 DEF Ch
  <2> QED
    BY <1>1, <1>8, <2>1, <2>2, Zenon DEF SkipOneSpacer
<1> QED
  BY <1>6, <1>9, <1>10 DEF t, p

\* A numeral that stands in a text is read as its number.
LEMMA NumeralRead ==
  ASSUME NEW S, NEW t \in Seq(S), NEW p \in Nat \ {0}, NEW digits, Numeral(digits),
         Within(t, p, digits), Ch(t, p + Len(digits)) \notin Dec
  PROVE  /\ p \in 1..Len(t)
         /\ GetDec(t, p) = [v |-> Number(digits), p |-> p + Len(digits)]
<1> DEFINE n == Len(digits)
           e == DigitsEnd(t, p)
<1>1. digits \in Seq(Dec) /\ n \in Nat \ {0} /\ \A j \in 1..n : digits[j] \in Dec
  <2>1. digits \in Seq(Dec) /\ digits # <<>>
    BY Zenon DEF Numeral
  <2> QED
    BY <2>1
<1>2. NUL \notin Dec /\ "-" \notin Dec /\ "+" \notin Dec
  BY DEF Dec, Oct, Bin, NUL
<1>3. \A j \in 1..n : p + j - 1 \in 1..Len(t) /\ t[p + j - 1] = digits[j] /\ t[p + j - 1] \in Dec
  <2> SUFFICES ASSUME NEW j \in 1..n
               PROVE  p + j - 1 \in 1..Len(t) /\ t[p + j - 1] = digits[j] /\ t[p + j - 1] \in Dec
    OBVIOUS
  <2>1. Ch(t, p + j - 1) = digits[j] /\ digits[j] \in Dec
    BY <1>1 DEF Within
  <2>2. Ch(t, p + j - 1) # NUL
    BY <1>2, <2>1
  <2>3. p + j - 1 \in 1..Len(t) /\ Ch(t, p + j - 1) = t[p + j - 1]
    BY <2>2, Inside
  <2> QED
    BY <2>1, <2>3
<1>4. p \in 1..Len(t) /\ Ch(t, p) \in Dec
  <2>1. 1 \in 1..n /\ p + 1 - 1 = p
    BY <1>1
  <2>2. p \in 1..Len(t) /\ t[p] \in Dec
    BY <1>3, <2>1
  <2> QED
    BY <2>2 DEF Ch
<1>5. p \in 1..(Len(t) + 1)
  BY <1>4
<1>6. e \in p..(Len(t) + 1) /\ \A q \in p..(e - 1) : t[q] \in Dec
  BY <1>5, DigitsEndThere
<1>7. e <= Len(t) => t[e] \notin Dec
  BY <1>5, DigitsStop
<1>8. Ch(t, p) \notin {"-", "+"}
  BY <1>2, <1>4
<1>9. GetDec(t, p) = [v |-> Number(DigitsAt(t, p)), p |-> e]
  BY <1>5, <1>8, GetDecIs
<1>10. DigitsAt(t, p) = SubSeq(t, p, e - 1)
  BY DEF DigitsAt
<1> HIDE DEF n, e
<1>11. e = p + n
  <2>1. ~(e < p + n)
    <3> SUFFICES ASSUME e < p + n PROVE FALSE
      OBVIOUS
    <3> DEFINE j == e - p + 1
    <3>1. j \in 1..n /\ p + j - 1 = e
      BY <1>1, <1>6
    <3>2. e \in 1..Len(t) /\ t[e] \in Dec
      BY <1>3, <3>1
    <3> QED
      BY <1>7, <3>2
  <2>2. ~(e > p + n)
    <3> SUFFICES ASSUME e > p + n PROVE FALSE
      OBVIOUS
    <3>1. p + n \in p..(e - 1) /\ p + n \in 1..Len(t)
      BY <1>1, <1>6
    <3>2. t[p + n] \in Dec
      BY <1>6, <3>1
    <3>3. Ch(t, p + n) = t[p + n]
      BY <3>1 DEF Ch
    <3> QED
      BY <3>2, <3>3 DEF n
  <2> QED
    BY <1>1, <1>6, <2>1, <2>2
<1>12. SubSeq(t, p, e - 1) = digits
  <2> DEFINE u == SubSeq(t, p, e - 1)
  <2>1. u = [j \in 1..n |-> t[p + j - 1]]
    <3> DEFINE q == e - 1
    <3>1. p \in Nat \ {0} /\ n \in Nat /\ q = p + n - 1
      BY <1>1, <1>5, <1>6, <1>11
    <3>2. u = SubSeq(t, p, q)
      OBVIOUS
    <3> HIDE DEF u, q, n, e
    <3>3. q \in Int /\ q - p + 1 = n
      BY <3>1
    <3>4. SubSeq(t, p, q) = [j \in 1..q - p + 1 |-> t[p + j - 1]]
      BY <3>1, <3>3
    <3> QED
      BY <3>2, <3>3, <3>4
  <2>2. \A j \in 1..n : t[p + j - 1] = digits[j]
    BY <1>3
  <2> HIDE DEF u
  <2>3. u = [j \in 1..n |-> digits[j]]
    BY <2>1, <2>2
  <2>4. digits = [j \in 1..n |-> digits[j]]
    BY <1>1 DEF n
  <2> QED
    BY <2>3, <2>4, Zenon DEF u
<1> QED
  BY <1>4, <1>9, <1>10, <1>11, <1>12, Zenon DEF n

(* A reader returned v, and got to p *)
IsRead(r, v, p) == r.v = v /\ r.p = p

\* A length in square brackets.
LEMMA LengthRead ==
  ASSUME NEW S, NEW t \in Seq(S), NEW p \in Nat \ {0}, NEW digits, Numeral(digits), NEW error,
         Ch(t, p) = "[", Within(t, p + 1, digits), Ch(t, p + 1 + Len(digits)) = "]", Number(digits) \in Nat \ {0}
  PROVE  IsRead(GetLength(t, p, error), Number(digits), p + Len(digits) + 2)
<1> DEFINE q == p + 1
           e == p + 1 + Len(digits)
           r == GetDec(t, q)
<1>1. Len(digits) \in Nat
  <2>1. digits \in Seq(Dec)
    BY Zenon DEF Numeral
  <2> QED
    BY <2>1
<1>2. "]" \notin Dec /\ "]" # NUL
  BY DEF Dec, Oct, Bin, NUL
<1>3. r = [v |-> Number(digits), p |-> e]
  <2>1. q \in Nat \ {0} /\ Ch(t, q + Len(digits)) \notin Dec
    BY <1>2
  <2>2. Within(t, q, digits)
    OBVIOUS
  <2> HIDE DEF q
  <2>3. GetDec(t, q) = [v |-> Number(digits), p |-> q + Len(digits)]
    BY <2>1, <2>2, NumeralRead
  <2> QED
    BY <2>3 DEF q
<1>4. e \in 1..Len(t) /\ t[e] = "]"
  BY <1>2, Inside
<1>5. FirstAt(t, e, LAMBDA c : c = "]") = e
  <2>1. Len(t) \in Nat /\ e \in Nat \ {0} /\ e \in e..Len(t) /\ \A x \in e..(e - 1) : t[x] # "]"
    BY <1>4
  <2> HIDE DEF e
  <2> QED
    BY <1>4, <2>1, FirstOfIs
<1>6. PastIfAny(t, e) = e + 1
  BY <1>2 DEF PastIfAny
<1>7. r.v = Number(digits) /\ r.p = e
  BY <1>3
<1>8. ~(r.v <= 0)
  BY <1>7
<1> DEFINE x == [v |-> IF r.v <= 0 THEN IF error THEN 0 ELSE SSCANF_MAX_LENGTH ELSE r.v,
                 p |-> PastIfAny(t, FirstAt(t, r.p, LAMBDA c : c = "]"))]
<1>9. GetLength(t, p, error) = x
  BY Zenon DEF GetLength
<1>10. x.v = Number(digits) /\ x.p = e + 1
  <2>1. x.v = IF r.v <= 0 THEN IF error THEN 0 ELSE SSCANF_MAX_LENGTH ELSE r.v
    OBVIOUS
  <2>2. x.p = PastIfAny(t, FirstAt(t, r.p, LAMBDA c : c = "]"))
    OBVIOUS
  <2> HIDE DEF x, r, e
  <2> QED
    BY <1>5, <1>6, <1>7, <1>8, <2>1, <2>2
<1>11. e + 1 = p + Len(digits) + 2
  BY <1>1
<1> QED
  BY <1>9, <1>10, <1>11 DEF IsRead

(* a and then b *)
Joined(u, a, b) ==
  /\ Len(u) = Len(a) + Len(b)
  /\ \A i \in 1..Len(a) : u[i] = a[i]
  /\ \A i \in 1..Len(b) : u[Len(a) + i] = b[i]

LEMMA Joining ==
  ASSUME NEW S, NEW a \in Seq(S), NEW b \in Seq(S)
  PROVE  a \o b \in Seq(S) /\ Joined(a \o b, a, b)
<1>1. /\ a \o b \in Seq(S)
      /\ Len(a \o b) = Len(a) + Len(b)
      /\ \A i \in 1..Len(a) + Len(b) : (a \o b)[i] = IF i <= Len(a) THEN a[i] ELSE b[i - Len(a)]
  BY ConcatProperties, Zenon
<1> DEFINE u == a \o b
           m == Len(a)
           n == Len(b)
<1>2. m \in Nat /\ n \in Nat
  OBVIOUS
<1>3. \A i \in 1..m + n : u[i] = IF i <= m THEN a[i] ELSE b[i - m]
  BY <1>1
<1> HIDE DEF u, m, n
<1>4. \A i \in 1..m : u[i] = a[i]
  BY <1>2, <1>3
<1>5. ASSUME NEW i \in 1..n PROVE u[m + i] = b[i]
  <2>1. m + i \in 1..m + n /\ ~(m + i <= m) /\ (m + i) - m = i
    BY <1>2
  <2> QED
    BY <1>3, <2>1
<1> QED
  BY <1>1, <1>4, <1>5, Zenon DEF Joined, u, m, n

(* d, behind x and y and in front of z *)
Bracketed(u, x, y, d, z) ==
  /\ Len(u) = Len(d) + 3 /\ u[1] = x /\ u[2] = y /\ u[Len(d) + 3] = z
  /\ \A j \in 1..Len(d) : u[j + 2] = d[j]

\* What is in front of a sequence, in it and behind it.
LEMMA InBrackets ==
  ASSUME NEW S, NEW d \in Seq(S), NEW x, NEW y, NEW z
  PROVE  Bracketed(<<x, y>> \o d \o <<z>>, x, y, d, z)
<1> DEFINE n == Len(d)
           T == S \cup {x, y, z}
           b == <<x, y>>
           e == <<z>>
           v == b \o d
           u == v \o e
<1>1. n \in Nat /\ Len(d) = n /\ d \in Seq(T) /\ b \in Seq(T) /\ e \in Seq(T) /\ Len(b) = 2 /\ Len(e) = 1 /\ b[1] = x /\ b[2] = y /\ e[1] = z
  OBVIOUS
<1> HIDE DEF T, b, e, n
<1>2. v \in Seq(T) /\ Joined(v, b, d)
  BY <1>1, Joining, Zenon
<1> HIDE DEF v
<1>3. Joined(u, v, e)
  BY <1>1, <1>2, Joining, Zenon
<1> HIDE DEF u
<1>4. Len(v) = n + 2 /\ v[1] = x /\ v[2] = y /\ \A j \in 1..n : v[2 + j] = d[j]
  BY <1>1, <1>2 DEF Joined
<1>5. Len(u) = n + 3 /\ u[1] = x /\ u[2] = y /\ u[n + 3] = z /\ \A j \in 1..n : u[j + 2] = d[j]
  <2>1. /\ Len(u) = n + 3 /\ (\A i \in 1..n + 2 : u[i] = v[i]) /\ u[(n + 2) + 1] = z
    BY <1>1, <1>3, <1>4 DEF Joined
  <2>2. /\ 1 \in 1..n + 2 /\ 2 \in 1..n + 2 /\ (n + 2) + 1 = n + 3
        /\ \A j \in 1..n : j + 2 \in 1..n + 2 /\ 2 + j = j + 2
    BY <1>1
  <2> QED
    BY <1>4, <2>1, <2>2
<1>6. u = <<x, y>> \o d \o <<z>>
  BY DEF u, v, b, e
<1> QED
  BY <1>5, <1>6 DEF n, Bracketed

\* The specifier of the word k, and the length of its destination.
LEMMA WordFormat ==
  ASSUME NEW c, HasWords(c), NEW k \in 1..Len(c.words), c.at[k] \in Nat \ {0}
  PROVE  /\ Ch(c.format, c.at[k]) = "s"
         /\ GetLength(c.format, c.at[k] + 1, FALSE).v = c.size
         /\ GetLength(c.format, c.at[k] + 1, FALSE).p = c.at[k + 1]
         /\ c.at[k + 1] \in Nat \ {0}
<1> DEFINE t == c.format
           p == c.at[k]
           d == c.digits
           n == Len(d)
           part == <<"s", "[">> \o d \o <<"]">>
<1>1. Numeral(d) /\ c.size = Number(d) /\ c.size \in Nat \ {0}
  BY WordsAre
<1>2. PICK S : t \in Seq(S)
  BY WordsAre
<1>3. d \in Seq(Dec) /\ n \in Nat
  <2>1. d \in Seq(Dec)
    BY <1>1, Zenon DEF Numeral
  <2> QED
    BY <2>1
<1>4. c.at[k + 1] = p + Len(part) /\ \A j \in 1..Len(part) : Ch(t, p + j - 1) = part[j]
  <2> DEFINE parts == [i \in 1..Len(c.words) |-> part]
  <2>1. Parts(t, c.at, parts)
    BY WordsAssumption, Zenon DEF HasWords, OfWords
  <2>2. Len(c.words) \in Nat
    BY WordsAre
  <2>3. Len(parts) = Len(c.words) /\ parts[k] = part
    BY <2>2
  <2> HIDE DEF parts
  <2>4. \A i \in 1..Len(parts) : /\ c.at[i + 1] = c.at[i] + Len(parts[i])
                                 /\ \A j \in 1..Len(parts[i]) : Ch(t, c.at[i] + j - 1) = parts[i][j]
    BY <2>1, Zenon DEF Parts
  <2>5. k \in 1..Len(parts)
    BY <2>3
  <2>6. c.at[k + 1] = c.at[k] + Len(parts[k]) /\ \A j \in 1..Len(parts[k]) : Ch(t, c.at[k] + j - 1) = parts[k][j]
    BY <2>4, <2>5, Zenon
  <2> QED
    BY <2>3, <2>6, Zenon
<1>5. Len(part) = n + 3 /\ part[1] = "s" /\ part[2] = "[" /\ part[n + 3] = "]" /\ \A j \in 1..n : part[j + 2] = d[j]
  <2>1. Bracketed(part, "s", "[", d, "]")
    BY <1>3, InBrackets, Zenon
  <2> QED
    BY <2>1, Zenon DEF Bracketed
<1>6. p \in Nat \ {0}
  OBVIOUS
<1> HIDE DEF t, p, d, n, part
<1>7. Ch(t, p) = "s" /\ Ch(t, p + 1) = "[" /\ Ch(t, p + n + 2) = "]" /\ \A j \in 1..n : Ch(t, p + j + 1) = d[j]
  <2>1. 1 \in 1..(n + 3) /\ 2 \in 1..(n + 3) /\ n + 3 \in 1..(n + 3)
    BY <1>3
  <2>2. p + 1 - 1 = p /\ p + 2 - 1 = p + 1 /\ p + (n + 3) - 1 = p + n + 2
    BY <1>3, <1>6
  <2>3. \A j \in 1..n : j + 2 \in 1..(n + 3) /\ p + (j + 2) - 1 = p + j + 1
    BY <1>3, <1>6
  <2> QED
    BY <1>4, <1>5, <2>1, <2>2, <2>3
<1>8. GetLength(t, p + 1, FALSE).v = Number(d) /\ GetLength(t, p + 1, FALSE).p = p + 1 + n + 2
  <2> DEFINE q == p + 1
  <2>1. q \in Nat \ {0} /\ Ch(t, q) = "[" /\ q + 1 + n = p + n + 2
    BY <1>3, <1>6, <1>7
  <2>2. \A j \in 1..n : q + 1 + j - 1 = p + j + 1
    BY <1>3, <1>6
  <2> HIDE DEF q
  <2>3. Ch(t, q + 1 + Len(d)) = "]" /\ Within(t, q + 1, d) /\ Number(d) \in Nat \ {0}
    BY <1>1, <1>7, <2>1, <2>2 DEF n, d, Within
  <2>4. Numeral(d) /\ t \in Seq(S)
    BY <1>1, <1>2 DEF d, t
  <2>5. IsRead(GetLength(t, q, FALSE), Number(d), q + Len(d) + 2)
    BY <2>1, <2>3, <2>4, LengthRead, Zenon
  <2> QED
    BY <2>5 DEF q, n, IsRead
<1>9. c.at[k + 1] = p + 1 + n + 2 /\ c.at[k + 1] \in Nat \ {0}
  BY <1>3, <1>4, <1>5, <1>6
<1> QED
  BY <1>1, <1>7, <1>8, <1>9 DEF t, p, d

(* A call with words begins with its delimiter, unless that is a space *)
LEMMA WordsBegin ==
  ASSUME NEW c, HasWords(c)
  PROVE  /\ c.by \in Spaces => c.at[1] = 1 /\ {c.by} = Spaces
         /\ c.by \notin Spaces => /\ c.at[1] = 5
                                  /\ Ch(c.format, 1) = "p" /\ Ch(c.format, 2) = "<"
                                  /\ Ch(c.format, 3) = c.by /\ Ch(c.format, 4) = ">"
         /\ c.at[Len(c.words) + 1] = Len(c.format) + 1 /\ Ch(c.format, Len(c.format) + 1) = NUL
<1>1. /\ IF c.by = " " THEN c.at[1] = 1 ELSE Within(c.format, 1, <<"p", "<", c.by, ">">>) /\ c.at[1] = 5
      /\ c.at[Len(c.words) + 1] = Len(c.format) + 1
  BY WordsAssumption, Zenon DEF HasWords, OfWords
<1>2. c.by \in Spaces <=> c.by = " "
  BY Zenon DEF Spaces
<1>3. c.by \in Spaces => c.at[1] = 1 /\ {c.by} = Spaces
  BY <1>1, <1>2, Zenon DEF Spaces
<1>4. ASSUME c.by \notin Spaces
      PROVE  /\ c.at[1] = 5
             /\ Ch(c.format, 1) = "p" /\ Ch(c.format, 2) = "<" /\ Ch(c.format, 3) = c.by /\ Ch(c.format, 4) = ">"
  <2>1. Within(c.format, 1, <<"p", "<", c.by, ">">>) /\ c.at[1] = 5
    BY <1>1, <1>2, <1>4, Zenon
  <2> QED
    BY <2>1, WithinFour, Zenon
<1>5. Ch(c.format, Len(c.format) + 1) = NUL
  <2>1. Len(c.format) \in Nat
    BY WordsAre
  <2>2. Len(c.format) + 1 \notin 1..Len(c.format)
    BY <2>1
  <2> QED
    BY <2>2, Zenon DEF Ch
<1> QED
  BY <1>1, <1>3, <1>4, <1>5, Zenon

\* Every specifier of a word has its place.
LEMMA WordsSpecified ==
  ASSUME NEW c, HasWords(c)
  PROVE  \A k \in 1..Len(c.words) + 1 : c.at[k] \in Nat \ {0}
<1> DEFINE m == Len(c.words)
           Good == {k \in Nat : k <= m => c.at[k + 1] \in Nat \ {0}}
<1>0. m \in Nat
  BY WordsAre
<1>1. 0 \in Good
  <2>1. c.at[0 + 1] = 1 \/ c.at[0 + 1] = 5
    BY WordsBegin
  <2> QED
    BY <2>1
<1>2. ASSUME NEW k \in Good PROVE k + 1 \in Good
  <2>1. k \in Nat /\ k + 1 \in Nat
    OBVIOUS
  <2> SUFFICES ASSUME k + 1 <= m PROVE c.at[(k + 1) + 1] \in Nat \ {0}
    BY <2>1
  <2>2. k + 1 \in 1..m /\ c.at[k + 1] \in Nat \ {0}
    BY <1>0, <2>1
  <2> QED
    BY <2>2, WordFormat
<1> HIDE DEF Good
<1>3. Good = Nat
  <2>1. Good \in SUBSET Nat
    BY DEF Good
  <2> QED
    BY <1>1, <1>2, <2>1, Induct
<1> SUFFICES ASSUME NEW k \in 1..m + 1 PROVE c.at[k] \in Nat \ {0}
  OBVIOUS
<1>4. k - 1 \in Nat /\ (k - 1) + 1 = k /\ k - 1 <= m
  BY <1>0
<1>5. k - 1 \in Good
  BY <1>3, <1>4
<1> QED
  BY <1>4, <1>5 DEF Good

(* The first k words, each up to the size of its destination *)
ReadWords(c, k) == [j \in 1..k |-> CutTo(c.words[j], c.size)]

\* A word more.
LEMMA CutMore ==
  ASSUME NEW c, NEW k \in Nat
  PROVE  Append(ReadWords(c, k), CutTo(c.words[k + 1], c.size)) = ReadWords(c, k + 1) /\ Len(ReadWords(c, k)) = k
<1> DEFINE F(j) == CutTo(c.words[j], c.size)
           u == [j \in 1..k |-> F(j)]
           T == {F(j) : j \in 1..k + 1}
<1>1. u \in Seq(T) /\ Len(u) = k /\ F(k + 1) \in T
  <2>1. \A j \in 1..k : F(j) \in T
    OBVIOUS
  <2>2. F(k + 1) \in T
    OBVIOUS
  <2> HIDE DEF F, T
  <2> QED
    BY <2>1, <2>2
<1> HIDE DEF F
<1>2. \A j \in 1..k : u[j] = F(j)
  OBVIOUS
<1> HIDE DEF u, T
<1> DEFINE v == Append(u, F(k + 1))
<1>3. v \in Seq(T) /\ Len(v) = k + 1 /\ (\A j \in 1..k : v[j] = u[j]) /\ v[k + 1] = F(k + 1)
  BY <1>1
<1> HIDE DEF v
<1>4. \A j \in 1..k + 1 : v[j] = F(j)
  <2> SUFFICES ASSUME NEW j \in 1..k + 1 PROVE v[j] = F(j)
    OBVIOUS
  <2>1. j \in 1..k \/ j = k + 1
    OBVIOUS
  <2> QED
    BY <1>2, <1>3, <2>1
<1>5. v = [j \in 1..k + 1 |-> F(j)]
  BY <1>3, <1>4
<1> QED
  BY <1>1, <1>5 DEF F, u, v, ReadWords

(***************************************************************************)
(* Where a call with words is: k of them are read.                         *)
(***************************************************************************)
AtWord(k) ==
  /\ doSave /\ saved = ReadWords(call, k)
  /\ \/ f = 1 /\ k = 0 /\ call.by \notin Spaces
     \/ f = call.at[k + 1] /\ (phase = "main" => delim = {call.by})
  /\ phase = "main" /\ k < Len(call.words) => s = From(call, k + 1)
  /\ phase = "defaults" => k = Len(call.words)

AmongWords == \E k \in 0..Len(call.words) : AtWord(k)

(* The call goes on among its words, or ends with all of them *)
WordsTurned ==
  \/ phase' \in {"main", "defaults"} /\ AmongWords'
  \/ phase' = "ended" /\ result' = "TRUE" /\ saved' = ReadWords(call, Len(call.words))

\* Which letter it is at.
LEMMA WordsLetter ==
  ASSUME HasWords(call), NEW k \in 0..Len(call.words), AtWord(k)
  PROVE  /\ Letter \in LettersUsed /\ Letter \notin Quieters /\ Letter \notin {"d", "I", "A", "E", ")"}
         /\ f = 1 /\ k = 0 /\ call.by \notin Spaces => Letter = "p"
         /\ k = Len(call.words) => Letter # "s"
         /\ f = call.at[k + 1] => Letter # "p"
         /\ More <=> k < Len(call.words)
<1>0. Len(call.words) \in Nat /\ call.params = Len(call.words) /\ k \in Nat
  BY WordsAre
<1>1. Letter = Ch(call.format, f)
  BY Zenon DEF Letter, format
<1>2. ASSUME f = 1, k = 0, call.by \notin Spaces PROVE Letter = "p"
  BY <1>1, <1>2, WordsBegin, Zenon
<1>3. ASSUME f = call.at[k + 1], k < Len(call.words) PROVE Letter = "s"
  <2> DEFINE i == k + 1
  <2>1. i \in 1..Len(call.words) /\ i \in 1..Len(call.words) + 1
    BY <1>0, <1>3
  <2>2. f = call.at[i]
    BY <1>3
  <2> HIDE DEF i
  <2>3. call.at[i] \in Nat \ {0}
    BY <2>1, WordsSpecified
  <2>4. Ch(call.format, call.at[i]) = "s"
    BY <2>1, <2>3, WordFormat
  <2> QED
    BY <1>1, <2>2, <2>4
<1>4. ASSUME f = call.at[k + 1], k = Len(call.words) PROVE Letter = NUL
  BY <1>1, <1>4, WordsBegin, Zenon
<1>5. f = call.at[k + 1] \/ (f = 1 /\ k = 0 /\ call.by \notin Spaces)
  BY DEF AtWord
<1>6. k < Len(call.words) \/ k = Len(call.words)
  BY <1>0
<1>7. Letter \in {"p", "s", NUL}
  BY <1>2, <1>3, <1>4, <1>5, <1>6
<1>8. Letter \in LettersUsed /\ Letter \notin Quieters /\ Letter \notin {"d", "I", "A", "E", ")"}
  BY <1>7, Zenon DEF LettersUsed, Quieters, NUL
<1>9. k = Len(call.words) => Letter # "s"
  <2>1. "p" # "s" /\ NUL # "s"
    BY DEF NUL
  <2> QED
    BY <1>2, <1>4, <1>5, <2>1
<1>10. f = call.at[k + 1] => Letter # "p"
  <2>1. "s" # "p" /\ NUL # "p"
    BY DEF NUL
  <2> QED
    BY <1>3, <1>4, <1>6, <2>1
<1>11. More <=> k < Len(call.words)
  <2>1. Len(saved) = k /\ doSave
    BY <1>0, CutMore DEF AtWord
  <2> QED
    BY <1>0, <2>1 DEF More
<1> QED
  BY <1>2, <1>8, <1>9, <1>10, <1>11

\* The input of the call is its text.
LEMMA WordsInput ==
  ASSUME HasWords(call)
  PROVE  string = call.text
BY WordsAre, Zenon DEF string

\* The input does not end in front of a word, and with the last of them the
\* call has all that it asked for.
LEMMA WordsInputEnds ==
  ASSUME HasWords(call), call' = call, NEW k \in 0..Len(call.words), AtWord(k), InputEnds
  PROVE  WordsTurned
<1>1. phase = "main" /\ phase' = "defaults" /\ f' = f /\ saved' = saved /\ doSave' = doSave
      /\ (Ch(string, s) = NUL \/ ~More)
  BY Zenon DEF InputEnds
<1>2. Len(call.words) \in Nat
  BY WordsAre
<1>3. k = Len(call.words)
  <2> SUFFICES ASSUME k # Len(call.words) PROVE FALSE
    OBVIOUS
  <2>1. k < Len(call.words) /\ k + 1 \in 1..Len(call.words)
    BY <1>2
  <2>2. More
    BY <2>1, WordsLetter
  <2>3. s = From(call, k + 1)
    BY <1>1, <2>1 DEF AtWord
  <2>4. Ch(call.text, From(call, k + 1)) # NUL
    BY <2>1, FirstOfWord DEF From
  <2> QED
    BY <1>1, <2>2, <2>3, <2>4, WordsInput
<1>4. AtWord(k)'
  <2>1. phase' # "main"
    BY <1>1
  <2>2. /\ doSave /\ saved = ReadWords(call, k)
        /\ (f = 1 /\ k = 0 /\ call.by \notin Spaces) \/ f = call.at[k + 1]
    BY DEF AtWord
  <2> QED
    BY <1>1, <1>3, <2>1, <2>2, Zenon DEF AtWord
<1>5. k \in 0..Len(call'.words)
  OBVIOUS
<1> QED
  BY <1>1, <1>4, <1>5, Zenon DEF WordsTurned, AmongWords

\* The delimiter, and then the first word.
LEMMA AtDelimiter ==
  ASSUME HasWords(call), call' = call, NEW k \in 0..Len(call.words), AtWord(k), Delimiter, Letter = "p"
  PROVE  WordsTurned
<1>1. f = 1 /\ k = 0 /\ call.by \notin Spaces
  <2>1. f # call.at[k + 1]
    BY WordsLetter, Zenon
  <2> QED
    BY <2>1, Zenon DEF AtWord
<1>2. phase = "main" /\ \E t \in {GetSingleType(format, f + 1)} :
         delim' = {t.v} /\ f' = t.p /\ UNCHANGED <<phase, s, doSave, saved, result, gOptions>>
  BY Zenon DEF Delimiter, Reading
<1>3. GetSingleType(format, f + 1).v = call.by /\ GetSingleType(format, f + 1).p = 5
  <2>1. Ch(format, 2) = "<" /\ Ch(format, 3) = call.by /\ Ch(format, 4) = ">"
    BY <1>1, WordsBegin, Zenon DEF format
  <2>2. call.by # NUL
    BY WordsAre
  <2>3. format[3] = call.by
    <3>1. Ch(format, 3) # NUL
      BY <2>1, <2>2
    <3>2. Ch(format, 3) = format[3]
      BY <3>1, Inside, Zenon
    <3> QED
      BY <2>1, <3>2
  <2>4. 2 \in Nat /\ 2 + 1 = 3 /\ 2 + 2 = 4 /\ 2 + 3 = 5 /\ 1 + 1 = 2
    OBVIOUS
  <2>5. Ch(format, 2) = "<" /\ Ch(format, 2 + 1) # NUL /\ Ch(format, 2 + 2) = ">"
    BY <2>1, <2>2, <2>4, Zenon
  <2>6. GetSingleType(format, 2).v = format[2 + 1] /\ GetSingleType(format, 2).p = 2 + 3
    BY <2>4, <2>5, SingleType, Zenon
  <2> QED
    BY <1>1, <2>3, <2>4, <2>6, Zenon
<1> DEFINE r == GetSingleType(format, f + 1)
<1>4. delim' = {r.v} /\ f' = r.p /\ UNCHANGED <<phase, s, doSave, saved>>
  BY <1>2, Zenon
<1>5. delim' = {call.by} /\ f' = call.at[0 + 1]
  <2>1. call.at[1] = 5 /\ 0 + 1 = 1
    BY <1>1, WordsBegin
  <2> QED
    BY <1>3, <1>4, <2>1, Zenon
<1>6. AtWord(k)'
  <2>1. /\ doSave /\ saved = ReadWords(call, k)
        /\ phase = "main" /\ k < Len(call.words) => s = From(call, k + 1)
        /\ phase = "defaults" => k = Len(call.words)
    BY DEF AtWord
  <2> QED
    BY <1>1, <1>4, <1>5, <2>1, Zenon DEF AtWord
<1>7. phase' \in {"main", "defaults"}
  BY <1>2, <1>4
<1> QED
  BY <1>6, <1>7, Zenon DEF WordsTurned, AmongWords

\* A word is read, and the next is in front.
LEMMA AtString ==
  ASSUME HasWords(call), call' = call, NEW k \in 0..Len(call.words), AtWord(k), phase = "main", String, Letter = "s"
  PROVE  WordsTurned
<1> DEFINE m == Len(call.words)
           i == k + 1
           size == call.size
           length == GetLength(format, f + 1, FALSE)
           last == \/ Ch(format, length.p) = NUL
                   \/ ~doSave /\ Ch(format, length.p) = "}" /\ Ch(format, length.p + 1) = NUL
           r == DoS(delim, string, s, length.v, last)
<1>0. m \in Nat /\ k \in Nat
  BY WordsAre
<1>1. k # m /\ f = call.at[i] /\ delim = {call.by} /\ doSave /\ saved = ReadWords(call, k)
  <2>1. Letter # "p"
    BY Zenon
  <2>2. k # m /\ ~(f = 1 /\ k = 0 /\ call.by \notin Spaces)
    BY <2>1, WordsLetter, Zenon
  <2> QED
    BY <2>2, Zenon DEF AtWord
<1>2. k < m /\ i \in 1..m /\ i \in 1..m + 1 /\ i \in Nat /\ i \in 0..m
  BY <1>0, <1>1
<1>3. s = From(call, i)
  BY <1>2 DEF AtWord
<1>4. Read(CutTo(r.v, length.v), length.p, r.p)
  <2> DEFINE long == GetLength(format, IF Letter = "s" THEN f + 1 ELSE SkipDefaultEx(format, f + 1), FALSE)
  <2>1. \E l \in {long} :
          LET ends == \/ Ch(format, l.p) = NUL
                      \/ ~doSave /\ Ch(format, l.p) = "}" /\ Ch(format, l.p + 1) = NUL
          IN  \E x \in {DoS(delim, string, s, l.v, ends)} : Read(CutTo(x.v, l.v), l.p, x.p)
    BY Zenon DEF String
  <2>2. long = length
    OBVIOUS
  <2> HIDE DEF long, length
  <2>3. \E x \in {r} : Read(CutTo(x.v, length.v), length.p, x.p)
    BY <2>1, <2>2, Zenon
  <2> HIDE DEF r
  <2> QED
    BY <2>3, Zenon
<1>5. length.v = size /\ length.p = call.at[i + 1]
  <2>1. call.at[i] \in Nat \ {0}
    BY <1>2, WordsSpecified
  <2>2. /\ GetLength(call.format, call.at[i] + 1, FALSE).v = size
        /\ GetLength(call.format, call.at[i] + 1, FALSE).p = call.at[i + 1]
    BY <1>2, <2>1, WordFormat
  <2> QED
    BY <1>1, <2>2 DEF format
<1>6. last = (i = m)
  <2>1. i = m => Ch(format, length.p) = NUL
    <3>1. Ch(call.format, call.at[m + 1]) = NUL
      BY WordsBegin, Zenon
    <3> QED
      BY <1>5, <3>1, Zenon DEF format
  <2>2. i # m => Ch(format, length.p) # NUL
    <3> SUFFICES ASSUME i # m PROVE Ch(format, length.p) # NUL
      OBVIOUS
    <3> DEFINE l == i + 1
    <3>1. l \in 1..m /\ l \in 1..m + 1
      BY <1>0, <1>2
    <3> HIDE DEF l
    <3>2. call.at[l] \in Nat \ {0}
      BY <3>1, WordsSpecified
    <3>3. Ch(call.format, call.at[l]) = "s"
      BY <3>1, <3>2, WordFormat
    <3>4. "s" # NUL
      BY DEF NUL
    <3> QED
      BY <1>5, <3>3, <3>4 DEF l, format
  <2>3. last <=> Ch(format, length.p) = NUL
    BY <1>1, Zenon
  <2>4. last \in BOOLEAN /\ (i = m) \in BOOLEAN
    OBVIOUS
  <2> HIDE DEF last
  <2> QED
    BY <2>1, <2>2, <2>3, <2>4
<1>7. r = DoS({call.by}, call.text, From(call, i), size, i = m)
  <2> HIDE DEF last, length
  <2> QED
    BY <1>1, <1>3, <1>5, <1>6, WordsInput, Zenon
<1>8. /\ CutTo(r.v, size) = CutTo(call.words[i], size)
      /\ i = m => r.p = Len(call.text) + 1
      /\ i # m => r.p = To(call, i) + 1
  <2> HIDE DEF r
  <2> QED
    BY <1>2, <1>7, WordRead DEF Word
<1> HIDE DEF r, length, last
<1>9. /\ UNCHANGED <<phase, doSave, delim>> /\ saved' = Append(saved, CutTo(r.v, size))
      /\ f' = call.at[i + 1] /\ s' = SkipOneSpacer(delim', string, r.p)
  BY <1>1, <1>4, <1>5, Zenon DEF Read, Save, Move
<1>10. saved' = ReadWords(call, i)
  BY <1>0, <1>1, <1>8, <1>9, CutMore
<1>11. ASSUME i < m PROVE s' = From(call, i + 1)
  <2> DEFINE l == i + 1
  <2>1. i # m /\ l \in 1..m /\ l > 1 /\ l - 1 = i
    BY <1>0, <1>2, <1>11
  <2> HIDE DEF l
  <2>2. r.p = To(call, i) + 1
    BY <1>8, <2>1
  <2>3. From(call, l) = To(call, i) + 1
    <3>1. call.letters[l][1] = call.letters[l - 1][Len(call.words[l - 1]) + 1] + 1
      BY <2>1, WordIs, Zenon
    <3> QED
      BY <2>1, <3>1, Zenon DEF From, To
  <2>4. SkipOneSpacer({call.by}, call.text, From(call, l)) = From(call, l)
    BY <2>1, BehindWord, Zenon
  <2> QED
    BY <1>1, <1>9, <2>2, <2>3, <2>4, WordsInput, Zenon DEF l
<1>12. AtWord(i)'
  <2>1. phase' = "main" /\ doSave' /\ delim' = {call.by} /\ phase' # "defaults"
    BY <1>1, <1>9
  <2> QED
    BY <1>9, <1>10, <1>11, <2>1, Zenon DEF AtWord
<1>13. phase' \in {"main", "defaults"}
  BY <1>9
<1>14. i \in 0..Len(call'.words)
  BY <1>2
<1> QED
  BY <1>12, <1>13, <1>14, Zenon DEF WordsTurned, AmongWords

\* A turn at any place among the words.
LEMMA WorkTurnsWords ==
  ASSUME HasWords(call), call' = call, phase \in {"main", "defaults"}, AmongWords, Work
  PROVE  WordsTurned
<1>1. PICK k \in 0..Len(call.words) : AtWord(k)
  BY Zenon DEF AmongWords
<1>2. Letter \in LettersUsed /\ Letter \notin Quieters /\ Letter \notin {"d", "I", "A", "E", ")"}
  BY <1>1, WordsLetter, Zenon
<1>3. CASE phase = "main"
  <2>1. InputEnds \/ (More /\ FormatEnds /\ Letter = NUL) \/ (Delimiter /\ Letter = "p") \/ (String /\ Letter = "s")
    BY <1>2, <1>3, MainTurn, Zenon
  <2>2. ~(More /\ Letter = NUL)
    <3> SUFFICES ASSUME More, Letter = NUL PROVE FALSE
      OBVIOUS
    <3>1. k < Len(call.words)
      BY <1>1, WordsLetter, Zenon
    <3>2. Letter # "p" /\ Letter # "s"
      BY DEF NUL
    <3>3. ~(f = 1 /\ k = 0 /\ call.by \notin Spaces)
      BY <1>1, <3>2, WordsLetter, Zenon
    <3>4. f = call.at[k + 1]
      BY <1>1, <3>3, Zenon DEF AtWord
    <3> DEFINE i == k + 1
    <3>5. i \in 1..Len(call.words) /\ i \in 1..Len(call.words) + 1 /\ f = call.at[i]
      <4>1. Len(call.words) \in Nat
        BY WordsAre
      <4> QED
        BY <3>1, <3>4, <4>1
    <3> HIDE DEF i
    <3>6. call.at[i] \in Nat \ {0}
      BY <3>5, WordsSpecified
    <3>7. Ch(call.format, call.at[i]) = "s"
      BY <3>5, <3>6, WordFormat
    <3> QED
      BY <3>2, <3>5, <3>7, Zenon DEF Letter, format
  <2> QED
    BY <1>1, <1>3, <2>1, <2>2, WordsInputEnds, AtDelimiter, AtString, Zenon
<1>4. CASE phase = "defaults"
  <2>1. k = Len(call.words) /\ saved = ReadWords(call, k)
    BY <1>1, <1>4, Zenon DEF AtWord
  <2>2. ~More
    <3>1. Len(call.words) \in Nat
      BY WordsAre
    <3> QED
      BY <1>1, <2>1, <3>1, WordsLetter
  <2>3. Finished
    BY <1>2, <1>4, <2>2, DefaultTurn, Zenon
  <2>4. phase' = "ended" /\ result' = "TRUE" /\ saved' = saved
    BY <2>3, Zenon DEF Finished, Return
  <2> QED
    BY <2>1, <2>4, Zenon DEF WordsTurned
<1> QED
  BY <1>3, <1>4

\* Where a call with words begins.
LEMMA WordsAtCall ==
  ASSUME NEW c \in Calls, Call(c), OfWords(c)
  PROVE  AmongWords'
<1>1. HasWords(c)
  BY DEF HasWords
<1>2. call' = c /\ phase' = "main" /\ saved' = <<>> /\ s' = SkipWhitespace(Corrected(c.text), 1) /\ delim' = {" "}
  BY Zenon DEF Call
<1>3. Len(c.words) \in Nat /\ Corrected(c.text) = c.text
  BY <1>1, WordsAre
<1>4. Ch(c.format, 1) \in {"p", "s", NUL}
  <2>1. CASE c.by \notin Spaces
    BY <1>1, <2>1, WordsBegin
  <2>2. CASE c.by \in Spaces
    <3>1. c.at[1] = 1
      BY <1>1, <2>2, WordsBegin
    <3>2. CASE Len(c.words) = 0
      <4>1. c.at[Len(c.words) + 1] = c.at[1]
        BY <3>2
      <4>2. Ch(c.format, c.at[Len(c.words) + 1]) = NUL
        BY <1>1, WordsBegin, Zenon
      <4> QED
        BY <3>1, <4>1, <4>2
    <3>3. CASE Len(c.words) # 0
      <4>1. 1 \in 1..Len(c.words) /\ c.at[1] \in Nat \ {0}
        BY <1>3, <3>1, <3>3
      <4>2. Ch(c.format, c.at[1]) = "s"
        BY <1>1, <4>1, WordFormat
      <4> QED
        BY <3>1, <4>2
    <3> QED
      BY <3>2, <3>3
  <2> QED
    BY <2>1, <2>2
<1>5. f' = 1 /\ doSave'
  <2>1. Ch(c.format, 1) # "{"
    BY <1>4, Zenon DEF NUL
  <2> QED
    BY <2>1, Zenon DEF Call
<1>6. saved' = ReadWords(c, 0)
  <2>1. ReadWords(c, 0) = <<>>
    BY DEF ReadWords
  <2> QED
    BY <1>2, <2>1
<1>7. ASSUME 0 < Len(c.words) PROVE s' = From(c, 0 + 1)
  <2>1. 1 \in 1..Len(c.words) /\ 0 + 1 = 1
    BY <1>3, <1>7
  <2>2. From(c, 1) = 1
    BY <1>1, <2>1, WordIs DEF From
  <2>3. SkipWhitespace(c.text, From(c, 1)) = From(c, 1)
    BY <1>1, <2>1, BehindWord, Zenon
  <2> QED
    BY <1>2, <1>3, <2>1, <2>2, <2>3, Zenon
<1>8. (f' = 1 /\ 0 = 0 /\ c.by \notin Spaces) \/ (f' = c.at[0 + 1] /\ delim' = {c.by})
  <2>1. CASE c.by \notin Spaces
    BY <1>5, <2>1, Zenon
  <2>2. CASE c.by \in Spaces
    <3>1. c.at[1] = 1 /\ {c.by} = Spaces /\ 0 + 1 = 1
      BY <1>1, <2>2, WordsBegin
    <3> QED
      BY <1>2, <1>5, <3>1, Zenon DEF Spaces
  <2> QED
    BY <2>1, <2>2
<1>9. AtWord(0)'
  <2>1. phase' # "defaults"
    BY <1>2
  <2> QED
    BY <1>2, <1>5, <1>6, <1>7, <1>8, <2>1, Zenon DEF AtWord
<1>10. 0 \in 0..Len(call'.words)
  <2>1. 0 \in 0..Len(c.words)
    BY <1>3
  <2> QED
    BY <1>2, <2>1, Zenon
<1> QED
  BY <1>9, <1>10, Zenon DEF AmongWords

(***************************************************************************)
(* Among its words while it works, and with all of them once it has ended. *)
(***************************************************************************)
WordsRead ==
  /\ phase \in {"main", "defaults"} => (OfWords(call) => AmongWords)
  /\ phase = "ended" => (OfWords(call) => result = "TRUE" /\ saved = ReadWords(call, Len(call.words)))

\* A step of the plugin keeps it so.
LEMMA NextKeepsWords == Bounded /\ WordsRead /\ [Next]_vars => WordsRead'
<1> SUFFICES ASSUME Bounded, WordsRead, [Next]_vars PROVE WordsRead'
  OBVIOUS
<1>1. ASSUME NEW c \in Calls, Call(c) PROVE WordsRead'
  <2>1. phase' = "main" /\ call' = c
    BY <1>1 DEF Call
  <2>2. OfWords(c) => AmongWords'
    BY <1>1, WordsAtCall
  <2> QED
    BY <2>1, <2>2, Zenon DEF WordsRead
<1>2. CASE WorkStep
  <2>1. Work /\ call' = call
    BY <1>2, Zenon DEF WorkStep
  <2>2. phase \in {"main", "defaults"} /\ phase' \in {"main", "defaults", "ended"}
    <3>1. Saves \/ Ends
      BY <2>1, WorkSavesOrEnds
    <3> QED
      BY <3>1 DEF Saves, Ends
  <2>3. CASE ~OfWords(call)
    BY <2>1, <2>3, Zenon DEF WordsRead
  <2>4. CASE OfWords(call)
    <3>1. HasWords(call)
      BY <2>2, <2>4 DEF HasWords, Bounded
    <3>2. AmongWords
      BY <2>2, <2>4, Zenon DEF WordsRead
    <3>3. WordsTurned
      BY <2>1, <2>2, <3>1, <3>2, WorkTurnsWords
    <3> QED
      BY <2>1, <3>3 DEF WordsTurned, WordsRead
  <2> QED
    BY <2>3, <2>4
<1>3. CASE Returned
  BY <1>3 DEF Returned, WordsRead
<1>4. CASE UNCHANGED callVars
  <2>1. /\ phase' = phase /\ call' = call /\ f' = f /\ s' = s /\ doSave' = doSave
        /\ saved' = saved /\ delim' = delim /\ result' = result
    BY <1>4 DEF callVars
  <2>2. AmongWords' <=> AmongWords
    BY <2>1 DEF AmongWords, AtWord
  <2> QED
    BY <2>1, <2>2, Zenon DEF WordsRead
<1>5. CASE UNCHANGED vars
  BY <1>4, <1>5 DEF vars, callVars
<1> QED
  BY <1>1, <1>2, <1>3, <1>4, <1>5, Zenon DEF Next

(***************************************************************************)
(* However many words, of whatever letters and of whatever length, with    *)
(* their spaces, delimiters and backslashes escaped: each destination gets *)
(* its own word, as it was, up to its size, if the destinations hold what  *)
(* is escaped (without that it is not so: see WordsSurvive).               *)
(***************************************************************************)
THEOREM WordsAreReadBack == Spec => []WordsSurvive
<1>1. Init => Bounded /\ WordsRead
  BY EmptyIsASeq DEF Init, Bounded, NeverPastTheDestinations, WordsRead
<1>2. Bounded /\ [Next]_vars => Bounded'
  BY NextKeepsBounded
<1>3. Bounded /\ WordsRead /\ [Next]_vars => WordsRead'
  BY NextKeepsWords
<1>4. WordsRead => WordsSurvive
  BY Zenon DEF WordsRead, WordsSurvive, AreReadBack, OfWords, ReadWords
<1> QED
  BY <1>1, <1>2, <1>3, <1>4, PTL DEF Spec

(***************************************************************************)
(* The pieces of a format of a group.                                      *)
(***************************************************************************)
(* GetMultiType, once the loop is at e *)
TypeTo(t, p, e) == IF Ch(t, e) = NUL THEN [ok |-> FALSE, v |-> <<>>, p |-> e]
                   ELSE [ok |-> TRUE, v |-> SubSeq(t, p + 1, e - 1), p |-> e + 1]

Scanned(p, done) == [p |-> p, escape |-> FALSE, nested |-> FALSE, done |-> done]

(* The loop of GetMultiType, turn by turn *)
TypeRun(t, p, h) ==
  /\ h[0] = Scanned(p, FALSE)
  /\ \A k \in 1..Len(t) : h[k] = TypeStep(t, h[k - 1])
  /\ GetMultiType(t, p) = TypeTo(t, p, h[Len(t)].p)

\* There is one.
LEMMA TypeRuns ==
  ASSUME NEW t, Len(t) \in Nat, NEW p \in Nat, Ch(t, p) = "<"
  PROVE  \E h : TypeRun(t, p, h)
<1> DEFINE n == Len(t)
           none == [p |-> p, escape |-> FALSE, nested |-> FALSE, done |-> FALSE]
           seq == [k \in 1..Len(t) |-> k]
           op == [x \in Scan(p) \X (1..n) |-> TypeStep(t, x[1])]
           indices == DOMAIN seq
           Solves(iter) ==
             iter = [u \in SUBSET indices |-> IF u = {} THEN none ELSE TypeStep(t, iter[u \ {Max(u)}])]
           fold == CHOOSE iter : Solves(iter)
           q == fold[indices].p
<1>0. n \in Nat
  OBVIOUS
<1>1. GetMultiType(t, p) = TypeTo(t, p, q)
  <2>1. GetMultiType(t, p) = IF Ch(t, p) # "<" THEN [ok |-> FALSE, v |-> <<>>, p |-> p] ELSE TypeTo(t, p, q)
    BY Zenon DEF GetMultiType, FoldLeft, MapThenFoldSet, TypeStep, TypeTo
  <2> QED
    BY <2>1
<1>12. indices = 1..n
  OBVIOUS
<1> HIDE DEF indices
<1>2. none \in Scan(p) /\ \A k \in 1..n : seq[k] \in 1..n
  BY DEF Scan
<1>11. none = Scanned(p, FALSE)
  BY DEF Scanned
<1> HIDE DEF none
<1>3. \A a \in Scan(p), i \in 1..n : op[<<a, i>>] = TypeStep(t, a)
  OBVIOUS
<1>4. \A a \in Scan(p), i \in 1..n : op[<<a, i>>] \in Scan(p)
  BY <1>3, TypeStepTyped
<1> HIDE DEF n, seq, op
<1>5. PICK g \in [SUBSET (1..n) -> Scan(p)] : Folds(g, none, op, seq, n)
  BY <1>0, <1>2, <1>4, FoldExists
<1>6. Solves(g)
  <2>1. ASSUME NEW u \in SUBSET (1..n), u # {}
        PROVE  op[<<g[u \ {Max(u)}], seq[Max(u)]>>] = TypeStep(t, g[u \ {Max(u)}])
    <3>1. Max(u) \in 1..n
      BY <1>0, <2>1, Largest
    <3>2. seq[Max(u)] \in 1..n /\ g[u \ {Max(u)}] \in Scan(p)
      BY <1>2, <1>5, <3>1
    <3> QED
      BY <1>3, <3>2
  <2>2. \A u \in SUBSET (1..n) : g[u] = IF u = {} THEN none ELSE TypeStep(t, g[u \ {Max(u)}])
    BY <1>5, <2>1 DEF Folds
  <2> QED
    BY <1>12, <2>2
<1>7. Solves(fold)
  <2> HIDE DEF Solves
  <2> QED
    BY <1>6
<1> HIDE DEF fold
<1>8. fold[{}] = none
  BY <1>7, <1>12
<1>9. ASSUME NEW k \in 1..n PROVE fold[1..k] = TypeStep(t, fold[1..(k - 1)])
  <2>1. 1..k \in SUBSET (1..n) /\ 1..k # {} /\ Max(1..k) = k /\ (1..k) \ {k} = 1..(k - 1)
    BY <1>0, UpTo
  <2> QED
    BY <1>7, <1>12, <2>1
<1> HIDE DEF Solves
<1> DEFINE h == [k \in 0..n |-> fold[1..k]]
<1>10. h[0] = none /\ h[n] = fold[indices]
  <2>1. 1..0 = {} /\ 0 \in 0..n /\ n \in 0..n
    BY <1>0
  <2> QED
    BY <1>8, <1>12, <2>1
<1>13. ASSUME NEW k \in 1..n PROVE h[k] = TypeStep(t, h[k - 1])
  BY <1>0, <1>9
<1> HIDE DEF h
<1>14. GetMultiType(t, p) = TypeTo(t, p, h[n].p)
  BY <1>1, <1>10
<1>15. TypeRun(t, p, h)
  BY <1>10, <1>11, <1>13, <1>14, Zenon DEF TypeRun, n
<1> QED
  BY <1>15

\* A turn inside of the brackets.
LEMMA TypeTurn ==
  ASSUME NEW t, NEW p \in Nat, Ch(t, p) # "\\", Ch(t, p + 1) # "<", Ch(t, p + 1) # NUL
  PROVE  TypeStep(t, Scanned(p, FALSE)) = Scanned(p + 1, Ch(t, p + 1) = ">")
<1> DEFINE a == Scanned(p, FALSE)
           escape == Ch(t, a.p) = "\\" /\ ~a.escape
           next == IF escape THEN [a EXCEPT !.p = a.p + 1]
                   ELSE IF a.nested /\ Ch(t, a.p + 1) = ">" THEN [a EXCEPT !.p = a.p + 1 + 1, !.nested = FALSE]
                   ELSE IF ~a.nested /\ Ch(t, a.p + 1) = "<" THEN [a EXCEPT !.p = a.p + 1 + 1, !.nested = TRUE]
                   ELSE [a EXCEPT !.p = a.p + 1]
           done == \/ Ch(t, next.p) = NUL
                   \/ ~next.nested /\ ~escape /\ Ch(t, next.p) = ">"
<1>1. TypeStep(t, a) = IF a.done THEN a ELSE [next EXCEPT !.escape = escape, !.done = done]
  BY DEF TypeStep
<1>2. a.p = p /\ a.escape = FALSE /\ a.nested = FALSE /\ a.done = FALSE
  BY DEF Scanned
<1>3. escape = FALSE
  BY <1>2
<1> HIDE DEF escape
<1>4. next = [a EXCEPT !.p = p + 1]
  BY <1>2, <1>3
<1> HIDE DEF next
<1>5. next = Scanned(p + 1, FALSE)
  BY <1>4 DEF Scanned
<1>6. done = (Ch(t, p + 1) = ">")
  <2>1. next.p = p + 1 /\ next.nested = FALSE
    BY <1>5 DEF Scanned
  <2> QED
    BY <1>3, <2>1
<1> HIDE DEF done
<1>7. TypeStep(t, a) = [Scanned(p + 1, FALSE) EXCEPT !.escape = FALSE, !.done = (Ch(t, p + 1) = ">")]
  BY <1>1, <1>2, <1>3, <1>5, <1>6
<1> QED
  BY <1>7 DEF Scanned

\* A type is what stands between its brackets.
LEMMA TypeRead ==
  ASSUME NEW t, Len(t) \in Nat, NEW p \in 1..Len(t), NEW e \in (p + 1)..Len(t),
         Ch(t, p) = "<", Ch(t, e) = ">", \A q \in (p + 1)..(e - 1) : Ch(t, q) \notin {"<", ">", "\\", NUL}
  PROVE  GetMultiType(t, p) = [ok |-> TRUE, v |-> SubSeq(t, p + 1, e - 1), p |-> e + 1]
<1> DEFINE n == Len(t)
<1>1. PICK h : TypeRun(t, p, h)
  BY TypeRuns
<1>2. /\ h[0] = Scanned(p, FALSE)
      /\ \A k \in 1..n : h[k] = TypeStep(t, h[k - 1])
      /\ GetMultiType(t, p) = TypeTo(t, p, h[n].p)
  BY <1>1 DEF TypeRun
<1> DEFINE Right(k) == h[k] = Scanned(IF k < e - p THEN p + k ELSE e, ~(k < e - p))
           Good == {k \in Nat : k <= n => Right(k)}
<1>3. 0 \in Good
  <2>1. 0 < e - p /\ p + 0 = p /\ (~(0 < e - p)) = FALSE
    OBVIOUS
  <2>2. Right(0)
    BY <1>2, <2>1
  <2> HIDE DEF Right
  <2> QED
    BY <2>2
<1>4. ASSUME NEW k \in Good PROVE k + 1 \in Good
  <2>1. k \in Nat /\ k + 1 \in Nat
    OBVIOUS
  <2> SUFFICES ASSUME k + 1 <= n PROVE Right(k + 1)
    BY <2>1
  <2>2. k + 1 \in 1..n /\ (k + 1) - 1 = k
    BY <2>1
  <2>3. h[k + 1] = TypeStep(t, h[k])
    BY <1>2, <2>2
  <2>4. Right(k)
    <3> HIDE DEF Right
    <3> QED
      BY <2>1
  <2>5. CASE k < e - p
    <3> DEFINE q == p + k
    <3>1. q \in Nat /\ q \in p..(e - 1) /\ q + 1 \in (p + 1)..e /\ q + 1 = p + (k + 1)
      BY <2>1, <2>5
    <3>2. h[k] = Scanned(q, FALSE)
      BY <2>4, <2>5
    <3> HIDE DEF q
    <3>3. Ch(t, q) # "\\" /\ Ch(t, q + 1) # "<" /\ Ch(t, q + 1) # NUL
      <4>1. q = p \/ q \in (p + 1)..(e - 1)
        BY <3>1
      <4>2. q + 1 = e \/ q + 1 \in (p + 1)..(e - 1)
        BY <3>1
      <4> QED
        BY <4>1, <4>2 DEF NUL
    <3>4. h[k + 1] = Scanned(q + 1, Ch(t, q + 1) = ">")
      <4>1. q \in Nat
        BY <3>1
      <4>2. TypeStep(t, Scanned(q, FALSE)) = Scanned(q + 1, Ch(t, q + 1) = ">")
        BY <3>3, <4>1, TypeTurn, Zenon
      <4> HIDE DEF Good, Right
      <4> QED
        BY <2>3, <3>2, <4>2, Zenon
    <3>5. CASE q + 1 = e
      <4>1. ~(k + 1 < e - p) /\ (~(k + 1 < e - p)) = TRUE
        BY <2>1, <3>1, <3>5
      <4> QED
        BY <3>4, <3>5, <4>1
    <3>6. CASE q + 1 # e
      <4>1. k + 1 < e - p /\ (~(k + 1 < e - p)) = FALSE /\ q + 1 \in (p + 1)..(e - 1)
        BY <2>1, <3>1, <3>6
      <4>2. (Ch(t, q + 1) = ">") = FALSE
        BY <4>1
      <4> QED
        BY <3>1, <3>4, <4>1, <4>2
    <3> QED
      BY <3>5, <3>6
  <2>6. CASE ~(k < e - p)
    <3>1. ~(k + 1 < e - p) /\ (~(k + 1 < e - p)) = TRUE /\ (~(k < e - p)) = TRUE
      BY <2>1, <2>6
    <3>2. h[k] = Scanned(e, TRUE)
      BY <2>4, <2>6, <3>1
    <3>3. TypeStep(t, Scanned(e, TRUE)) = Scanned(e, TRUE)
      BY DEF TypeStep, Scanned
    <3> QED
      BY <2>3, <3>1, <3>2, <3>3
  <2> QED
    BY <2>5, <2>6
<1> HIDE DEF Good
<1>5. n \in Good
  <2>1. Good \in SUBSET Nat
    BY DEF Good
  <2>2. Good = Nat
    BY <1>3, <1>4, <2>1, Induct
  <2> QED
    BY <2>2
<1>6. h[n].p = e
  <2>1. ~(n < e - p) /\ n <= n
    OBVIOUS
  <2>2. Right(n)
    <3> HIDE DEF Right
    <3> QED
      BY <1>5, <2>1 DEF Good
  <2>3. h[n] = Scanned(e, ~(n < e - p))
    BY <2>1, <2>2
  <2> QED
    BY <2>3 DEF Scanned
<1>7. Ch(t, e) # NUL
  BY DEF NUL
<1> QED
  BY <1>2, <1>6, <1>7 DEF TypeTo

(***************************************************************************)
(* Numerals in a text, with x between them.                                *)
(***************************************************************************)
(* The k-th of them stands at at[k], the next one behind it *)
NumeralAt(t, at, nums, x, k) ==
  /\ Numeral(nums[k]) /\ Len(nums[k]) \in Nat \ {0}
  /\ at[k] \in Nat \ {0} /\ at[k + 1] \in Nat \ {0}
  /\ Within(t, at[k], nums[k])
  /\ k < Len(nums) => Ch(t, at[k] + Len(nums[k])) = x /\ at[k + 1] = at[k] + Len(nums[k]) + 1
  /\ k = Len(nums) => at[k + 1] = at[k] + Len(nums[k])

Stands(t, at, nums, x) ==
  /\ Len(nums) \in Nat /\ at[1] \in Nat \ {0}
  /\ \A k \in 1..Len(nums) : NumeralAt(t, at, nums, x, k)

\* A numeral has digits.
LEMMA NumeralHas ==
  ASSUME NEW digits, Numeral(digits)
  PROVE  /\ digits \in Seq(Dec) /\ Len(digits) \in Nat \ {0}
         /\ \A j \in 1..Len(digits) : digits[j] \in Dec
<1>1. digits \in Seq(Dec) /\ digits # <<>>
  BY Zenon DEF Numeral
<1> QED
  BY <1>1

\* What is behind a numeral.
LEMMA AppendedIs ==
  ASSUME NEW S, NEW u \in Seq(S), NEW x
  PROVE  /\ Len(u \o <<x>>) = Len(u) + 1 /\ (u \o <<x>>)[Len(u) + 1] = x
         /\ \A j \in 1..Len(u) : (u \o <<x>>)[j] = u[j]
<1> DEFINE R == S \cup {x}
           v == <<x>>
<1>1. u \in Seq(R) /\ v \in Seq(R) /\ Len(v) = 1 /\ v[1] = x
  OBVIOUS
<1> HIDE DEF v, R
<1>2. Len(u) \in Nat
  OBVIOUS
<1>3. Len(u \o v) = Len(u) + 1 /\ (u \o v)[Len(u) + 1] = v[1] /\ \A j \in 1..Len(u) : (u \o v)[j] = u[j]
  <2>1. Joined(u \o v, u, v)
    BY <1>1, Joining, Zenon
  <2>2. 1 \in 1..Len(v)
    BY <1>1
  <2>3. /\ Len(u \o v) = Len(u) + Len(v)
        /\ \A i \in 1..Len(u) : (u \o v)[i] = u[i]
        /\ \A i \in 1..Len(v) : (u \o v)[Len(u) + i] = v[i]
    BY <2>1, Zenon DEF Joined
  <2> QED
    BY <1>1, <2>2, <2>3, Zenon
<1> QED
  BY <1>1, <1>2, <1>3 DEF v

\* Listed numerals stand in their text.
LEMMA NumeralsStand ==
  ASSUME NEW t, NEW at, NEW nums, NEW x, AreNumerals(nums), Parts(t, at, Listed(nums, x)), at[1] \in Nat \ {0}
  PROVE  Stands(t, at, nums, x)
<1> DEFINE n == Len(nums)
           parts == Listed(nums, x)
<1>1. n \in Nat /\ \A k \in 1..n : Numeral(nums[k])
  <2>1. nums \in Seq(Seq(Dec))
    BY Zenon DEF AreNumerals
  <2>2. \A k \in 1..n : Numeral(nums[k])
    BY Zenon DEF AreNumerals
  <2>3. n \in Nat
    BY <2>1
  <2> QED
    BY <2>2, <2>3
<1>2. Len(parts) = n /\ \A k \in 1..n : parts[k] = IF k < n THEN nums[k] \o <<x>> ELSE nums[k]
  BY <1>1 DEF Listed
<1> HIDE DEF n, parts
<1>3. ASSUME NEW k \in 1..n
      PROVE  /\ nums[k] \in Seq(Dec) /\ Len(nums[k]) \in Nat \ {0}
             /\ k < n => Len(parts[k]) = Len(nums[k]) + 1 /\ parts[k][Len(nums[k]) + 1] = x
             /\ k = n => Len(parts[k]) = Len(nums[k])
             /\ \A j \in 1..Len(nums[k]) : parts[k][j] = nums[k][j]
  <2>1. nums[k] \in Seq(Dec) /\ Len(nums[k]) \in Nat \ {0}
    BY <1>1, NumeralHas
  <2> DEFINE u == nums[k]
             v == nums[k] \o <<x>>
  <2>2. Len(v) = Len(u) + 1 /\ v[Len(u) + 1] = x /\ \A j \in 1..Len(u) : v[j] = u[j]
    BY <2>1, AppendedIs
  <2>3. parts[k] = IF k < n THEN v ELSE u
    BY <1>2
  <2> HIDE DEF v, u
  <2>4. /\ k < n => Len(parts[k]) = Len(u) + 1 /\ parts[k][Len(u) + 1] = x
        /\ k = n => Len(parts[k]) = Len(u)
        /\ \A j \in 1..Len(u) : parts[k][j] = u[j]
    BY <1>1, <2>2, <2>3
  <2> QED
    BY <2>1, <2>4 DEF u
<1>4. \A k \in 1..Len(parts) : Len(parts[k]) \in Nat
  <2> SUFFICES ASSUME NEW k \in 1..n PROVE Len(parts[k]) \in Nat
    BY <1>2
  <2>1. Len(nums[k]) \in Nat /\ (k < n \/ k = n)
    BY <1>1, <1>3
  <2> QED
    BY <1>3, <2>1
<1>5. Standing(t, at, parts)
  BY <1>1, <1>2, <1>4, PartsPlaces DEF parts
<1>6. ASSUME NEW k \in 1..n PROVE NumeralAt(t, at, nums, x, k)
  <2> DEFINE u == nums[k]
             p == at[k]
  <2>1. k \in 1..n + 1 /\ k + 1 \in 1..n + 1
    BY <1>1
  <2>2. p \in Nat \ {0} /\ at[k + 1] \in Nat \ {0} /\ at[k + 1] = p + Len(parts[k])
        /\ \A j \in 1..Len(parts[k]) : Ch(t, p + j - 1) = parts[k][j]
    BY <1>2, <1>5, <2>1 DEF Standing
  <2>3. /\ Len(u) \in Nat \ {0}
        /\ k < n => Len(parts[k]) = Len(u) + 1 /\ parts[k][Len(u) + 1] = x
        /\ k = n => Len(parts[k]) = Len(u)
        /\ \A j \in 1..Len(u) : parts[k][j] = u[j]
    BY <1>3
  <2>4. Numeral(u)
    BY <1>1
  <2> HIDE DEF u, p
  <2>5. \A j \in 1..Len(u) : Ch(t, p + j - 1) = u[j]
    <3> SUFFICES ASSUME NEW j \in 1..Len(u) PROVE Ch(t, p + j - 1) = u[j]
      OBVIOUS
    <3>1. k < n \/ k = n
      BY <1>1
    <3>2. j \in 1..Len(parts[k])
      BY <2>3, <3>1
    <3> QED
      BY <2>2, <2>3, <3>2
  <2>6. Within(t, p, u)
    BY <2>5, Zenon DEF Within
  <2>7. ASSUME k < n PROVE Ch(t, p + Len(u)) = x /\ at[k + 1] = p + Len(u) + 1
    <3>1. Len(u) + 1 \in 1..Len(parts[k]) /\ p + (Len(u) + 1) - 1 = p + Len(u)
      BY <2>2, <2>3, <2>7
    <3>2. Ch(t, p + (Len(u) + 1) - 1) = parts[k][Len(u) + 1]
      BY <2>2, <3>1
    <3>3. at[k + 1] = p + (Len(u) + 1) /\ parts[k][Len(u) + 1] = x
      BY <2>2, <2>3, <2>7, Zenon
    <3>4. p + (Len(u) + 1) = p + Len(u) + 1
      BY <2>2, <2>3
    <3> QED
      BY <3>1, <3>2, <3>3, <3>4, Zenon
  <2>8. k = n => at[k + 1] = p + Len(u)
    BY <2>2, <2>3
  <2> QED
    BY <2>2, <2>3, <2>4, <2>6, <2>7, <2>8, Zenon DEF NumeralAt, u, p, n
<1> QED
  BY <1>1, <1>6, Zenon DEF Stands, n

\* The places of numerals go up, and up to the last all is digits and x.
LEMMA NumeralsGoUp ==
  ASSUME NEW t, NEW at, NEW nums, NEW x, Stands(t, at, nums, x)
  PROVE  /\ \A k \in 1..Len(nums) + 1 : at[k] \in Nat \ {0} /\ at[k] <= at[Len(nums) + 1] /\ at[1] <= at[k]
         /\ \A q \in at[1]..(at[Len(nums) + 1] - 1) : Ch(t, q) \in Dec \cup {x}
         /\ Len(nums) # 0 => at[1] < at[Len(nums) + 1] /\ Ch(t, at[1]) \in Dec
<1> DEFINE n == Len(nums)
           a == at[1]
           Up(k) == /\ at[k + 1] \in Nat \ {0} /\ a <= at[k + 1] /\ (k # 0 => a < at[k + 1])
                    /\ \A j \in 1..k + 1 : at[j] \in Nat \ {0} /\ at[j] <= at[k + 1] /\ a <= at[j]
                    /\ \A q \in a..(at[k + 1] - 1) : Ch(t, q) \in Dec \cup {x}
           Good == {k \in Nat : k <= n => Up(k)}
<1>0. n \in Nat /\ a \in Nat \ {0} /\ \A k \in 1..n : NumeralAt(t, at, nums, x, k)
  BY Zenon DEF Stands
<1>1. ASSUME NEW k \in 1..n, NEW j \in 1..Len(nums[k]) PROVE Ch(t, at[k] + j - 1) \in Dec
  <2>1. Numeral(nums[k]) /\ Within(t, at[k], nums[k])
    BY <1>0, Zenon DEF NumeralAt
  <2>2. nums[k][j] \in Dec
    BY <2>1, NumeralHas
  <2>3. Ch(t, at[k] + j - 1) = nums[k][j]
    BY <2>1, Zenon DEF Within
  <2> QED
    BY <2>2, <2>3
<1> HIDE DEF n
<1>2. 0 \in Good
  <2>1. Up(0)
    BY <1>0
  <2> HIDE DEF Up
  <2> QED
    BY <2>1
<1>3. ASSUME NEW k \in Good PROVE k + 1 \in Good
  <2>1. k \in Nat /\ k + 1 \in Nat
    OBVIOUS
  <2> SUFFICES ASSUME k + 1 <= n PROVE Up(k + 1)
    <3> HIDE DEF Up
    <3> QED
      BY <2>1
  <2>2. Up(k)
    <3> HIDE DEF Up
    <3> QED
      BY <1>0, <2>1
  <2> DEFINE m == k + 1
             l == Len(nums[m])
             p == at[m]
             e == at[m + 1]
  <2>3. m \in 1..n /\ m \in Nat /\ (m < n \/ m = n)
    BY <1>0, <2>1
  <2>4. /\ l \in Nat \ {0} /\ p \in Nat \ {0} /\ e \in Nat \ {0}
        /\ (m < n => Ch(t, p + l) = x /\ e = p + l + 1) /\ (m = n => e = p + l)
    BY <1>0, <2>3, Zenon DEF NumeralAt, n
  <2>5. a <= p /\ (\A j \in 1..m : at[j] \in Nat \ {0} /\ at[j] <= p /\ a <= at[j])
        /\ \A q \in a..(p - 1) : Ch(t, q) \in Dec \cup {x}
    BY <2>2
  <2>6. \A j \in 1..l : Ch(t, p + j - 1) \in Dec
    BY <1>1, <2>3
  <2> HIDE DEF m, l, p, e, Up, Good
  <2>7. a \in Nat
    BY <1>0
  <2>8. ASSUME NEW q \in a..(e - 1) PROVE Ch(t, q) \in Dec \cup {x}
    <3>1. CASE q < p
      BY <2>4, <2>5, <2>7, <3>1
    <3>2. CASE p <= q /\ q < p + l
      <4> DEFINE j == q - p + 1
      <4>1. j \in 1..l /\ p + j - 1 = q
        BY <2>4, <2>7, <3>2
      <4> QED
        BY <2>6, <4>1
    <3>3. CASE p + l <= q
      <4>1. m < n /\ q = p + l
        BY <2>3, <2>4, <2>7, <3>3
      <4> QED
        BY <2>4, <4>1
    <3> QED
      BY <2>4, <2>7, <3>1, <3>2, <3>3
  <2>9. p < e /\ a < e
    BY <2>3, <2>4, <2>5, <2>7
  <2>10. ASSUME NEW j \in 1..m + 1 PROVE at[j] \in Nat \ {0} /\ at[j] <= e /\ a <= at[j]
    <3>1. CASE j = m + 1
      <4>1. at[j] = e
        BY <3>1 DEF e
      <4>2. e <= e /\ a <= e
        BY <2>4, <2>7, <2>9
      <4> QED
        BY <2>4, <4>1, <4>2, Zenon
    <3>2. CASE j # m + 1
      <4>1. j \in 1..m
        BY <2>3, <3>2
      <4>2. at[j] \in Nat \ {0} /\ at[j] <= p /\ a <= at[j]
        BY <2>5, <4>1
      <4> QED
        BY <2>4, <2>9, <4>2
    <3> QED
      BY <3>1, <3>2
  <2>11. Up(m)
    BY <2>4, <2>7, <2>8, <2>9, <2>10 DEF Up, e
  <2> QED
    BY <2>11 DEF m
<1> HIDE DEF Good
<1>4. n \in Good
  <2>1. Good \in SUBSET Nat
    BY DEF Good
  <2>2. Good = Nat
    BY <1>2, <1>3, <2>1, Induct
  <2> QED
    BY <1>0, <2>2
<1>5. Up(n)
  <2> HIDE DEF Up
  <2>1. n <= n
    BY <1>0
  <2> QED
    BY <1>4, <2>1 DEF Good
<1>6. ASSUME n # 0 PROVE Ch(t, a) \in Dec
  <2>1. 1 \in 1..n
    BY <1>0, <1>6
  <2>2. Len(nums[1]) \in Nat \ {0}
    BY <1>0, <2>1, Zenon DEF NumeralAt
  <2>3. 1 \in 1..Len(nums[1]) /\ a + 1 - 1 = a
    BY <1>0, <2>2
  <2>4. Ch(t, at[1] + 1 - 1) \in Dec
    BY <1>1, <2>1, <2>3
  <2> QED
    BY <2>3, <2>4
<1> QED
  BY <1>5, <1>6 DEF n

(* Where numerals are in the text that is cut out for them *)
CutPlaces(at, nums) == [k \in 1..Len(nums) + 1 |-> at[k] - at[1] + 1]

CutText(t, at, nums) == SubSeq(t, at[1], at[Len(nums) + 1] - 1)

\* Numerals stand in the text that is cut out for them, and end with it.
LEMMA StandsCut ==
  ASSUME NEW S, NEW t \in Seq(S), NEW at, NEW nums, NEW x, Stands(t, at, nums, x), Len(nums) # 0,
         Ch(t, at[Len(nums) + 1]) # NUL
  PROVE  /\ CutText(t, at, nums) \in Seq(S)
         /\ Stands(CutText(t, at, nums), CutPlaces(at, nums), nums, x)
         /\ CutPlaces(at, nums)[1] = 1
         /\ CutPlaces(at, nums)[Len(nums) + 1] = Len(CutText(t, at, nums)) + 1
<1> DEFINE n == Len(nums)
           a == at[1]
           close == at[n + 1]
           u == CutText(t, at, nums)
           ut == CutPlaces(at, nums)
<1>1. n \in Nat \ {0} /\ \A k \in 1..n : NumeralAt(t, at, nums, x, k)
  BY Zenon DEF Stands
<1>2. /\ \A k \in 1..n + 1 : at[k] \in Nat \ {0} /\ at[k] <= close /\ a <= at[k]
      /\ a < close
  BY NumeralsGoUp
<1>3. close \in 1..Len(t)
  BY Inside, Zenon
<1>4. a \in Nat \ {0} /\ 1 \in 1..n + 1 /\ n + 1 \in 1..n + 1
  BY <1>1, <1>2
<1>5. u = SubSeq(t, a, close - 1) /\ \A k \in 1..n + 1 : ut[k] = at[k] - a + 1
  BY DEF CutText, CutPlaces
<1>12. close \in Nat /\ a \in Nat
  BY <1>3, <1>4
<1> HIDE DEF n, a, close, u, ut
<1>6. Len(u) = close - a /\ u \in Seq(S) /\ \A q \in 1..Len(u) : u[q] = t[a + q - 1]
  <2>1. a \in 1..Len(t) /\ close - 1 \in a..Len(t)
    BY <1>2, <1>3, <1>4
  <2>2. \A i \in a..(close - 1) : t[i] \in S
    BY <2>1
  <2>3. u \in Seq(S) /\ Len(u) = (close - 1) - a + 1 /\ \A i \in 1..(close - 1) - a + 1 : u[i] = t[a + i - 1]
    BY <1>5, <2>1, <2>2, SubSeqProperties
  <2>4. (close - 1) - a + 1 = close - a
    BY <1>3, <1>4
  <2> QED
    BY <2>3, <2>4
<1>7. ASSUME NEW q \in Nat, a <= q, q < close PROVE Ch(u, q - a + 1) = Ch(t, q)
  <2> DEFINE i == q - a + 1
  <2>1. i \in 1..Len(u) /\ a + i - 1 = q /\ q \in 1..Len(t)
    <3>1. Len(u) = close - a /\ Len(t) \in Nat /\ a >= 1 /\ close <= Len(t)
      BY <1>3, <1>4, <1>6
    <3> QED
      BY <1>7, <1>12, <3>1
  <2>2. u[i] = t[q]
    BY <1>6, <2>1
  <2> HIDE DEF i
  <2> QED
    BY <2>1, <2>2, Zenon DEF Ch, i
<1>8. ASSUME NEW k \in 1..n PROVE NumeralAt(u, ut, nums, x, k)
  <2> DEFINE d == nums[k]
             l == Len(d)
             p == at[k]
             e == at[k + 1]
             v == ut[k]
  <2>1. /\ Numeral(d) /\ l \in Nat \ {0} /\ p \in Nat \ {0} /\ e \in Nat \ {0}
        /\ Within(t, p, d)
        /\ k < n => Ch(t, p + l) = x /\ e = p + l + 1
        /\ k = n => e = p + l
    BY <1>1, Zenon DEF NumeralAt, n
  <2>2. k \in 1..n + 1 /\ k + 1 \in 1..n + 1 /\ (k < n \/ k = n)
    BY <1>1
  <2>3. a <= p /\ a <= e /\ e <= close /\ v = p - a + 1 /\ ut[k + 1] = e - a + 1
    BY <1>2, <1>5, <2>2
  <2>4. \A j \in 1..l : Ch(t, p + j - 1) = d[j]
    BY <2>1, Zenon DEF Within
  <2> HIDE DEF d, l, p, e, v
  <2>10. l \in Nat /\ p \in Nat /\ e \in Nat /\ p + l <= e
    BY <2>1, <2>2
  <2>5. ASSUME NEW j \in 1..l PROVE Ch(u, v + j - 1) = d[j]
    <3> DEFINE q == p + j - 1
    <3>1. q \in Nat /\ a <= q /\ q < close /\ q - a + 1 = v + j - 1
      BY <1>12, <2>3, <2>10
    <3>2. Ch(t, q) = d[j]
      BY <2>4
    <3> HIDE DEF q
    <3> QED
      BY <1>7, <3>1, <3>2
  <2>6. Within(u, v, d)
    BY <2>5, Zenon DEF Within, l
  <2>7. ASSUME k < n PROVE Ch(u, v + l) = x /\ ut[k + 1] = v + l + 1
    <3> DEFINE q == p + l
    <3>1. q \in Nat /\ a <= q /\ q < close /\ q - a + 1 = v + l /\ e - a + 1 = v + l + 1
      <4>1. e = p + l + 1
        BY <2>1, <2>7
      <4> QED
        BY <1>12, <2>3, <2>10, <4>1
    <3>2. Ch(t, q) = x
      BY <2>1, <2>7
    <3> HIDE DEF q
    <3>3. Ch(u, q - a + 1) = x
      BY <1>7, <3>1, <3>2
    <3> QED
      BY <2>3, <3>1, <3>3
  <2>8. k = n => ut[k + 1] = v + l
    BY <1>4, <2>1, <2>3
  <2>9. v \in Nat \ {0} /\ ut[k + 1] \in Nat \ {0}
    BY <1>4, <2>1, <2>3
  <2> QED
    BY <2>1, <2>6, <2>7, <2>8, <2>9, Zenon DEF NumeralAt, n, d, l, v
<1>9. ut[1] = 1 /\ ut[n + 1] = Len(u) + 1
  <2>1. ut[1] = a - a + 1 /\ ut[n + 1] = close - a + 1
    BY <1>4, <1>5 DEF close, a
  <2> QED
    BY <1>3, <1>4, <1>6, <2>1
<1>10. ut[1] \in Nat \ {0} /\ n \in Nat
  BY <1>1, <1>9
<1>11. Stands(u, ut, nums, x)
  BY <1>8, <1>10, Zenon DEF Stands, n
<1> QED
  BY <1>6, <1>9, <1>11, Zenon DEF n, u, ut

(* What Defaults gives of them *)
Backed == {"\\", ")", NUL}

IsCut(r, t, at, nums) ==
  r = [given |-> TRUE, empty |-> FALSE, text |-> CutText(t, at, nums), p |-> at[Len(nums) + 1] + 1]

\* The defaults of a group are what stands between its brackets.
LEMMA DefaultsRead ==
  ASSUME NEW S, NEW t \in Seq(S), NEW at, NEW nums, NEW x, Stands(t, at, nums, x), Len(nums) # 0,
         NEW p \in Nat \ {0}, Ch(t, p) = "(", at[1] = p + 1, Ch(t, at[Len(nums) + 1]) = ")",
         x \notin Backed
  PROVE  IsCut(Defaults(t, p), t, at, nums)
<1> DEFINE n == Len(nums)
           a == at[1]
           close == at[n + 1]
           hits == {q \in a..Len(t) : t[q] = ")" /\ ~EscapedAt(t, a, q)}
<1>1. /\ a < close /\ a \in Nat \ {0} /\ Ch(t, a) \in Dec
      /\ \A q \in a..(close - 1) : Ch(t, q) \in Dec \cup {x}
  <2>1. 1 \in 1..n + 1
    BY DEF Stands
  <2> QED
    BY <2>1, NumeralsGoUp
<1>2. close \in 1..Len(t) /\ t[close] = ")" /\ Ch(t, close) # NUL
  <2>1. Ch(t, close) # NUL
    BY DEF NUL
  <2> QED
    BY <2>1, Inside
<1>3. x # "\\" /\ x # ")" /\ x # NUL /\ \A c \in Dec : c # "\\" /\ c # ")" /\ c # NUL /\ c # " "
  <2>1. \A c \in Dec : c # "\\" /\ c # ")" /\ c # NUL /\ c # " "
    BY DEF Dec, Oct, Bin, NUL
  <2>2. x # "\\" /\ x # ")" /\ x # NUL
    BY Zenon DEF Backed
  <2> QED
    BY <2>1, <2>2
<1>4. \A q \in a..(close - 1) : t[q] # ")" /\ t[q] # "\\"
  <2> SUFFICES ASSUME NEW q \in a..(close - 1) PROVE t[q] # ")" /\ t[q] # "\\"
    OBVIOUS
  <2>1. Ch(t, q) \in Dec \cup {x}
    BY <1>1
  <2>2. Ch(t, q) # NUL /\ Ch(t, q) # ")" /\ Ch(t, q) # "\\"
    BY <1>3, <2>1
  <2>3. Ch(t, q) = t[q]
    BY <2>2, Inside
  <2> QED
    BY <2>2, <2>3
<1> HIDE DEF close, n
<1>5. SkipWhitespace(t, a) = a
  <2>1. Ch(t, a) # NUL /\ Ch(t, a) # " "
    BY <1>1, <1>3
  <2>2. a \in 1..Len(t) /\ t[a] = Ch(t, a)
    BY <2>1, Inside
  <2>3. ~IsWhitespace(t[a])
    BY <2>1, <2>2, Zenon DEF IsWhitespace
  <2> QED
    BY <2>2, <2>3, NothingToSkip
<1>6. ~EscapedAt(t, a, close)
  <2> DEFINE R == {r \in a..close - 1 : \A q \in r..close - 1 : t[q] = "\\"}
  <2>1. R = {}
    <3> SUFFICES ASSUME NEW r \in R PROVE FALSE
      OBVIOUS
    <3>1. r \in a..close - 1 /\ r \in r..close - 1
      BY <1>1, <1>2
    <3> QED
      BY <1>4, <3>1
  <2>2. Cardinality(R) = 0
    BY <2>1, FS_EmptySet
  <2>3. EscapedAt(t, a, close) <=> Cardinality(R) % 2 = 1
    BY DEF EscapedAt
  <2> HIDE DEF R
  <2>4. Cardinality(R) % 2 = 0
    BY <2>2
  <2> QED
    BY <2>3, <2>4
<1>7. hits \in SUBSET Nat /\ close \in hits /\ \A q \in hits : close <= q
  <2>1. close \in a..Len(t)
    BY <1>1, <1>2
  <2>2. \A q \in hits : q \in Nat
    BY <1>1
  <2>3. ASSUME NEW q \in hits PROVE close <= q
    <3>1. q \in a..Len(t) /\ t[q] = ")"
      BY <2>3
    <3>2. q \notin a..(close - 1)
      BY <1>4, <3>1
    <3> QED
      BY <1>1, <1>2, <3>1, <3>2
  <2> HIDE DEF hits
  <2>4. close \in hits
    BY <1>2, <1>6, <2>1 DEF hits
  <2> QED
    BY <2>2, <2>3, <2>4
<1>8. FirstUnescaped(t, a, ")") = close
  <2>1. FirstUnescaped(t, a, ")") = IF hits = {} THEN Len(t) + 1 ELSE CHOOSE q \in hits : \A r \in hits : q <= r
    BY Zenon DEF FirstUnescaped
  <2> HIDE DEF hits
  <2>2. hits # {} /\ (CHOOSE q \in hits : \A r \in hits : q <= r) = close
    BY <1>7, ChosenHit
  <2> QED
    BY <2>1, <2>2
<1>9. Defaults(t, p) =
        [given |-> TRUE, empty |-> close = a /\ Ch(t, close) = ")",
         text |-> SubSeq(t, a, close - 1), p |-> PastIfAny(t, close)]
  BY <1>5, <1>8, Zenon DEF Defaults
<1>10. (close = a /\ Ch(t, close) = ")") = FALSE
  BY <1>1, <1>2
<1>11. PastIfAny(t, close) = close + 1
  BY <1>2 DEF PastIfAny
<1>12. SubSeq(t, a, close - 1) = CutText(t, at, nums)
  BY DEF CutText, close, n
<1> QED
  BY <1>9, <1>10, <1>11, <1>12 DEF close, n, IsCut

(***************************************************************************)
(* Numerals, read one after the other.                                     *)
(***************************************************************************)
(* x parts numerals where d are the delimiters *)
Parting(d, x) == x \notin Dec /\ x # NUL /\ x \in d /\ NUL \notin d /\ \A c \in Dec : c \notin d

(* The k-th of the numerals is read, and leads to the next *)
IsTaken(d, t, at, nums, k) ==
  /\ Do("i", d, t, at[k]) = [ok |-> TRUE, v |-> Number(nums[k]), p |-> at[k] + Len(nums[k])]
  /\ SkipOneSpacer(d, t, at[k] + Len(nums[k])) = at[k + 1]
  /\ Ch(t, at[k]) \in Dec /\ Ch(t, at[k]) # NUL

\* There is nothing to skip in front of a numeral, or at the end.
LEMMA NothingThere ==
  ASSUME NEW S, NEW t \in Seq(S), NEW d, NEW x, Parting(d, x), NEW p \in Nat \ {0}, Ch(t, p) \in Dec \/ p = Len(t) + 1
  PROVE  SkipWhitespace(t, p) = p /\ SkipOneSpacer(d, t, p) = p
<1>1. Ch(t, p) \notin d
  <2>1. p = Len(t) + 1 => Ch(t, p) = NUL
    BY DEF Ch
  <2> QED
    BY <2>1 DEF Parting
<1>2. SkipWhitespace(t, p) = p
  <2>1. CASE Ch(t, p) \in Dec
    <3>1. \A c \in Dec : c # NUL /\ c # " "
      BY DEF Dec, Oct, Bin, NUL
    <3>2. Ch(t, p) # NUL /\ Ch(t, p) # " "
      BY <2>1, <3>1, Zenon
    <3>3. p \in 1..Len(t) /\ Ch(t, p) = t[p]
      BY <3>2, Inside, Zenon
    <3>4. ~IsWhitespace(t[p])
      BY <3>2, <3>3, Zenon DEF IsWhitespace
    <3> QED
      BY <3>3, <3>4, NothingToSkip
  <2>2. CASE p = Len(t) + 1
    <3>1. p \in 1..(Len(t) + 1)
      BY <2>2
    <3>2. SkipWhitespace(t, p) \in p..(Len(t) + 1)
      BY <3>1, Skipped
    <3> QED
      BY <2>2, <3>2
  <2> QED
    BY <2>1, <2>2
<1> QED
  BY <1>1, <1>2, Zenon DEF SkipOneSpacer, IsDelimiter

\* Each of them is read.
LEMMA NumeralTaken ==
  ASSUME NEW S, NEW t \in Seq(S), NEW at, NEW nums, NEW x, Stands(t, at, nums, x), NEW d, Parting(d, x),
         at[Len(nums) + 1] = Len(t) + 1, NEW k \in 1..Len(nums)
  PROVE  IsTaken(d, t, at, nums, k)
<1> DEFINE n == Len(nums)
           l == Len(nums[k])
           p == at[k]
           q == p + l
           e == at[k + 1]
<1>1. n \in Nat /\ \A j \in 1..n : NumeralAt(t, at, nums, x, j)
  BY Zenon DEF Stands
<1>2. /\ Numeral(nums[k]) /\ l \in Nat \ {0} /\ p \in Nat \ {0} /\ e \in Nat \ {0}
      /\ Within(t, p, nums[k])
      /\ (k < n => Ch(t, q) = x /\ e = q + 1) /\ (k = n => e = q)
  BY <1>1, Zenon DEF NumeralAt
<1>3. e = Len(t) + 1 \/ Ch(t, e) \in Dec
  <2>1. CASE k = n
    BY <2>1
  <2>2. CASE k # n
    <3> DEFINE m == k + 1
    <3>1. m \in 1..n
      BY <1>1, <2>2
    <3>2. Numeral(nums[m]) /\ Within(t, at[m], nums[m]) /\ at[m] \in Nat \ {0}
      BY <1>1, <3>1, Zenon DEF NumeralAt
    <3> HIDE DEF m
    <3>3. 1 \in 1..Len(nums[m]) /\ nums[m][1] \in Dec /\ at[m] + 1 - 1 = at[m]
      BY <3>2, NumeralHas
    <3>4. Ch(t, at[m] + 1 - 1) = nums[m][1]
      BY <3>2, <3>3, Zenon DEF Within
    <3>5. Ch(t, at[m]) \in Dec
      BY <3>3, <3>4
    <3> QED
      BY <3>5 DEF m
  <2> QED
    BY <2>1, <2>2
<1>4. q \in Nat \ {0} /\ (k = n => q = Len(t) + 1 /\ Ch(t, q) = NUL)
  <2>1. q \in Nat \ {0}
    BY <1>2
  <2>2. k = n => q = Len(t) + 1
    BY <1>2
  <2>3. q = Len(t) + 1 => Ch(t, q) = NUL
    BY DEF Ch
  <2> QED
    BY <2>1, <2>2, <2>3
<1>5. k < n \/ k = n
  BY <1>1
<1>6. Ch(t, q) \notin Dec /\ IsSpacer(d, Ch(t, q))
  <2>1. NUL \notin Dec
    BY DEF Dec, Oct, Bin, NUL
  <2>2. CASE k < n
    BY <1>2, <2>2, Zenon DEF Parting, IsSpacer, IsDelimiter
  <2>3. CASE k = n
    <3>1. Ch(t, q) = NUL
      BY <1>4, <2>3
    <3> QED
      BY <2>1, <3>1, Zenon DEF IsSpacer, IsWhitespace
  <2> QED
    BY <1>5, <2>2, <2>3, Zenon
<1>7. p \in 1..Len(t) /\ GetDec(t, p) = [v |-> Number(nums[k]), p |-> q]
  BY <1>2, <1>6, NumeralRead
<1>8. Ch(t, p) \in Dec /\ Ch(t, p) # NUL
  <2>1. 1 \in 1..l /\ nums[k][1] \in Dec /\ p + 1 - 1 = p
    BY <1>2, NumeralHas
  <2>2. Ch(t, p + 1 - 1) = nums[k][1]
    BY <1>2, <2>1, Zenon DEF Within
  <2>3. NUL \notin Dec
    BY DEF Dec, Oct, Bin, NUL
  <2> QED
    BY <2>1, <2>2, <2>3
<1> HIDE DEF l, p, q, e
<1>9. Do("i", d, t, p) = [ok |-> TRUE, v |-> Number(nums[k]), p |-> q]
  <2> DEFINE r == GetDec(t, p)
  <2>1. Get("i", d, t, p) = r
    BY Zenon DEF Get
  <2>2. Do("i", d, t, p) = [ok |-> "i" \in {"l", "L"} \/ GetReturn(d, t, r.p), v |-> r.v, p |-> r.p]
    BY <2>1, Zenon DEF Do
  <2>3. r.v = Number(nums[k]) /\ r.p = q
    BY <1>7
  <2>4. GetReturn(d, t, q)
    BY <1>6, Zenon DEF GetReturn
  <2> HIDE DEF r
  <2>5. ("i" \in {"l", "L"} \/ GetReturn(d, t, r.p)) = TRUE
    BY <2>3, <2>4
  <2> QED
    BY <2>2, <2>3, <2>5
<1>10. SkipOneSpacer(d, t, q) = e
  <2>1. CASE k = n
    <3>1. q = Len(t) + 1 /\ e = q
      BY <1>2, <1>4, <2>1
    <3> QED
      BY <1>4, <3>1, NothingThere
  <2>2. CASE k < n
    <3>1. Ch(t, q) = x /\ e = q + 1
      BY <1>2, <2>2
    <3>2. SkipWhitespace(t, e) = e
      BY <1>2, <1>3, NothingThere
    <3>3. x # NUL /\ x \in d
      BY Zenon DEF Parting
    <3>4. q \in 1..Len(t) /\ t[q] = x
      BY <3>1, <3>3, Inside, Zenon
    <3>5. CASE IsWhitespace(x)
      <4>1. SkipWhitespace(t, q) = e
        <5>1. q \in 1..(Len(t) + 1)
          BY <3>4
        <5>2. SkipWhitespace(t, q) \in q..(Len(t) + 1)
              /\ (SkipWhitespace(t, q) <= Len(t) => ~IsWhitespace(t[SkipWhitespace(t, q)]))
              /\ \A i \in q..(SkipWhitespace(t, q) - 1) : IsWhitespace(t[i])
          BY <5>1, Skipped
        <5> DEFINE w == SkipWhitespace(t, q)
        <5>3. w # q
          BY <3>4, <3>5, <5>2
        <5>4. ~(w > e)
          <6> SUFFICES ASSUME w > e PROVE FALSE
            OBVIOUS
          <6>1. e \in q..(w - 1) /\ e # Len(t) + 1
            BY <1>4, <3>1, <5>2
          <6>2. Ch(t, e) \in Dec
            BY <1>3, <6>1
          <6>3. \A c \in Dec : c # NUL /\ c # " "
            BY DEF Dec, Oct, Bin, NUL
          <6>4. Ch(t, e) # NUL /\ Ch(t, e) # " "
            BY <6>2, <6>3, Zenon
          <6>5. Ch(t, e) = t[e]
            BY <6>4, Inside, Zenon
          <6>6. IsWhitespace(t[e])
            BY <5>2, <6>1
          <6> QED
            BY <6>4, <6>5, <6>6, Zenon DEF IsWhitespace
        <5> HIDE DEF w
        <5>5. w \in q..(Len(t) + 1)
          BY <5>2 DEF w
        <5> QED
          BY <1>4, <3>1, <5>3, <5>4, <5>5 DEF w
      <4>2. SkipOneSpacer(d, t, e) = e
        BY <1>2, <1>3, NothingThere
      <4> QED
        BY <3>2, <4>1, <4>2, Zenon DEF SkipOneSpacer
    <3>6. CASE ~IsWhitespace(x)
      <4>1. SkipWhitespace(t, q) = q
        BY <3>4, <3>6, NothingToSkip
      <4> QED
        BY <3>1, <3>2, <3>3, <4>1, Zenon DEF SkipOneSpacer, IsDelimiter
    <3> QED
      BY <3>5, <3>6
  <2> QED
    BY <1>5, <2>1, <2>2
<1> QED
  BY <1>8, <1>9, <1>10, Zenon DEF IsTaken, p, q, e, l

(***************************************************************************)
(* The loop of an array of whole numbers.                                  *)
(***************************************************************************)
(* One number further *)
IntStep(d, t, a) ==
  LET r == Do("i", d, t, a.p)
  IN  IF a.stop \/ Ch(t, a.p) = NUL THEN a
      ELSE IF ~r.ok THEN [a EXCEPT !.stop = TRUE, !.p = r.p]
      ELSE [a EXCEPT !.cells = Append(@, r.v), !.p = SkipOneSpacer(d, t, r.p),
                     !.diff = Difference("i", a.cells, r.v)]

Taken(cells, p, diff) == [stop |-> FALSE, cells |-> cells, p |-> p, diff |-> diff]

(* The loop, turn by turn *)
IntRun(d, t, p, length, h) ==
  /\ h[0] = Taken(<<>>, p, 0)
  /\ \A k \in 1..length : h[k] = IntStep(d, t, h[k - 1])

\* A whole number is read alike from the input and from the defaults.
LEMMA IntRead ==
  ASSUME NEW options, NEW d, NEW t, NEW q, NEW c
  PROVE  ReadValue("i", c, options, d, t, q) = Do("i", d, t, q)
<1>1. "i" \in Simple
  BY DEF Simple, SimpleRequired
<1> QED
  BY <1>1, Zenon DEF ReadValue

\* One number further in an array.
LEMMA IntSteps ==
  ASSUME NEW options, NEW d, NEW t, NEW a
  PROVE  CellsStep(<<"i">>, options, d, t, a) = IntStep(d, t, a)
<1> DEFINE type == <<"i">>
<1>3. type[1] = "i"
  OBVIOUS
<1> HIDE DEF type
<1>4. ASSUME NEW q PROVE CellRead(type, options, d, t, q) = Do("i", d, t, q)
  <2>1. type[1] \notin {"k", "K"}
    BY <1>3
  <2> DEFINE no == FALSE
  <2>2. CellRead(type, options, d, t, q) = ReadValue("i", no, options, d, t, q)
    BY <1>3, <2>1, Zenon DEF CellRead
  <2> HIDE DEF no
  <2>3. ReadValue("i", no, options, d, t, q) = Do("i", d, t, q)
    BY IntRead
  <2> QED
    BY <2>2, <2>3, Zenon
<1>5. CellsStep(type, options, d, t, a) = IntStep(d, t, a)
  <2> DEFINE r == CellRead(type, options, d, t, a.p)
             Note(x) == IF ~x.ok THEN [a EXCEPT !.stop = TRUE, !.p = x.p]
                        ELSE [a EXCEPT !.cells = Append(@, x.v), !.p = SkipOneSpacer(d, t, x.p),
                                       !.diff = Difference(type[1], a.cells, x.v)]
  <2>1. CellsStep(type, options, d, t, a) = IF a.stop \/ Ch(t, a.p) = NUL THEN a ELSE Note(r)
    BY Zenon DEF CellsStep
  <2>2. r = Do("i", d, t, a.p)
    BY <1>4, Zenon
  <2> HIDE DEF r
  <2> QED
    BY <1>3, <2>1, <2>2, Zenon DEF IntStep
<1> QED
  BY <1>5, Zenon DEF type

\* Reading stays what the type invariant says.
LEMMA IntStepTyped ==
  ASSUME NEW options, NEW d, NEW t, Len(t) \in Nat, NEW p \in Nat
  PROVE  /\ Taken(<<>>, p, 0) \in CellsRead(<<"i">>, options, d, t, p)
         /\ \A a \in CellsRead(<<"i">>, options, d, t, p) : IntStep(d, t, a) \in CellsRead(<<"i">>, options, d, t, p)
<1>1. Taken(<<>>, p, 0) \in CellsRead(<<"i">>, options, d, t, p)
  <2>1. <<>> \in Seq(CellValues(<<"i">>, options, d, t))
    OBVIOUS
  <2>2. p \in {q \in Nat : p <= q}
    OBVIOUS
  <2> QED
    BY <2>1, <2>2 DEF CellsRead, Taken
<1>2. ASSUME NEW a \in CellsRead(<<"i">>, options, d, t, p) PROVE IntStep(d, t, a) \in CellsRead(<<"i">>, options, d, t, p)
  <2>1. CellsStep(<<"i">>, options, d, t, a) \in CellsRead(<<"i">>, options, d, t, p)
    BY CellsStepTyped
  <2>2. CellsStep(<<"i">>, options, d, t, a) = IntStep(d, t, a)
    BY IntSteps
  <2> QED
    BY <2>1, <2>2
<1> QED
  BY <1>1, <1>2

(* The answer of ArrayInput, and of ArrayDefaults, with what was read *)
InputOf(t, length, read) ==
  [ret |-> IF Len(read.cells) = length THEN "TRUE" ELSE IF Ch(t, read.p) = NUL THEN "CONT" ELSE "FAIL",
   cells |-> read.cells, p |-> read.p]

DefaultsOf(t, length, read) == IF Ch(t, read.p) # NUL THEN read.cells ELSE GoOn("i", read, length)

Closers == {",", ")"}

\* The loop of ArrayInput.
LEMMA InputRuns ==
  ASSUME NEW size, NEW options, NEW d, NEW t, Len(t) \in Nat, NEW p \in Nat, NEW length \in Nat, NEW saves, NEW whole
  PROVE  \E h : /\ IntRun(d, t, p, length, h)
                /\ ArrayInput(<<"i">>, size, options, d, t, p, length, saves, whole) = InputOf(t, length, h[length])
<1> DEFINE n == length
           type == <<"i">>
           T == CellsRead(<<"i">>, options, d, t, p)
           none == [stop |-> FALSE, cells |-> <<>>, p |-> p, diff |-> 0]
           E == {0}
           seq == [k \in 1..length |-> 0]
           Step(a) == CellsStep(<<"i">>, options, d, t, a)
           op == [x \in T \X E |-> Step(x[1])]
           indices == DOMAIN seq
           Solves(iter) ==
             iter = [u \in SUBSET indices |-> IF u = {} THEN none ELSE Step(iter[u \ {Max(u)}])]
           fold == CHOOSE iter : Solves(iter)
<1>1. ArrayInput(type, size, options, d, t, p, length, saves, whole) = InputOf(t, length, fold[indices])
  <2>1. type[1] = "i"
    OBVIOUS
  <2>2. type[1] # "s"
    BY <2>1
  <2> QED
    BY <2>2, Zenon DEF ArrayInput, CellRead, Values, FoldLeft, MapThenFoldSet, CellsStep, Times, InputOf
<1>2. n \in Nat /\ indices = 1..n /\ \A k \in 1..n : seq[k] \in E
  OBVIOUS
<1>3. ASSUME NEW a PROVE Step(a) = IntStep(d, t, a)
  BY IntSteps
<1>4. none \in T /\ none = Taken(<<>>, p, 0) /\ \A a \in T : Step(a) \in T
  <2>1. none = Taken(<<>>, p, 0)
    BY DEF Taken
  <2>2. Taken(<<>>, p, 0) \in T /\ \A a \in T : IntStep(d, t, a) \in T
    BY IntStepTyped, Zenon
  <2> HIDE DEF none, T, Step
  <2> QED
    BY <1>3, <2>1, <2>2
<1> HIDE DEF n, seq, indices, T, none, E, Step
<1>6. \A a \in T, k \in E : op[<<a, k>>] = Step(a)
  OBVIOUS
<1>7. \A a \in T, k \in E : op[<<a, k>>] \in T
  BY <1>4, <1>6
<1> HIDE DEF op
<1>8. PICK g \in [SUBSET (1..n) -> T] : Folds(g, none, op, seq, n)
  BY <1>2, <1>4, <1>7, FoldExists
<1>9. Solves(g)
  <2>1. ASSUME NEW u \in SUBSET (1..n), u # {}
        PROVE  op[<<g[u \ {Max(u)}], seq[Max(u)]>>] = Step(g[u \ {Max(u)}])
    <3>1. Max(u) \in 1..n
      BY <1>2, <2>1, Largest
    <3>2. seq[Max(u)] \in E /\ g[u \ {Max(u)}] \in T
      BY <1>2, <1>8, <3>1
    <3> QED
      BY <1>6, <3>2
  <2>2. \A u \in SUBSET (1..n) :
          g[u] = IF u = {} THEN none ELSE Step(g[u \ {Max(u)}])
    BY <1>8, <2>1 DEF Folds
  <2> QED
    BY <1>2, <2>2
<1>10. Solves(fold)
  <2> HIDE DEF Solves
  <2> QED
    BY <1>9
<1> HIDE DEF fold
<1>11. fold[{}] = none
  BY <1>2, <1>10
<1>12. ASSUME NEW k \in 1..n PROVE fold[1..k] = Step(fold[1..(k - 1)])
  <2>1. 1..k \in SUBSET (1..n) /\ 1..k # {} /\ Max(1..k) = k /\ (1..k) \ {k} = 1..(k - 1)
    BY <1>2, UpTo
  <2> QED
    BY <1>2, <1>10, <2>1
<1> HIDE DEF Solves
<1> DEFINE h == [k \in 0..n |-> fold[1..k]]
<1>13. h[0] = none /\ h[n] = fold[indices]
  <2>1. 1..0 = {} /\ 0 \in 0..n /\ n \in 0..n
    BY <1>2
  <2> QED
    BY <1>2, <1>11, <2>1
<1>14. ASSUME NEW k \in 1..n PROVE h[k] = IntStep(d, t, h[k - 1])
  <2>1. h[k] = Step(h[k - 1])
    BY <1>2, <1>12
  <2> QED
    BY <1>3, <2>1, Zenon
<1> HIDE DEF h
<1>15. IntRun(d, t, p, length, h)
  BY <1>4, <1>13, <1>14, Zenon DEF IntRun, n
<1> QED
  BY <1>1, <1>13, <1>15, Zenon DEF n, type

\* The loop of ArrayDefaults.
LEMMA DefaultsRun ==
  ASSUME NEW size, NEW options, NEW t, Len(t) \in Nat, NEW length \in Nat
  PROVE  \E h : /\ IntRun(Closers, t, 1, length, h)
                /\ ArrayDefaults(<<"i">>, size, options, t, length) = DefaultsOf(t, length, h[length])
<1> DEFINE n == length
           d == Closers
           type == <<"i">>
           T == CellsRead(<<"i">>, options, d, t, 1)
           none == [stop |-> FALSE, cells |-> <<>>, p |-> 1, diff |-> 0]
           E == {0}
           seq == [k \in 1..length |-> 0]
           Note(a, r) ==
             IF ~r.ok THEN [a EXCEPT !.stop = TRUE, !.p = r.p]
             ELSE [a EXCEPT !.cells = Append(@, r.v), !.p = SkipOneSpacer({",", ")"}, t, r.p),
                            !.diff = Difference(type[1], a.cells, r.v)]
           Step(a) == IF a.stop \/ Ch(t, a.p) = NUL THEN a
                      ELSE Note(a, ReadValue(type[1], TRUE, options, {",", ")"}, t, a.p))
           op == [x \in T \X E |-> Step(x[1])]
           indices == DOMAIN seq
           Solves(iter) ==
             iter = [u \in SUBSET indices |-> IF u = {} THEN none ELSE Step(iter[u \ {Max(u)}])]
           fold == CHOOSE iter : Solves(iter)
           Series(read) == IF Ch(t, read.p) # NUL THEN read.cells ELSE GoOn(type[1], read, length)
<1>0. type[1] = "i"
  OBVIOUS
<1>1. ArrayDefaults(type, size, options, t, length) = DefaultsOf(t, length, fold[indices])
  <2>1. type[1] # "s" /\ type[1] \notin {"k", "K"}
    BY <1>0
  <2>2. ArrayDefaults(type, size, options, t, length) = Series(fold[indices])
    BY <2>1, Zenon DEF ArrayDefaults, Values, FoldLeft, MapThenFoldSet, Times
  <2> HIDE DEF fold, indices, type
  <2> QED
    BY <1>0, <2>2, Zenon DEF DefaultsOf
<1>2. n \in Nat /\ indices = 1..n /\ \A k \in 1..n : seq[k] \in E
  OBVIOUS
<1>3. ASSUME NEW a PROVE Step(a) = IntStep(d, t, a)
  <2>1. d = {",", ")"}
    BY Zenon DEF Closers
  <2>2. ReadValue("i", TRUE, options, d, t, a.p) = Do("i", d, t, a.p)
    <3> DEFINE yes == TRUE
               q == a.p
    <3> HIDE DEF d, yes, q
    <3>1. ReadValue("i", yes, options, d, t, q) = Do("i", d, t, q)
      BY IntRead
    <3> QED
      BY <3>1 DEF yes, q
  <2> HIDE DEF type, d
  <2> QED
    BY <1>0, <2>1, <2>2, Zenon DEF IntStep
<1>4. none \in T /\ none = Taken(<<>>, 1, 0) /\ \A a \in T : Step(a) \in T
  <2>1. none = Taken(<<>>, 1, 0)
    BY Zenon DEF Taken
  <2>2. Taken(<<>>, 1, 0) \in T /\ \A a \in T : IntStep(d, t, a) \in T
    <3>1. 1 \in Nat
      OBVIOUS
    <3> QED
      BY <3>1, IntStepTyped, Zenon
  <2> HIDE DEF none, T, Step, d
  <2> QED
    BY <1>3, <2>1, <2>2
<1> HIDE DEF n, seq, indices, T, none, E, Step, d
<1>6. \A a \in T, k \in E : op[<<a, k>>] = Step(a)
  OBVIOUS
<1>7. \A a \in T, k \in E : op[<<a, k>>] \in T
  BY <1>4, <1>6
<1> HIDE DEF op
<1>8. PICK g \in [SUBSET (1..n) -> T] : Folds(g, none, op, seq, n)
  BY <1>2, <1>4, <1>7, FoldExists
<1>9. Solves(g)
  <2>1. ASSUME NEW u \in SUBSET (1..n), u # {}
        PROVE  op[<<g[u \ {Max(u)}], seq[Max(u)]>>] = Step(g[u \ {Max(u)}])
    <3>1. Max(u) \in 1..n
      BY <1>2, <2>1, Largest
    <3>2. seq[Max(u)] \in E /\ g[u \ {Max(u)}] \in T
      BY <1>2, <1>8, <3>1
    <3> QED
      BY <1>6, <3>2
  <2>2. \A u \in SUBSET (1..n) :
          g[u] = IF u = {} THEN none ELSE Step(g[u \ {Max(u)}])
    BY <1>8, <2>1 DEF Folds
  <2> QED
    BY <1>2, <2>2
<1>10. Solves(fold)
  <2> HIDE DEF Solves
  <2> QED
    BY <1>9
<1> HIDE DEF fold
<1>11. fold[{}] = none
  BY <1>2, <1>10
<1>12. ASSUME NEW k \in 1..n PROVE fold[1..k] = Step(fold[1..(k - 1)])
  <2>1. 1..k \in SUBSET (1..n) /\ 1..k # {} /\ Max(1..k) = k /\ (1..k) \ {k} = 1..(k - 1)
    BY <1>2, UpTo
  <2> QED
    BY <1>2, <1>10, <2>1
<1> HIDE DEF Solves
<1> DEFINE h == [k \in 0..n |-> fold[1..k]]
<1>13. h[0] = none /\ h[n] = fold[indices]
  <2>1. 1..0 = {} /\ 0 \in 0..n /\ n \in 0..n
    BY <1>2
  <2> QED
    BY <1>2, <1>11, <2>1
<1>14. ASSUME NEW k \in 1..n PROVE h[k] = IntStep(d, t, h[k - 1])
  <2>1. h[k] = Step(h[k - 1])
    BY <1>2, <1>12
  <2> QED
    BY <1>3, <2>1, Zenon
<1> HIDE DEF h
<1>15. IntRun(d, t, 1, length, h)
  BY <1>4, <1>13, <1>14, Zenon DEF IntRun, n
<1> QED
  BY <1>1, <1>13, <1>15, Zenon DEF n, type, d

(* The first k of the numbers, and by how much the last of them differs *)
FirstNumbers(nums, k) == [j \in 1..k |-> Number(nums[j])]

LastDifference(nums, k) == IF k < 2 THEN 0 ELSE Wrap(Number(nums[k]) - Number(nums[k - 1]))

TakenTo(at, nums, k) == Taken(FirstNumbers(nums, k), at[k + 1], LastDifference(nums, k))

\* The numbers of numerals are numbers.
LEMMA NumeralsTyped ==
  ASSUME NEW t, NEW at, NEW nums, NEW x, Stands(t, at, nums, x)
  PROVE  Len(nums) \in Nat /\ \A k \in 1..Len(nums) : Number(nums[k]) \in Int
<1>1. Len(nums) \in Nat /\ \A k \in 1..Len(nums) : Numeral(nums[k])
  BY Zenon DEF Stands, NumeralAt
<1>2. ASSUME NEW k \in 1..Len(nums) PROVE Number(nums[k]) \in Int
  <2>1. nums[k] \in Seq(Dec)
    BY <1>1, NumeralHas
  <2> QED
    BY <2>1, NumberTyped
<1> QED
  BY <1>1, <1>2

\* One number further.
LEMMA IntTaken ==
  ASSUME NEW S, NEW t \in Seq(S), NEW at, NEW nums, NEW x, Stands(t, at, nums, x), NEW d, Parting(d, x),
         at[Len(nums) + 1] = Len(t) + 1, NEW k \in 1..Len(nums)
  PROVE  IntStep(d, t, TakenTo(at, nums, k - 1)) = TakenTo(at, nums, k)
<1> DEFINE n == Len(nums)
           w == FirstNumbers(nums, k - 1)
           v == Number(nums[k])
           a == TakenTo(at, nums, k - 1)
           r == Do("i", d, t, at[k])
           diff == Difference("i", w, v)
<1>0. n \in Nat /\ \A j \in 1..n : Number(nums[j]) \in Int
  BY NumeralsTyped
<1>1. (k - 1) + 1 = k /\ k - 1 \in Nat /\ k \in Nat
  BY <1>0
<1>2. a.stop = FALSE /\ a.p = at[k] /\ a.cells = w /\ a = Taken(w, at[k], LastDifference(nums, k - 1))
  BY <1>1 DEF TakenTo, Taken
<1>3. /\ r = [ok |-> TRUE, v |-> v, p |-> at[k] + Len(nums[k])]
      /\ SkipOneSpacer(d, t, at[k] + Len(nums[k])) = at[k + 1]
      /\ Ch(t, at[k]) # NUL
  BY NumeralTaken DEF IsTaken
<1> HIDE DEF a, r
<1>4. IntStep(d, t, a) =
        IF a.stop \/ Ch(t, a.p) = NUL THEN a
        ELSE IF ~r.ok THEN [a EXCEPT !.stop = TRUE, !.p = r.p]
        ELSE [a EXCEPT !.cells = Append(@, r.v), !.p = SkipOneSpacer(d, t, r.p),
                       !.diff = Difference("i", a.cells, r.v)]
  BY <1>2, Zenon DEF IntStep, r
<1>5. r.ok = TRUE /\ r.v = v /\ r.p = at[k] + Len(nums[k])
  BY <1>3
<1>6. IntStep(d, t, a) = [a EXCEPT !.cells = Append(w, v), !.p = at[k + 1], !.diff = diff]
  <2> HIDE DEF w, v, diff
  <2>1. ~(a.stop \/ Ch(t, a.p) = NUL)
    BY <1>2, <1>3
  <2>2. SkipOneSpacer(d, t, r.p) = at[k + 1]
    BY <1>3, <1>5
  <2>3. IntStep(d, t, a) = [a EXCEPT !.cells = Append(a.cells, v), !.p = at[k + 1], !.diff = Difference("i", a.cells, v)]
    BY <1>4, <1>5, <2>1, <2>2
  <2>4. Difference("i", a.cells, v) = diff
    BY <1>2, Zenon DEF diff
  <2> QED
    BY <1>2, <2>3, <2>4
<1>7. Append(w, v) = FirstNumbers(nums, k)
  <2>1. w \in Seq(Int) /\ Len(w) = k - 1 /\ \A j \in 1..(k - 1) : w[j] = Number(nums[j])
    <3>1. \A j \in 1..(k - 1) : Number(nums[j]) \in Int
      BY <1>0, <1>1
    <3> QED
      BY <1>1, <3>1 DEF FirstNumbers
  <2>2. v \in Int
    BY <1>0
  <2> HIDE DEF w, v
  <2> DEFINE new == Append(w, v)
  <2>3. new \in Seq(Int) /\ Len(new) = k /\ new[k] = v /\ \A j \in 1..(k - 1) : new[j] = w[j]
    BY <1>1, <2>1, <2>2
  <2> HIDE DEF new
  <2>4. new = [j \in 1..k |-> new[j]]
    BY <2>3
  <2>5. \A j \in 1..k : new[j] = Number(nums[j])
    <3> SUFFICES ASSUME NEW j \in 1..k PROVE new[j] = Number(nums[j])
      OBVIOUS
    <3>1. CASE j = k
      BY <2>3, <3>1 DEF v
    <3>2. CASE j # k
      <4>1. j \in 1..(k - 1)
        BY <1>1, <3>2
      <4> QED
        BY <2>1, <2>3, <4>1
    <3> QED
      BY <3>1, <3>2
  <2>6. new = [j \in 1..k |-> Number(nums[j])]
    BY <2>4, <2>5, Zenon
  <2> QED
    BY <2>6, Zenon DEF new, FirstNumbers
<1>8. diff = LastDifference(nums, k)
  <2>0. Len(w) = k - 1 /\ (w = <<>> <=> k < 2) /\ (k >= 2 => w[Len(w)] = Number(nums[k - 1]))
    <3>1. w = [j \in 1..(k - 1) |-> Number(nums[j])]
      BY Zenon DEF FirstNumbers
    <3> HIDE DEF w
    <3>2. Len(w) = k - 1
      BY <1>1, <3>1
    <3>3. k < 2 => w = <<>>
      BY <1>1, <3>1
    <3>4. w = <<>> => k < 2
      <4>1. w = <<>> => Len(w) = 0
        OBVIOUS
      <4> QED
        BY <1>1, <3>2, <4>1
    <3>5. k >= 2 => w[Len(w)] = Number(nums[k - 1])
      <4> SUFFICES ASSUME k >= 2 PROVE w[Len(w)] = Number(nums[k - 1])
        OBVIOUS
      <4>1. k - 1 \in 1..(k - 1)
        BY <1>1
      <4> QED
        BY <3>1, <3>2, <4>1
    <3> QED
      BY <3>2, <3>3, <3>4, <3>5
  <2>1. "i" \notin {"l", "L", "k", "K"} \cup DOMAIN Kind /\ "i" \notin {"g", "G"} /\ "i" \notin Floats
    BY DEF Kind, Floats
  <2> HIDE DEF w, v
  <2>2. diff = IF w = <<>> THEN 0 ELSE Wrap(v - w[Len(w)])
    BY <2>1, Zenon DEF Difference
  <2> HIDE DEF diff
  <2>3. CASE k < 2
    BY <2>0, <2>2, <2>3 DEF LastDifference
  <2>4. CASE ~(k < 2)
    <3>1. k >= 2
      BY <1>1, <2>4
    <3>2. diff = Wrap(v - Number(nums[k - 1]))
      BY <2>0, <2>2, <2>4, <3>1
    <3> QED
      BY <2>4, <3>2, Zenon DEF LastDifference, v
  <2> QED
    BY <2>3, <2>4
<1> HIDE DEF w, v, diff
<1>9. IntStep(d, t, a) = Taken(Append(w, v), at[k + 1], diff)
  BY <1>2, <1>6 DEF Taken
<1> QED
  BY <1>7, <1>8, <1>9, Zenon DEF a, TakenTo

\* The numbers that there is room for, or all that there are.
LEMMA IntsTaken ==
  ASSUME NEW S, NEW t \in Seq(S), NEW at, NEW nums, NEW x, Stands(t, at, nums, x), NEW d, Parting(d, x),
         at[Len(nums) + 1] = Len(t) + 1, NEW length \in Nat, NEW h, IntRun(d, t, at[1], length, h)
  PROVE  h[length] = TakenTo(at, nums, IF length <= Len(nums) THEN length ELSE Len(nums))
<1> DEFINE n == Len(nums)
           AsFar(k) == IF k <= n THEN k ELSE n
           Good == {k \in Nat : k <= length => h[k] = TakenTo(at, nums, AsFar(k))}
<1>0. n \in Nat
  BY Zenon DEF Stands
<1>1. h[0] = Taken(<<>>, at[1], 0) /\ \A k \in 1..length : h[k] = IntStep(d, t, h[k - 1])
  BY Zenon DEF IntRun
<1>2. 0 \in Good
  <2>1. AsFar(0) = 0
    BY <1>0
  <2>2. FirstNumbers(nums, 0) = <<>>
    BY DEF FirstNumbers
  <2>3. LastDifference(nums, 0) = 0 /\ 0 + 1 = 1
    BY DEF LastDifference
  <2>4. h[0] = TakenTo(at, nums, 0)
    BY <1>1, <2>2, <2>3, Zenon DEF TakenTo
  <2> QED
    BY <2>1, <2>4
<1>3. ASSUME NEW k \in Good PROVE k + 1 \in Good
  <2>1. k \in Nat /\ k + 1 \in Nat
    OBVIOUS
  <2> SUFFICES ASSUME k + 1 <= length PROVE h[k + 1] = TakenTo(at, nums, AsFar(k + 1))
    BY <2>1
  <2>2. k + 1 \in 1..length /\ (k + 1) - 1 = k
    BY <2>1
  <2>3. h[k + 1] = IntStep(d, t, h[k])
    BY <1>1, <2>2
  <2>4. h[k] = TakenTo(at, nums, AsFar(k))
    BY <2>1
  <2> HIDE DEF Good
  <2>5. CASE k < n
    <3> DEFINE m == k + 1
    <3>1. m \in 1..n /\ AsFar(k) = m - 1 /\ AsFar(k + 1) = m
      BY <1>0, <2>1, <2>5
    <3>2. h[k] = TakenTo(at, nums, m - 1)
      BY <2>4, <3>1
    <3> HIDE DEF m, AsFar
    <3>3. IntStep(d, t, TakenTo(at, nums, m - 1)) = TakenTo(at, nums, m)
      BY <3>1, IntTaken
    <3> QED
      BY <2>3, <3>1, <3>2, <3>3
  <2>6. CASE ~(k < n)
    <3>1. AsFar(k) = n /\ AsFar(k + 1) = n
      BY <1>0, <2>1, <2>6
    <3>2. h[k] = TakenTo(at, nums, n)
      BY <2>4, <3>1
    <3>3. Ch(t, at[n + 1]) = NUL
      BY DEF Ch
    <3> DEFINE a == TakenTo(at, nums, n)
    <3>4. a.p = at[n + 1]
      BY DEF TakenTo, Taken
    <3> HIDE DEF a
    <3>5. IntStep(d, t, a) = a
      BY <3>3, <3>4, Zenon DEF IntStep
    <3> QED
      BY <2>3, <3>1, <3>2, <3>5, Zenon DEF a
  <2> QED
    BY <2>5, <2>6
<1> HIDE DEF Good, AsFar
<1>4. length \in Good
  <2>1. Good \in SUBSET Nat
    BY DEF Good
  <2>2. Good = Nat
    BY <1>2, <1>3, <2>1, Induct
  <2> QED
    BY <2>2
<1>5. h[length] = TakenTo(at, nums, AsFar(length))
  BY <1>4 DEF Good
<1> QED
  BY <1>5, Zenon DEF AsFar, n

(* What an array got of its input *)
IsFilled(r, nums, m) == r.ret \in {"TRUE", "CONT"} /\ r.cells = FirstNumbers(nums, m)

\* An array is filled up, or gets all the numbers there are.
LEMMA InputFilled ==
  ASSUME NEW S, NEW t \in Seq(S), NEW at, NEW nums, NEW x, Stands(t, at, nums, x), NEW d, Parting(d, x),
         at[Len(nums) + 1] = Len(t) + 1, NEW length \in Nat, NEW size, NEW options, NEW saves, NEW whole, at[1] = 1
  PROVE  IsFilled(ArrayInput(<<"i">>, size, options, d, t, 1, length, saves, whole), nums,
                  IF length <= Len(nums) THEN length ELSE Len(nums))
<1> DEFINE n == Len(nums)
           m == IF length <= n THEN length ELSE n
           r == ArrayInput(<<"i">>, size, options, d, t, 1, length, saves, whole)
<1>0. n \in Nat /\ Len(t) \in Nat /\ 1 \in Nat
  BY Zenon, NumeralsTyped, LenProperties
<1>1. PICK h : IntRun(d, t, 1, length, h) /\ r = InputOf(t, length, h[length])
  BY <1>0, InputRuns
<1>2. h[length] = TakenTo(at, nums, m)
  BY <1>1, IntsTaken
<1> HIDE DEF r
<1>3. /\ r.ret = IF Len(FirstNumbers(nums, m)) = length THEN "TRUE"
                 ELSE IF Ch(t, at[m + 1]) = NUL THEN "CONT" ELSE "FAIL"
      /\ r.cells = FirstNumbers(nums, m)
  <2> HIDE DEF m
  <2> DEFINE read == TakenTo(at, nums, m)
  <2>1. read.cells = FirstNumbers(nums, m) /\ read.p = at[m + 1]
    BY DEF TakenTo, Taken
  <2>2. r = InputOf(t, length, read)
    BY <1>1, <1>2
  <2> HIDE DEF read
  <2>3. /\ r.ret = IF Len(read.cells) = length THEN "TRUE" ELSE IF Ch(t, read.p) = NUL THEN "CONT" ELSE "FAIL"
        /\ r.cells = read.cells
    BY <2>2 DEF InputOf
  <2> QED
    BY <2>1, <2>3
<1>4. Len(FirstNumbers(nums, m)) = m
  <2>1. m \in Nat
    BY <1>0
  <2> HIDE DEF m
  <2> QED
    BY <2>1 DEF FirstNumbers
<1>5. m # length => Ch(t, at[m + 1]) = NUL
  <2> SUFFICES ASSUME m # length PROVE Ch(t, at[m + 1]) = NUL
    OBVIOUS
  <2>1. m = n
    OBVIOUS
  <2>2. at[m + 1] = Len(t) + 1
    BY <2>1
  <2> HIDE DEF m
  <2>3. Len(t) + 1 \notin 1..Len(t)
    BY <1>0
  <2> QED
    BY <2>2, <2>3, Zenon DEF Ch
<1> HIDE DEF m
<1>6. r.ret \in {"TRUE", "CONT"}
  BY <1>3, <1>4, <1>5
<1> QED
  BY <1>3, <1>6, Zenon DEF IsFilled, r, m, n

(***************************************************************************)
(* The series that the defaults of an array begin.                         *)
(***************************************************************************)
Further(cells, diff) == Append(cells, Wrap((IF cells = <<>> THEN 0 ELSE cells[Len(cells)]) + diff))

\* The loop of GoOn.
LEMMA SeriesRuns ==
  ASSUME NEW read, NEW length, read.cells \in Seq(Int), read.diff \in Int, length - Len(read.cells) \in Nat
  PROVE  \E h : /\ h[0] = read.cells
                /\ \A k \in 1..(length - Len(read.cells)) : h[k] = Further(h[k - 1], read.diff)
                /\ GoOn("i", read, length) = h[length - Len(read.cells)]
<1> DEFINE n == length - Len(read.cells)
           T == Seq(Int)
           none == read.cells
           E == {0}
           seq == [k \in 1..n |-> 0]
           Following(v) == IF "i" \in Floats THEN v + read.diff ELSE Wrap(v + read.diff)
           Step(cells) == Append(cells, Following(IF cells = <<>> THEN 0 ELSE cells[Len(cells)]))
           op == [x \in T \X E |-> Step(x[1])]
           indices == DOMAIN seq
           Solves(iter) ==
             iter = [u \in SUBSET indices |-> IF u = {} THEN none ELSE Step(iter[u \ {Max(u)}])]
           fold == CHOOSE iter : Solves(iter)
<1>1. GoOn("i", read, length) = fold[indices]
  BY Zenon DEF GoOn, FoldLeft, MapThenFoldSet, Times
<1>2. n \in Nat /\ indices = 1..n /\ \A k \in 1..n : seq[k] \in E
  OBVIOUS
<1>3. ASSUME NEW cells PROVE Step(cells) = Further(cells, read.diff)
  <2>1. "i" \notin Floats
    BY DEF Floats
  <2> QED
    BY <2>1, Zenon DEF Further
<1>4. none \in T /\ \A a \in T : Step(a) \in T
  <2> SUFFICES ASSUME NEW a \in T PROVE Step(a) \in T
    OBVIOUS
  <2> DEFINE last == IF a = <<>> THEN 0 ELSE a[Len(a)]
  <2>1. last \in Int
    <3>1. a # <<>> => Len(a) \in 1..Len(a)
      OBVIOUS
    <3> QED
      BY <3>1
  <2> HIDE DEF last
  <2>2. Wrap(last + read.diff) \in Int
    <3>1. last + read.diff \in Int
      BY <2>1
    <3> QED
      BY <3>1, WrapIsAnInteger, Zenon
  <2>3. Further(a, read.diff) = Append(a, Wrap(last + read.diff))
    BY Zenon DEF Further, last
  <2>4. Append(a, Wrap(last + read.diff)) \in T
    BY <2>2
  <2> QED
    BY <1>3, <2>3, <2>4
<1> HIDE DEF n, seq, indices, T, none, E, Step
<1>6. \A a \in T, k \in E : op[<<a, k>>] = Step(a)
  OBVIOUS
<1>7. \A a \in T, k \in E : op[<<a, k>>] \in T
  BY <1>4, <1>6
<1> HIDE DEF op
<1>8. PICK g \in [SUBSET (1..n) -> T] : Folds(g, none, op, seq, n)
  BY <1>2, <1>4, <1>7, FoldExists
<1>9. Solves(g)
  <2>1. ASSUME NEW u \in SUBSET (1..n), u # {}
        PROVE  op[<<g[u \ {Max(u)}], seq[Max(u)]>>] = Step(g[u \ {Max(u)}])
    <3>1. Max(u) \in 1..n
      BY <1>2, <2>1, Largest
    <3>2. seq[Max(u)] \in E /\ g[u \ {Max(u)}] \in T
      BY <1>2, <1>8, <3>1
    <3> QED
      BY <1>6, <3>2
  <2>2. \A u \in SUBSET (1..n) :
          g[u] = IF u = {} THEN none ELSE Step(g[u \ {Max(u)}])
    BY <1>8, <2>1 DEF Folds
  <2> QED
    BY <1>2, <2>2
<1>10. Solves(fold)
  <2> HIDE DEF Solves
  <2> QED
    BY <1>9
<1> HIDE DEF fold
<1>11. fold[{}] = none
  BY <1>2, <1>10
<1>12. ASSUME NEW k \in 1..n PROVE fold[1..k] = Step(fold[1..(k - 1)])
  <2>1. 1..k \in SUBSET (1..n) /\ 1..k # {} /\ Max(1..k) = k /\ (1..k) \ {k} = 1..(k - 1)
    BY <1>2, UpTo
  <2> QED
    BY <1>2, <1>10, <2>1
<1> HIDE DEF Solves
<1> DEFINE h == [k \in 0..n |-> fold[1..k]]
<1>13. h[0] = none /\ h[n] = fold[indices]
  <2>1. 1..0 = {} /\ 0 \in 0..n /\ n \in 0..n
    BY <1>2
  <2> QED
    BY <1>2, <1>11, <2>1
<1>14. ASSUME NEW k \in 1..n PROVE h[k] = Further(h[k - 1], read.diff)
  <2>1. h[k] = Step(h[k - 1])
    BY <1>2, <1>12
  <2> QED
    BY <1>3, <2>1, Zenon
<1> HIDE DEF h
<1> QED
  BY <1>1, <1>13, <1>14, Zenon DEF n, none

(* By how much the last two numbers of a series differ, and its members *)
SeriesStep(nums) == IF Len(nums) = 1 THEN 0 ELSE Number(nums[Len(nums)]) - Number(nums[Len(nums) - 1])

Member(nums, k) ==
  IF k <= Len(nums) THEN Number(nums[k]) ELSE Wrap(Number(nums[Len(nums)]) + (k - Len(nums)) * SeriesStep(nums))

Series(nums, length) == [k \in 1..length |-> Member(nums, k)]

\* What is added to a number may wrap before or after.
LEMMA WrapsPlus ==
  ASSUME NEW a \in Int, NEW b \in Int, Wrap(a) = Wrap(b), NEW d \in Int
  PROVE  Wrap(a + d) = Wrap(b + d)
<1> DEFINE one == 1
<1>1. one \in Int /\ one * a = a /\ one * b = b
  OBVIOUS
<1> HIDE DEF one
<1>2. Wrap(one * a + d) = Wrap(one * b + d)
  BY <1>1, WrapsOnTheWay
<1> QED
  BY <1>1, <1>2

\* A series goes on from its last member.
LEMMA NextMember ==
  ASSUME NEW nums, Len(nums) \in Nat \ {0}, \A k \in 1..Len(nums) : nums[k] \in Seq(Dec),
         NEW k \in Nat, k >= Len(nums)
  PROVE  Member(nums, k) \in Int /\ Wrap(Member(nums, k) + LastDifference(nums, Len(nums))) = Member(nums, k + 1)
<1> DEFINE n == Len(nums)
           g == Number(nums[n])
           d == SeriesStep(nums)
           e == LastDifference(nums, n)
           j == k - n
           b == g + j * d
<1>0. n \in Nat \ {0} /\ n \in 1..n /\ j \in Nat /\ j = k - n /\ k + 1 > n /\ (k + 1) - n = j + 1
  OBVIOUS
<1>1. g \in Int /\ Wrap(g) = g
  BY <1>0, NumberTyped
<1>2. d \in Int /\ (e = Wrap(d) \/ (e = 0 /\ d = 0))
  <2>1. CASE n = 1
    BY <2>1 DEF SeriesStep, LastDifference
  <2>2. CASE n # 1
    <3>1. n - 1 \in 1..n /\ ~(n < 2)
      <4>1. n \in Nat \ {0}
        BY <1>0
      <4> HIDE DEF n
      <4> QED
        BY <2>2, <4>1
    <3>2. Number(nums[n - 1]) \in Int
      BY <3>1, NumberTyped
    <3>3. d = g - Number(nums[n - 1])
      BY <2>2 DEF SeriesStep
    <3>4. e = Wrap(g - Number(nums[n - 1]))
      BY <3>1 DEF LastDifference
    <3> QED
      BY <1>1, <3>2, <3>3, <3>4
  <2> QED
    BY <2>1, <2>2
<1> HIDE DEF n, g, d, e
<1>3. b \in Int /\ b + d = g + (j + 1) * d
  <2>1. j \in Int /\ d \in Int /\ g \in Int
    BY <1>0, <1>1, <1>2
  <2> HIDE DEF j
  <2>2. j * d \in Int /\ (j + 1) * d = j * d + d
    BY <2>1
  <2> QED
    BY <2>1, <2>2
<1>4. Member(nums, k) = Wrap(b)
  <2>1. CASE k = n
    <3>1. j = 0
      BY <1>0, <2>1
    <3>2. 0 * d = 0 /\ g + 0 = g
      BY <1>1, <1>2
    <3>3. b = g
      BY <3>1, <3>2
    <3>4. Member(nums, k) = g
      BY <1>0, <2>1 DEF Member, n, g
    <3> QED
      BY <1>1, <3>3, <3>4
  <2>2. CASE k # n
    <3>1. ~(k <= n)
      BY <1>0, <2>2
    <3> QED
      BY <3>1, Zenon DEF Member, n, g, d
  <2> QED
    BY <2>1, <2>2
<1>5. Member(nums, k + 1) = Wrap(b + d)
  <2>1. ~(k + 1 <= n)
    BY <1>0
  <2>2. Member(nums, k + 1) = Wrap(g + ((k + 1) - n) * d)
    BY <2>1, Zenon DEF Member, n, g, d
  <2> QED
    BY <1>0, <1>3, <2>2
<1> HIDE DEF b
<1>6. Wrap(b) \in Int /\ Wrap(d) \in Int
  BY <1>2, <1>3, WrapIsAnInteger
<1>7. Wrap(Wrap(b) + e) = Wrap(b + d)
  <2> DEFINE u == Wrap(b)
             v == Wrap(d)
  <2>0. b \in Int /\ d \in Int
    BY <1>2, <1>3
  <2>1. u \in Int /\ v \in Int /\ Wrap(u) = Wrap(b) /\ Wrap(v) = Wrap(d) /\ 1 \in Int
    BY <1>6, <2>0, WrapTwice
  <2> HIDE DEF u, v
  <2>2. CASE e = v
    <3>1. Wrap(u + v) = Wrap(b + v)
      BY <2>0, <2>1, WrapsPlus
    <3>2. Wrap(v + b) = Wrap(d + b)
      BY <2>0, <2>1, WrapsPlus
    <3>3. v + b = b + v /\ d + b = b + d
      BY <2>0, <2>1
    <3> QED
      BY <2>2, <3>1, <3>2, <3>3 DEF u
  <2>3. CASE e = 0 /\ d = 0
    <3>1. u + 0 = u /\ b + 0 = b
      BY <2>0, <2>1
    <3> QED
      BY <2>1, <2>3, <3>1 DEF u
  <2> QED
    BY <1>2, <2>2, <2>3 DEF v
<1> QED
  BY <1>4, <1>5, <1>6, <1>7 DEF e, n

\* The members of a series are numbers.
LEMMA SeriesTyped ==
  ASSUME NEW nums, Len(nums) \in Nat \ {0}, \A k \in 1..Len(nums) : nums[k] \in Seq(Dec), NEW m \in Nat
  PROVE  /\ Series(nums, m) \in Seq(Int) /\ Len(Series(nums, m)) = m
         /\ \A k \in 1..m : Series(nums, m)[k] = Member(nums, k)
<1>1. ASSUME NEW k \in 1..m PROVE Member(nums, k) \in Int
  <2>0. k \in Nat /\ k >= 1
    OBVIOUS
  <2>1. CASE k <= Len(nums)
    <3>1. k \in 1..Len(nums)
      BY <2>0, <2>1
    <3>2. Number(nums[k]) \in Int
      BY <3>1, NumberTyped
    <3> QED
      BY <2>1, <3>2, Zenon DEF Member
  <2>2. CASE ~(k <= Len(nums))
    <3>1. k >= Len(nums)
      BY <2>0, <2>2
    <3> QED
      BY <2>0, <3>1, NextMember
  <2> QED
    BY <2>1, <2>2
<1> QED
  BY <1>1 DEF Series

\* One member more.
LEMMA SeriesFurther ==
  ASSUME NEW nums, Len(nums) \in Nat \ {0}, \A k \in 1..Len(nums) : nums[k] \in Seq(Dec),
         NEW m \in Nat, m >= Len(nums)
  PROVE  Further(Series(nums, m), LastDifference(nums, Len(nums))) = Series(nums, m + 1)
<1> DEFINE n == Len(nums)
           cells == Series(nums, m)
           next == Member(nums, m + 1)
           diff == LastDifference(nums, n)
<1>1. cells \in Seq(Int) /\ Len(cells) = m /\ \A k \in 1..m : cells[k] = Member(nums, k)
  BY SeriesTyped
<1>2. m \in 1..m /\ m # 0
  OBVIOUS
<1>3. cells # <<>> /\ cells[Len(cells)] = Member(nums, m)
  <2>1. cells[m] = Member(nums, m)
    BY <1>1, <1>2
  <2> HIDE DEF cells
  <2>2. cells # <<>>
    BY <1>1, <1>2
  <2> QED
    BY <1>1, <2>1, <2>2
<1>4. Further(cells, diff) = Append(cells, next)
  <2>1. Wrap(Member(nums, m) + diff) = next
    BY NextMember
  <2> HIDE DEF cells, next, diff
  <2> QED
    BY <1>3, <2>1 DEF Further
<1>5. next \in Int /\ Series(nums, m + 1) \in Seq(Int) /\ Len(Series(nums, m + 1)) = m + 1
      /\ \A k \in 1..m + 1 : Series(nums, m + 1)[k] = Member(nums, k)
  <2>1. m + 1 \in Nat /\ m + 1 \in 1..m + 1 /\ m + 1 >= Len(nums)
    OBVIOUS
  <2>2. next \in Int
    BY <2>1, NextMember
  <2> QED
    BY <2>1, <2>2, SeriesTyped
<1> DEFINE new == Append(cells, next)
           long == Series(nums, m + 1)
<1>6. new = long
  <2> HIDE DEF cells, next, long
  <2>1. new \in Seq(Int) /\ Len(new) = m + 1 /\ new[m + 1] = next /\ \A k \in 1..m : new[k] = cells[k]
    BY <1>1, <1>5
  <2> HIDE DEF new
  <2>2. long \in Seq(Int) /\ Len(long) = m + 1 /\ \A k \in 1..m + 1 : long[k] = Member(nums, k)
    BY <1>5 DEF long
  <2>3. ASSUME NEW k \in 1..m + 1 PROVE new[k] = long[k]
    <3>1. CASE k = m + 1
      BY <2>1, <2>2, <3>1 DEF next
    <3>2. CASE k # m + 1
      <4>1. k \in 1..m
        BY <3>2
      <4> QED
        BY <1>1, <2>1, <2>2, <4>1
    <3> QED
      BY <3>1, <3>2
  <2> QED
    BY <2>1, <2>2, <2>3
<1> QED
  BY <1>4, <1>6

\* The defaults of an array are the numbers given, and then the series.
LEMMA DefaultsFilled ==
  ASSUME NEW S, NEW t \in Seq(S), NEW at, NEW nums, NEW x, Stands(t, at, nums, x), Parting(Closers, x),
         at[Len(nums) + 1] = Len(t) + 1, NEW length \in Nat, NEW size, NEW options, at[1] = 1, Len(nums) # 0
  PROVE  ArrayDefaults(<<"i">>, size, options, t, length) = Series(nums, length)
<1> DEFINE n == Len(nums)
           m == IF length <= n THEN length ELSE n
           read == TakenTo(at, nums, m)
<1>0. n \in Nat \ {0} /\ Len(t) \in Nat /\ \A k \in 1..n : nums[k] \in Seq(Dec)
  <2>1. n \in Nat /\ \A k \in 1..n : Numeral(nums[k])
    BY Zenon DEF Stands, NumeralAt
  <2>2. \A k \in 1..n : nums[k] \in Seq(Dec)
    BY <2>1, NumeralHas
  <2> QED
    BY <2>1, <2>2, LenProperties
<1>1. PICK h : IntRun(Closers, t, 1, length, h) /\ ArrayDefaults(<<"i">>, size, options, t, length) = DefaultsOf(t, length, h[length])
  BY <1>0, DefaultsRun
<1>2. h[length] = read
  <2>1. IntRun(Closers, t, at[1], length, h)
    BY <1>1
  <2> QED
    BY <2>1, IntsTaken
<1>3. read.cells = FirstNumbers(nums, m) /\ read.p = at[m + 1] /\ read.diff = LastDifference(nums, m)
  BY DEF TakenTo, Taken
<1>4. m \in Nat /\ m <= n /\ m <= length
  BY <1>0
<1> HIDE DEF read, m
<1>5. FirstNumbers(nums, m) = Series(nums, m)
  <2>1. ASSUME NEW k \in 1..m PROVE Number(nums[k]) = Member(nums, k)
    <3>1. k <= n
      BY <1>0, <1>4
    <3> QED
      BY <3>1, Zenon DEF Member
  <2>2. Series(nums, m) = [k \in 1..m |-> Member(nums, k)] /\ FirstNumbers(nums, m) = [k \in 1..m |-> Number(nums[k])]
    BY Zenon DEF Series, FirstNumbers
  <2> QED
    BY <2>1, <2>2
<1>6. CASE length < n
  <2>1. m = length
    BY <1>0, <1>6 DEF m
  <2> DEFINE k == m + 1
  <2>2. k \in 1..n
    BY <1>0, <1>4, <1>6, <2>1
  <2> HIDE DEF k
  <2>3. Ch(t, at[k]) # NUL
    <3>1. IsTaken(Closers, t, at, nums, k)
      BY <2>2, NumeralTaken
    <3> QED
      BY <3>1, Zenon DEF IsTaken
  <2>4. Ch(t, read.p) # NUL
    BY <1>3, <2>3 DEF k
  <2> QED
    BY <1>1, <1>2, <1>3, <1>5, <2>1, <2>4 DEF DefaultsOf
<1>7. CASE ~(length < n)
  <2>1. m = n /\ length - n \in Nat
    BY <1>0, <1>7 DEF m
  <2>2. Ch(t, read.p) = NUL
    <3>1. read.p = Len(t) + 1
      BY <1>3, <2>1
    <3>2. Len(t) + 1 \notin 1..Len(t)
      BY <1>0
    <3> QED
      BY <3>1, <3>2, Zenon DEF Ch
  <2>3. ArrayDefaults(<<"i">>, size, options, t, length) = GoOn("i", read, length)
    BY <1>1, <1>2, <2>2, Zenon DEF DefaultsOf
  <2>4. read.cells = Series(nums, n) /\ read.cells \in Seq(Int) /\ Len(read.cells) = n
    BY <1>0, <1>3, <1>5, <2>1, SeriesTyped
  <2>5. read.diff = LastDifference(nums, n) /\ read.diff \in Int
    <3>1. \A j \in Int : Wrap(j) \in Int
      BY WrapIsAnInteger
    <3>2. \A k \in 1..n : Number(nums[k]) \in Int
      BY <1>0, NumberTyped
    <3>3. LastDifference(nums, n) \in Int
      <4>1. CASE n < 2
        BY <4>1 DEF LastDifference
      <4>2. CASE ~(n < 2)
        <5>0. n \in Nat \ {0}
          BY <1>0
        <5> HIDE DEF n
        <5>1. n \in 1..n /\ n - 1 \in 1..n
          BY <4>2, <5>0
        <5>2. Number(nums[n]) - Number(nums[n - 1]) \in Int
          BY <3>2, <5>1
        <5> QED
          BY <3>1, <4>2, <5>2, Zenon DEF LastDifference
      <4> QED
        BY <4>1, <4>2
    <3> QED
      BY <1>3, <2>1, <3>3
  <2> DEFINE d == length - n
             diff == LastDifference(nums, n)
  <2>6. PICK g : g[0] = Series(nums, n) /\ (\A k \in 1..d : g[k] = Further(g[k - 1], diff))
                 /\ GoOn("i", read, length) = g[d]
    <3>1. length - Len(read.cells) \in Nat
      BY <2>1, <2>4
    <3>2. \E g : /\ g[0] = read.cells
                 /\ \A k \in 1..(length - Len(read.cells)) : g[k] = Further(g[k - 1], read.diff)
                 /\ GoOn("i", read, length) = g[length - Len(read.cells)]
      BY <2>4, <2>5, <3>1, SeriesRuns
    <3>3. read.cells = Series(nums, n) /\ Len(read.cells) = n /\ read.diff = diff
      BY <2>4, <2>5
    <3> HIDE DEF diff
    <3> QED
      BY <3>2, <3>3, Zenon
  <2> DEFINE Good == {k \in Nat : k <= d => g[k] = Series(nums, n + k)}
  <2>7. 0 \in Good
    <3>1. n + 0 = n
      BY <1>0
    <3> QED
      BY <2>6, <3>1
  <2>8. ASSUME NEW k \in Good PROVE k + 1 \in Good
    <3>1. k \in Nat /\ k + 1 \in Nat
      OBVIOUS
    <3> SUFFICES ASSUME k + 1 <= d PROVE g[k + 1] = Series(nums, n + (k + 1))
      BY <3>1
    <3>2. k + 1 \in 1..d /\ (k + 1) - 1 = k /\ k <= d
      BY <2>1, <3>1
    <3>3. g[k] = Series(nums, n + k)
      BY <3>2
    <3>4. g[k + 1] = Further(Series(nums, n + k), diff)
      BY <2>6, <3>2, <3>3
    <3>5. n + k \in Nat /\ n + k >= n /\ (n + k) + 1 = n + (k + 1)
      BY <1>0, <3>1
    <3>6. Further(Series(nums, n + k), diff) = Series(nums, (n + k) + 1)
      BY <1>0, <3>5, SeriesFurther
    <3> QED
      BY <3>4, <3>5, <3>6
  <2> HIDE DEF Good
  <2>9. d \in Good
    <3>1. Good \in SUBSET Nat
      BY DEF Good
    <3>2. Good = Nat
      BY <2>7, <2>8, <3>1, Induct
    <3> QED
      BY <2>1, <3>2
  <2>10. g[d] = Series(nums, n + d) /\ n + d = length
    BY <1>0, <2>1, <2>9 DEF Good
  <2> QED
    BY <2>3, <2>6, <2>10
<1> QED
  BY <1>0, <1>6, <1>7

(***************************************************************************)
(* Calls with a group: an array or an enumeration.                         *)
(***************************************************************************)
Space == " "
Comma == ","
Bracket == ")"

\* What parts the values, and the defaults.
LEMMA GroupsPart ==
  /\ Parting(Spaces, Space) /\ Parting(Closers, Comma)
  /\ Comma \notin Backed /\ Comma \notin {"<", ">", "\\", NUL} /\ Bracket # NUL
<1>1. Dec = {"0", "1", "2", "3", "4", "5", "6", "7", "8", "9"}
  BY DEF Dec, Oct, Bin
<1>2. Space \notin Dec /\ Space # NUL /\ Space \in Spaces /\ NUL \notin Spaces /\ \A c \in Dec : c \notin Spaces
  BY <1>1, Zenon DEF Space, Spaces, NUL
<1>3. Comma \notin Dec /\ Comma # NUL /\ Comma \in Closers /\ NUL \notin Closers /\ \A c \in Dec : c \notin Closers
  BY <1>1, Zenon DEF Comma, Closers, NUL
<1>4. Comma \notin Backed /\ Comma \notin {"<", ">", "\\", NUL} /\ Bracket # NUL
  BY Zenon DEF Comma, Bracket, NUL, Backed
<1> QED
  BY <1>2, <1>3, <1>4, Zenon DEF Parting

(* The values are the input, and end with it *)
ValuesStand(c) ==
  /\ Stands(c.text, c.valuesAt, c.valueNumerals, Space)
  /\ c.valuesAt[1] = 1 /\ c.valuesAt[Len(c.valueNumerals) + 1] = Len(c.text) + 1
  /\ Len(c.values) = Len(c.valueNumerals) /\ c.values = Numbers(c.valueNumerals)

(* The defaults are in the format, from p on up to a bracket *)
DefaultsStand(c, p) ==
  /\ Stands(c.format, c.givenAt, c.givenNumerals, Comma)
  /\ Len(c.givenNumerals) # 0
  /\ c.givenAt[1] = p /\ Ch(c.format, c.givenAt[Len(c.givenNumerals) + 1]) = Bracket
  /\ Len(c.given) = Len(c.givenNumerals) /\ c.given = Numbers(c.givenNumerals)

\* There are as many numbers as numerals.
LEMMA NumbersLength ==
  ASSUME NEW nums, Len(nums) \in Nat
  PROVE  Len(Numbers(nums)) = Len(nums) /\ (Numbers(nums) = <<>> <=> Len(nums) = 0)
<1> DEFINE n == Len(nums)
           u == Numbers(nums)
<1>1. u = [k \in 1..n |-> Number(nums[k])]
  BY Zenon DEF Numbers
<1> HIDE DEF u
<1>2. Len(u) = n
  <2> HIDE DEF n
  <2>1. n \in Nat
    BY DEF n
  <2> QED
    BY <1>1, <2>1
<1>3. n = 0 => u = <<>>
  BY <1>1
<1>4. u = <<>> => n = 0
  <2>1. Len(<<>>) = 0
    OBVIOUS
  <2> QED
    BY <1>2, <2>1, Zenon
<1> QED
  BY <1>2, <1>3, <1>4 DEF u

\* What is given to a call with a group.
LEMMA GivenStand ==
  ASSUME NEW c, NEW p \in Nat \ {0}, Given(c, p)
  PROVE  ValuesStand(c) /\ DefaultsStand(c, p) /\ c.params = 1
<1>1. /\ c.params = 1
      /\ AreNumerals(c.valueNumerals) /\ c.values = Numbers(c.valueNumerals)
      /\ Parts(c.text, c.valuesAt, Listed(c.valueNumerals, Space))
      /\ c.valuesAt[1] = 1 /\ c.valuesAt[Len(c.values) + 1] = Len(c.text) + 1
      /\ AreNumerals(c.givenNumerals) /\ c.given = Numbers(c.givenNumerals) /\ c.given # <<>>
      /\ Parts(c.format, c.givenAt, Listed(c.givenNumerals, Comma))
      /\ c.givenAt[1] = p /\ Ch(c.format, c.givenAt[Len(c.given) + 1]) = Bracket
  BY Zenon DEF Given, Space, Comma, Bracket
<1>2. 1 \in Nat \ {0}
  OBVIOUS
<1>3. Stands(c.text, c.valuesAt, c.valueNumerals, Space)
  <2>1. c.valuesAt[1] \in Nat \ {0}
    BY <1>1, <1>2, Zenon
  <2> QED
    BY <1>1, <2>1, NumeralsStand, Zenon
<1>4. Stands(c.format, c.givenAt, c.givenNumerals, Comma)
  <2>1. c.givenAt[1] \in Nat \ {0}
    BY <1>1, Zenon
  <2> QED
    BY <1>1, <2>1, NumeralsStand, Zenon
<1>5. Len(c.valueNumerals) \in Nat /\ Len(c.givenNumerals) \in Nat
  BY <1>3, <1>4, Zenon DEF Stands
<1>6. Len(c.values) = Len(c.valueNumerals)
  BY <1>1, <1>5, NumbersLength, Zenon
<1>7. Len(c.given) = Len(c.givenNumerals) /\ Len(c.givenNumerals) # 0
  BY <1>1, <1>5, NumbersLength, Zenon
<1>8. ValuesStand(c)
  BY <1>1, <1>3, <1>6, Zenon DEF ValuesStand
<1>9. DefaultsStand(c, p)
  BY <1>1, <1>4, <1>7, Zenon DEF DefaultsStand
<1> QED
  BY <1>1, <1>8, <1>9, Zenon

(* The input begins with the first value, or is empty *)
InputIs(c) ==
  /\ Corrected(c.text) = c.text /\ SkipWhitespace(c.text, 1) = 1
  /\ Ch(c.text, 1) = NUL <=> Len(c.valueNumerals) = 0
  /\ \E S : c.text \in Seq(S)
  /\ \E S : c.format \in Seq(S)

LEMMA ValuesInput ==
  ASSUME NEW c \in Calls, ValuesStand(c)
  PROVE  InputIs(c)
<1> DEFINE t == c.text
           n == Len(c.valueNumerals)
           at == c.valuesAt
<1>1. t \in Seq(ToSet(t)) /\ c.format \in Seq(ToSet(c.format)) /\ Len(t) \in Nat
  <2>1. t \in Seq(ToSet(t)) /\ c.format \in Seq(ToSet(c.format))
    BY CallsAssumption
  <2> QED
    BY <2>1, LenProperties
<1>2. Stands(t, at, c.valueNumerals, Space) /\ at[1] = 1 /\ at[n + 1] = Len(t) + 1 /\ n \in Nat
  BY Zenon DEF ValuesStand, Stands
<1>3. n = 0 => Len(t) = 0
  <2> SUFFICES ASSUME n = 0 PROVE Len(t) = 0
    OBVIOUS
  <2>1. at[0 + 1] = Len(t) + 1 /\ 0 + 1 = 1
    BY <1>2
  <2> QED
    BY <1>1, <1>2, <2>1
<1>4. n # 0 => Ch(t, 1) \in Dec
  BY <1>2, NumeralsGoUp
<1> DEFINE first == 1
<1>5. first \in Nat \ {0} /\ (Ch(t, first) \in Dec \/ first = Len(t) + 1)
  BY <1>1, <1>3, <1>4
<1> HIDE DEF first
<1>6. SkipWhitespace(t, first) = first
  BY <1>1, <1>5, GroupsPart, NothingThere
<1>7. "SOH" \notin Dec /\ NUL \notin Dec
  BY DEF Dec, Oct, Bin, NUL
<1>8. Ch(t, 1) = NUL <=> n = 0
  <2>1. n = 0 => Ch(t, 1) = NUL
    <3>1. Len(t) = 0 => 1 \notin 1..Len(t)
      OBVIOUS
    <3> QED
      BY <1>3, <3>1, Zenon DEF Ch
  <2> QED
    BY <1>4, <1>7, <2>1
<1>9. t # <<"SOH">>
  <2> SUFFICES ASSUME t = <<"SOH">> PROVE FALSE
    OBVIOUS
  <2>1. Len(t) = 1 /\ t[1] = "SOH" /\ 1 \in 1..Len(t)
    OBVIOUS
  <2>2. Ch(t, 1) = "SOH"
    BY <2>1, Zenon DEF Ch
  <2> HIDE DEF t
  <2> QED
    BY <1>3, <1>4, <1>7, <2>1, <2>2
<1>10. Corrected(t) = t
  BY <1>9, Zenon DEF Corrected
<1> QED
  BY <1>1, <1>6, <1>8, <1>10, Zenon DEF InputIs, first

HasArray(c) == c \in Calls /\ c.kind = "array"

(* d, between x and z *)
Between(u, x, d, z) ==
  Len(u) = Len(d) + 2 /\ u[1] = x /\ u[Len(d) + 2] = z /\ \A j \in 1..Len(d) : u[j + 1] = d[j]

\* What brackets stand around.
LEMMA InOneBracket ==
  ASSUME NEW S, NEW d \in Seq(S), NEW x, NEW z
  PROVE  Between(<<x>> \o d \o <<z>>, x, d, z)
<1> DEFINE n == Len(d)
           T == S \cup {x, z}
           b == <<x>>
           e == <<z>>
           v == b \o d
           u == v \o e
<1>1. n \in Nat /\ Len(d) = n /\ d \in Seq(T) /\ b \in Seq(T) /\ e \in Seq(T) /\ Len(b) = 1 /\ Len(e) = 1 /\ b[1] = x /\ e[1] = z
  OBVIOUS
<1> HIDE DEF T, b, e, n
<1>2. v \in Seq(T) /\ Joined(v, b, d)
  BY <1>1, Joining, Zenon
<1> HIDE DEF v
<1>3. Joined(u, v, e)
  BY <1>1, <1>2, Joining, Zenon
<1> HIDE DEF u
<1>4. Len(v) = n + 1 /\ v[1] = x /\ \A j \in 1..n : v[1 + j] = d[j]
  BY <1>1, <1>2 DEF Joined
<1>5. Len(u) = n + 2 /\ u[1] = x /\ u[n + 2] = z /\ \A j \in 1..n : u[j + 1] = d[j]
  <2>1. /\ Len(u) = n + 2 /\ (\A i \in 1..n + 1 : u[i] = v[i]) /\ u[(n + 1) + 1] = z
    BY <1>1, <1>3, <1>4 DEF Joined
  <2>2. /\ 1 \in 1..n + 1 /\ (n + 1) + 1 = n + 2
        /\ \A j \in 1..n : j + 1 \in 1..n + 1 /\ 1 + j = j + 1
    BY <1>1
  <2> QED
    BY <1>4, <2>1, <2>2
<1>6. u = <<x>> \o d \o <<z>>
  BY DEF u, v, b, e
<1> QED
  BY <1>5, <1>6 DEF n, Between

(* Where the defaults of a group end *)
Close(c) == c.givenAt[Len(c.givenNumerals) + 1]

(* What the parts of the format of an array are read as *)
ArrayFormat(c) ==
  /\ Ch(c.format, 1) = "A"
  /\ GetMultiType(c.format, 2) = [ok |-> TRUE, v |-> <<"i">>, p |-> 5]
  /\ IsCut(Defaults(c.format, 5), c.format, c.givenAt, c.givenNumerals)
  /\ IsRead(GetLength(c.format, Close(c) + 1, TRUE), c.length, Len(c.format) + 1)

\* What a call with an array is.
LEMMA ArrayIs ==
  ASSUME NEW c, HasArray(c)
  PROVE  /\ ValuesStand(c) /\ DefaultsStand(c, 6) /\ c.params = 1 /\ InputIs(c) /\ c.length \in Nat \ {0}
         /\ ArrayFormat(c)
<1> DEFINE t == c.format
           d == c.digits
           close == Close(c)
<1>1. /\ c \in Calls /\ Within(t, 1, <<"A", "<", "i", ">", "(">>) /\ Given(c, 6)
      /\ Numeral(d) /\ c.length = Number(d) /\ c.length > 0
      /\ Within(t, c.givenAt[Len(c.given) + 1] + 1, <<"[">> \o d \o <<"]">>)
      /\ Len(t) = c.givenAt[Len(c.given) + 1] + Len(d) + 2
  BY ArraysAssumption, Zenon DEF HasArray
<1>2. ValuesStand(c) /\ DefaultsStand(c, 6) /\ c.params = 1
  <2>1. 6 \in Nat \ {0}
    OBVIOUS
  <2> QED
    BY <1>1, <2>1, GivenStand, Zenon
<1>3. InputIs(c)
  BY <1>1, <1>2, ValuesInput, Zenon
<1>4. d \in Seq(Dec) /\ Len(d) \in Nat /\ c.length \in Nat \ {0}
  <2>1. d \in Seq(Dec) /\ Len(d) \in Nat
    BY <1>1, NumeralHas
  <2>2. Number(d) \in Int
    BY <2>1, NumberTyped
  <2> QED
    BY <1>1, <2>1, <2>2
<1>5. /\ Stands(t, c.givenAt, c.givenNumerals, Comma) /\ Len(c.givenNumerals) # 0 /\ c.givenAt[1] = 6
      /\ Ch(t, close) = Bracket /\ Len(c.given) = Len(c.givenNumerals)
  BY <1>2, Zenon DEF DefaultsStand, Close
<1>6. PICK S : t \in Seq(S)
  BY <1>3, Zenon DEF InputIs
<1>7. Len(c.givenNumerals) \in Nat /\ close \in Nat /\ close > 6
  <2>1. Len(c.givenNumerals) \in Nat
    BY <1>5 DEF Stands
  <2>2. /\ \A k \in 1..Len(c.givenNumerals) + 1 : c.givenAt[k] \in Nat \ {0}
        /\ c.givenAt[1] < c.givenAt[Len(c.givenNumerals) + 1]
    BY <1>5, NumeralsGoUp
  <2>3. Len(c.givenNumerals) + 1 \in 1..Len(c.givenNumerals) + 1
    BY <2>1
  <2> QED
    BY <1>5, <2>1, <2>2, <2>3 DEF Close
<1>8. Within(t, close + 1, <<"[">> \o d \o <<"]">>) /\ Len(t) = close + Len(d) + 2
  <2>1. c.givenAt[Len(c.given) + 1] = close
    BY <1>5 DEF Close
  <2> QED
    BY <1>1, <2>1
<1>9. Ch(t, 1) = "A" /\ Ch(t, 2) = "<" /\ Ch(t, 3) = "i" /\ Ch(t, 4) = ">" /\ Ch(t, 5) = "("
  <2>1. \A j \in 1..5 : Ch(t, 1 + j - 1) = <<"A", "<", "i", ">", "(">>[j]
    BY <1>1 DEF Within
  <2> QED
    BY <2>1
<1>10. GetMultiType(t, 2) = [ok |-> TRUE, v |-> <<"i">>, p |-> 5]
  <2> DEFINE p == 2
             e == 4
  <2>1. Len(t) \in Nat /\ p \in 1..Len(t) /\ e \in (p + 1)..Len(t)
    BY <1>4, <1>7, <1>8
  <2>2. \A q \in (p + 1)..(e - 1) : Ch(t, q) \notin {"<", ">", "\\", NUL}
    <3>1. \A q \in (p + 1)..(e - 1) : q = 3
      OBVIOUS
    <3> QED
      BY <1>9, <3>1 DEF NUL
  <2>3. Ch(t, p) = "<" /\ Ch(t, e) = ">"
    BY <1>9
  <2>4. p + 1 = 3 /\ e - 1 = 3 /\ e + 1 = 5 /\ p = 2
    OBVIOUS
  <2>5. SubSeq(t, 3, 3) = <<"i">>
    <3>1. t \in Seq(S) /\ 3 \in 1..Len(t)
      BY <1>6, <2>1
    <3>2. t[3] = "i"
      BY <1>9, <3>1 DEF Ch
    <3>3. SubSeq(t, 3, 3) = [j \in 1..1 |-> t[3 + j - 1]]
      BY <3>1
    <3>4. SubSeq(t, 3, 3) = [j \in 1..1 |-> "i"]
      BY <3>2, <3>3
    <3>5. <<"i">> = [j \in 1..1 |-> "i"]
      OBVIOUS
    <3> QED
      BY <3>4, <3>5, Zenon
  <2> HIDE DEF p, e
  <2>6. GetMultiType(t, p) = [ok |-> TRUE, v |-> SubSeq(t, p + 1, e - 1), p |-> e + 1]
    BY <2>1, <2>2, <2>3, TypeRead
  <2> QED
    BY <2>4, <2>5, <2>6
<1>11. IsCut(Defaults(t, 5), t, c.givenAt, c.givenNumerals)
  <2> DEFINE p == 5
  <2>1. p \in Nat \ {0} /\ Ch(t, p) = "(" /\ c.givenAt[1] = p + 1
    BY <1>5, <1>9
  <2>2. Ch(t, c.givenAt[Len(c.givenNumerals) + 1]) = ")"
    BY <1>5, Zenon DEF Bracket, Close
  <2>3. Comma \notin Backed
    BY GroupsPart
  <2> HIDE DEF p
  <2>4. IsCut(Defaults(t, p), t, c.givenAt, c.givenNumerals)
    BY <1>5, <1>6, <2>1, <2>2, <2>3, DefaultsRead, Zenon
  <2> QED
    BY <2>4, Zenon DEF p
<1>12. IsRead(GetLength(t, close + 1, TRUE), c.length, Len(t) + 1)
  <2> DEFINE u == <<"[">> \o d \o <<"]">>
             p == close + 1
             n == Len(d)
  <2>1. Len(u) = n + 2 /\ u[1] = "[" /\ u[n + 2] = "]" /\ \A j \in 1..n : u[j + 1] = d[j]
    <3>1. Between(u, "[", d, "]")
      BY <1>4, InOneBracket, Zenon
    <3> QED
      BY <3>1, Zenon DEF Between
  <2>2. \A j \in 1..Len(u) : Ch(t, p + j - 1) = u[j]
    BY <1>8 DEF Within
  <2>3. n \in Nat /\ p \in Nat \ {0} /\ Len(t) = p + n + 1
    <3>1. n \in Nat /\ close \in Nat /\ Len(t) = close + n + 2
      BY <1>4, <1>7, <1>8
    <3> HIDE DEF n, close
    <3> QED
      BY <3>1
  <2> HIDE DEF u, p, n
  <2>4. Ch(t, p) = "["
    <3>1. 1 \in 1..Len(u) /\ p + 1 - 1 = p
      BY <2>1, <2>3
    <3> QED
      BY <2>1, <2>2, <3>1
  <2>5. Ch(t, p + 1 + n) = "]"
    <3>1. n + 2 \in 1..Len(u) /\ p + (n + 2) - 1 = p + 1 + n
      BY <2>1, <2>3
    <3> QED
      BY <2>1, <2>2, <3>1
  <2>6. Within(t, p + 1, d)
    <3>1. ASSUME NEW j \in 1..n PROVE Ch(t, p + 1 + j - 1) = d[j]
      <4>1. j + 1 \in 1..Len(u) /\ p + (j + 1) - 1 = p + 1 + j - 1
        BY <2>1, <2>3
      <4> QED
        BY <2>1, <2>2, <4>1
    <3> QED
      BY <3>1 DEF Within, n
  <2>7. IsRead(GetLength(t, p, TRUE), Number(d), p + n + 2)
    <3>1. Number(d) \in Nat \ {0}
      BY <1>1, <1>4
    <3>2. Ch(t, p + 1 + Len(d)) = "]"
      BY <2>5 DEF n
    <3>3. IsRead(GetLength(t, p, TRUE), Number(d), p + Len(d) + 2)
      BY <1>1, <1>6, <2>3, <2>4, <2>6, <3>1, <3>2, LengthRead
    <3> QED
      BY <3>3 DEF n
  <2>8. p + n + 2 = Len(t) + 1
    BY <2>3
  <2> QED
    BY <1>1, <2>7, <2>8 DEF p
<1> HIDE DEF close
<1>13. ArrayFormat(c)
  BY <1>9, <1>10, <1>11, <1>12, Zenon DEF ArrayFormat, close
<1> QED
  BY <1>2, <1>3, <1>4, <1>13, Zenon

(* What an array should have *)
ArrayCell(c, k) ==
  LET n == Len(c.given)
      step == IF n = 1 THEN 0 ELSE c.given[n] - c.given[n - 1]
  IN  IF k <= Len(c.values) THEN c.values[k]
      ELSE IF k <= n THEN c.given[k]
      ELSE Wrap(c.given[n] + (k - n) * step)

ArrayContent(c) == [k \in 1..c.length |-> ArrayCell(c, k)]

\* A cell is a value, or a member of the series.
LEMMA ArrayCellIs ==
  ASSUME NEW c, HasArray(c), NEW k \in Nat \ {0}
  PROVE  ArrayCell(c, k) = IF k <= Len(c.valueNumerals) THEN Number(c.valueNumerals[k]) ELSE Member(c.givenNumerals, k)
<1> DEFINE vs == c.valueNumerals
           gs == c.givenNumerals
           n == Len(gs)
<1>1. /\ Len(c.values) = Len(vs) /\ c.values = Numbers(vs)
      /\ Len(c.given) = n /\ c.given = Numbers(gs) /\ n # 0
      /\ Stands(c.text, c.valuesAt, vs, Space) /\ Stands(c.format, c.givenAt, gs, Comma)
  <2>1. ValuesStand(c) /\ DefaultsStand(c, 6)
    BY ArrayIs, Zenon
  <2> QED
    BY <2>1, Zenon DEF ValuesStand, DefaultsStand
<1>2. Len(vs) \in Nat /\ n \in Nat \ {0}
  BY <1>1 DEF Stands
<1> HIDE DEF vs, gs, n
<1>3. \A j \in 1..Len(vs) : c.values[j] = Number(vs[j])
  BY <1>1, <1>2 DEF Numbers
<1>4. \A j \in 1..n : c.given[j] = Number(gs[j])
  <2>1. c.given = [j \in 1..n |-> Number(gs[j])]
    BY <1>1, Zenon DEF Numbers, n
  <2> QED
    BY <2>1
<1> DEFINE step == IF n = 1 THEN 0 ELSE c.given[n] - c.given[n - 1]
<1>5. step = SeriesStep(gs)
  <2>1. n \in 1..n /\ (n # 1 => n - 1 \in 1..n)
    BY <1>2
  <2>2. n # 1 => c.given[n] - c.given[n - 1] = Number(gs[n]) - Number(gs[n - 1])
    BY <1>4, <2>1
  <2>3. step = IF n = 1 THEN 0 ELSE Number(gs[n]) - Number(gs[n - 1])
    BY <2>2
  <2> HIDE DEF step
  <2> QED
    BY <2>3, Zenon DEF SeriesStep, n
<1>6. ArrayCell(c, k) = IF k <= Len(vs) THEN c.values[k] ELSE IF k <= n THEN c.given[k] ELSE Wrap(c.given[n] + (k - n) * step)
  BY <1>1, Zenon DEF ArrayCell
<1> HIDE DEF step
<1>7. Member(gs, k) = IF k <= n THEN Number(gs[k]) ELSE Wrap(Number(gs[n]) + (k - n) * SeriesStep(gs))
  BY Zenon DEF Member, n
<1>8. n \in 1..n /\ (k <= n => k \in 1..n) /\ (k <= Len(vs) => k \in 1..Len(vs))
  BY <1>2
<1>9. c.given[n] = Number(gs[n])
  BY <1>4, <1>8
<1>10. CASE k <= Len(vs)
  BY <1>3, <1>6, <1>8, <1>10, Zenon DEF vs
<1>11. CASE ~(k <= Len(vs)) /\ k <= n
  BY <1>4, <1>6, <1>7, <1>8, <1>11, Zenon DEF vs, gs
<1>12. CASE ~(k <= Len(vs)) /\ ~(k <= n)
  BY <1>5, <1>6, <1>7, <1>9, <1>12, Zenon DEF vs, gs
<1> QED
  BY <1>10, <1>11, <1>12

\* The values over the series are what an array should have.
LEMMA ArrayContents ==
  ASSUME NEW c, HasArray(c)
  PROVE  /\ Over(FirstNumbers(c.valueNumerals, IF c.length <= Len(c.valueNumerals) THEN c.length ELSE Len(c.valueNumerals)),
                 Series(c.givenNumerals, c.length)) = ArrayContent(c)
         /\ Len(c.valueNumerals) = 0 => Series(c.givenNumerals, c.length) = ArrayContent(c)
<1> DEFINE vs == c.valueNumerals
           gs == c.givenNumerals
           n == Len(vs)
           l == c.length
           m == IF l <= n THEN l ELSE n
           new == FirstNumbers(vs, m)
           old == Series(gs, l)
<1>1. Stands(c.text, c.valuesAt, vs, Space) /\ Stands(c.format, c.givenAt, gs, Comma) /\ l \in Nat \ {0}
  <2>1. ValuesStand(c) /\ DefaultsStand(c, 6) /\ l \in Nat \ {0}
    BY ArrayIs, Zenon
  <2> QED
    BY <2>1, Zenon DEF ValuesStand, DefaultsStand
<1>2. n \in Nat /\ \A k \in 1..n : Number(vs[k]) \in Int
  BY <1>1, NumeralsTyped
<1>3. m \in Nat /\ m <= l /\ m <= n /\ (m = l \/ m = n)
  BY <1>1, <1>2
<1>4. ASSUME NEW k \in 1..l
      PROVE  ArrayCell(c, k) = IF k <= n THEN Number(vs[k]) ELSE Member(gs, k)
  <2>1. k \in Nat \ {0}
    OBVIOUS
  <2> QED
    BY <2>1, ArrayCellIs, Zenon
<1> HIDE DEF vs, gs, n, m, l
<1>5. new = [k \in 1..m |-> Number(vs[k])] /\ old = [k \in 1..l |-> Member(gs, k)]
  BY Zenon DEF FirstNumbers, Series
<1> HIDE DEF new, old
<1>6. /\ Len(new) = m /\ DOMAIN new = 1..m /\ \A k \in 1..m : new[k] = Number(vs[k])
      /\ Len(old) = l /\ DOMAIN old = 1..l /\ \A k \in 1..l : old[k] = Member(gs, k)
  BY <1>1, <1>3, <1>5
<1>7. ArrayContent(c) = [k \in 1..l |-> ArrayCell(c, k)]
  BY Zenon DEF ArrayContent, l
<1>8. Over(new, old) = ArrayContent(c)
  <2> DEFINE long == IF Len(new) > Len(old) THEN Len(new) ELSE Len(old)
             Cell(k) == IF k \in DOMAIN new /\ (new[k] # Untouched \/ k \notin DOMAIN old) THEN new[k] ELSE old[k]
  <2>1. Over(new, old) = [k \in 1..long |-> Cell(k)]
    BY Zenon DEF Over
  <2>2. long = l
    BY <1>1, <1>3, <1>6
  <2>3. ASSUME NEW k \in 1..l PROVE Cell(k) = ArrayCell(c, k)
    <3>1. CASE k <= n
      <4>1. k \in 1..n /\ k \in 1..m
        BY <1>1, <1>2, <1>3, <3>1
      <4>2. new[k] = Number(vs[k]) /\ new[k] \in Int
        BY <1>2, <1>6, <4>1
      <4>3. new[k] # Untouched
        BY <4>2, UntouchedAssumption
      <4> QED
        BY <1>4, <1>6, <3>1, <4>1, <4>2, <4>3
    <3>2. CASE ~(k <= n)
      <4>1. k \notin 1..m
        BY <1>3, <1>2, <3>2
      <4> QED
        BY <1>4, <1>6, <3>2, <4>1
    <3> QED
      BY <3>1, <3>2
  <2> HIDE DEF long, Cell
  <2> QED
    BY <1>7, <2>1, <2>2, <2>3
<1>9. n = 0 => old = ArrayContent(c)
  <2> SUFFICES ASSUME n = 0 PROVE old = ArrayContent(c)
    OBVIOUS
  <2>1. ASSUME NEW k \in 1..l PROVE Member(gs, k) = ArrayCell(c, k)
    <3>1. ~(k <= n)
      OBVIOUS
    <3> QED
      BY <1>4, <3>1
  <2> QED
    BY <1>5, <1>7, <2>1
<1> QED
  BY <1>8, <1>9 DEF new, old, vs, gs, n, m, l

\* The defaults of an array are the series that its format gives.
LEMMA ArrayOld ==
  ASSUME NEW c, HasArray(c), NEW size, NEW options
  PROVE  ArrayDefaults(<<"i">>, size, options, CutText(c.format, c.givenAt, c.givenNumerals), c.length)
           = Series(c.givenNumerals, c.length)
<1> DEFINE t == c.format
           gs == c.givenNumerals
           at == c.givenAt
           u == CutText(t, at, gs)
           places == CutPlaces(at, gs)
<1>1. /\ Stands(t, at, gs, Comma) /\ Len(gs) # 0 /\ Ch(t, at[Len(gs) + 1]) = Bracket
      /\ c.length \in Nat /\ InputIs(c)
  <2>1. DefaultsStand(c, 6) /\ c.length \in Nat \ {0} /\ InputIs(c)
    BY ArrayIs, Zenon
  <2> QED
    BY <2>1 DEF DefaultsStand
<1>2. Bracket # NUL /\ Parting(Closers, Comma)
  BY GroupsPart
<1>3. PICK S : t \in Seq(S)
  BY <1>1, Zenon DEF InputIs
<1>4. u \in Seq(S) /\ Stands(u, places, gs, Comma) /\ places[1] = 1 /\ places[Len(gs) + 1] = Len(u) + 1
  BY <1>1, <1>2, <1>3, StandsCut
<1>5. Len(gs) # 0 /\ c.length \in Nat
  BY <1>1
<1> HIDE DEF t, at, gs, u, places
<1>6. ArrayDefaults(<<"i">>, size, options, u, c.length) = Series(gs, c.length)
  BY <1>2, <1>4, <1>5, DefaultsFilled
<1> QED
  BY <1>6 DEF t, at, gs, u

\* The input gives an array its values.
LEMMA ArrayNew ==
  ASSUME NEW c, HasArray(c), NEW size, NEW options, NEW saves, NEW whole
  PROVE  IsFilled(ArrayInput(<<"i">>, size, options, Spaces, c.text, 1, c.length, saves, whole), c.valueNumerals,
                  IF c.length <= Len(c.valueNumerals) THEN c.length ELSE Len(c.valueNumerals))
<1>1. /\ Stands(c.text, c.valuesAt, c.valueNumerals, Space)
      /\ c.valuesAt[1] = 1 /\ c.valuesAt[Len(c.valueNumerals) + 1] = Len(c.text) + 1
      /\ c.length \in Nat /\ InputIs(c)
  <2>1. ValuesStand(c) /\ c.length \in Nat \ {0} /\ InputIs(c)
    BY ArrayIs, Zenon
  <2> QED
    BY <2>1 DEF ValuesStand
<1>2. Parting(Spaces, Space)
  BY GroupsPart
<1>3. PICK S : c.text \in Seq(S)
  BY <1>1, Zenon DEF InputIs
<1> QED
  BY <1>1, <1>2, <1>3, InputFilled

(***************************************************************************)
(* In front of the array, or behind it.                                    *)
(***************************************************************************)
AtArray ==
  /\ saved = <<>> /\ f = 1 /\ s = 1 /\ doSave
  /\ phase = "main" => delim = Spaces
  /\ phase = "defaults" => Len(call.valueNumerals) = 0

BehindArray == saved = <<ArrayContent(call)>> /\ f = Len(call.format) + 1 /\ doSave

\* The array is read.
LEMMA ArrayTurn ==
  ASSUME HasArray(call), call' = call, phase \in {"main", "defaults"}, AtArray, Array
  PROVE  phase' = phase /\ BehindArray'
<1> DEFINE m == GetMultiType(format, f + 1)
           o == GroupDefaults(m.p)
           ty == Plain(m.v)
           l == GetLength(format, o.p, TRUE)
           size == GetLength(ty, 2, FALSE).v
           given == o.given /\ (~o.empty \/ ty[1] = "s")
           old == IF given THEN ArrayDefaults(ty, size, gOptions, o.text, l.v) ELSE <<>>
           none == \/ ~m.ok \/ l.v = 0
                   \/ (given \/ phase = "main") /\ Ch(ty, 1) \notin ArrayTypes
           cut == CutText(format, call.givenAt, call.givenNumerals)
           close == Close(call)
           vs == call.valueNumerals
           least == IF call.length <= Len(vs) THEN call.length ELSE Len(vs)
<1>1. /\ Ch(format, 1) = "A" /\ GetMultiType(format, 2) = [ok |-> TRUE, v |-> <<"i">>, p |-> 5]
      /\ IsCut(Defaults(format, 5), format, call.givenAt, call.givenNumerals)
      /\ IsRead(GetLength(format, close + 1, TRUE), call.length, Len(format) + 1)
  <2>1. ArrayFormat(call)
    BY ArrayIs, Zenon
  <2> QED
    BY <2>1, Zenon DEF ArrayFormat, format
<1>2. f + 1 = 2 /\ f = 1 /\ s = 1 /\ saved = <<>> /\ doSave
  BY DEF AtArray
<1>3. m = [ok |-> TRUE, v |-> <<"i">>, p |-> 5]
  BY <1>1, <1>2, Zenon
<1>4. m.ok /\ m.v = <<"i">> /\ m.p = 5
  BY <1>3
<1> HIDE DEF m
<1>5. Letter = "A"
  BY <1>1, <1>2, Zenon DEF Letter
<1>6. o = Defaults(format, 5)
  BY <1>4, <1>5, Zenon DEF GroupDefaults
<1>7. o.given /\ ~o.empty /\ o.text = cut /\ o.p = close + 1
  <2>1. IsCut(o, format, call.givenAt, call.givenNumerals)
    BY <1>1, <1>6, Zenon
  <2> HIDE DEF o
  <2> QED
    BY <2>1 DEF IsCut, Close
<1> HIDE DEF o
<1>8. ty = <<"i">> /\ ty[1] = "i" /\ Ch(ty, 1) = "i"
  <2> DEFINE i == <<"i">>
  <2>1. i[1] = "i" /\ Ch(i, 1) = "i"
    BY DEF Ch
  <2> HIDE DEF i
  <2>2. Plain(i) = i
    <3>1. Ch(i, 1) \notin {"S", "z", "Z"}
      BY <2>1
    <3> QED
      BY <3>1, Zenon DEF Plain
  <2> QED
    BY <1>4, <2>1, <2>2 DEF i
<1> HIDE DEF ty
<1>9. l.v = call.length /\ l.p = Len(format) + 1
  <2>1. IsRead(l, call.length, Len(format) + 1)
    BY <1>1, <1>7, Zenon
  <2> QED
    BY <2>1, Zenon DEF IsRead
<1> HIDE DEF l
<1>10. given
  BY <1>7
<1>11. ~none
  <2>1. call.length # 0
    <3>1. call.length \in Nat \ {0}
      BY ArrayIs
    <3> QED
      BY <3>1
  <2>2. "i" \in ArrayTypes
    BY DEF ArrayTypes, Simple, SimpleRequired
  <2> QED
    BY <1>4, <1>8, <1>9, <2>1, <2>2
<1> HIDE DEF size
<1>12. old = Series(call.givenNumerals, call.length)
  <2>1. old = ArrayDefaults(<<"i">>, size, gOptions, cut, call.length)
    BY <1>7, <1>8, <1>9, <1>10, Zenon
  <2>2. cut = CutText(call.format, call.givenAt, call.givenNumerals)
    BY DEF format
  <2> HIDE DEF cut, old
  <2> QED
    BY <2>1, <2>2, ArrayOld, Zenon
<1>13. ArrayCells(ty, size, l, given, old)
  <2> DEFINE Measured(multi, opts, type, length) ==
               LET defaulted == opts.given /\ (~opts.empty \/ type[1] = "s")
                   sz == GetLength(type, 2, FALSE).v
               IN  IF \/ ~multi.ok \/ length.v = 0
                      \/ (defaulted \/ phase = "main") /\ Ch(type, 1) \notin ArrayTypes
                   THEN Return("FAIL")
                   ELSE \E before \in {IF defaulted THEN ArrayDefaults(type, sz, gOptions, opts.text, length.v) ELSE <<>>} :
                        ArrayCells(type, sz, length, defaulted, before)
             WithDefaults(multi, opts) ==
               \E type \in {Plain(multi.v)} : \E length \in {GetLength(format, opts.p, TRUE)} :
                 Measured(multi, opts, type, length)
             Named(multi) == \E opts \in {GroupDefaults(multi.p)} : WithDefaults(multi, opts)
  <2>1. \E multi \in {m} : Named(multi)
    BY Zenon DEF Array, m
  <2>2. Named(m)
    <3> HIDE DEF Named
    <3> QED
      BY <2>1
  <2>4. WithDefaults(m, o)
    <3> HIDE DEF WithDefaults
    <3> QED
      BY <2>2, Zenon DEF o
  <2>5. Measured(m, o, ty, l)
    <3> HIDE DEF Measured
    <3> QED
      BY <2>4, Zenon DEF ty, l
  <2>3. IF none THEN Return("FAIL") ELSE \E before \in {old} : ArrayCells(ty, size, l, given, before)
    BY <2>5, Zenon DEF size
  <2> HIDE DEF none, given, old
  <2> QED
    BY <1>11, <2>3, Zenon
<1> HIDE DEF none, old
<1>14. CASE phase = "defaults"
  <2>1. Read(old, l.p, s)
    BY <1>13, <1>14, Zenon DEF ArrayCells
  <2>2. phase' = phase /\ doSave' = doSave /\ saved' = Append(<<>>, old) /\ f' = l.p
    BY <1>2, <2>1, Zenon DEF Read, Save, Move
  <2>3. Len(vs) = 0
    BY <1>14 DEF AtArray
  <2>4. old = ArrayContent(call)
    BY <1>12, <2>3, ArrayContents
  <2>5. Append(<<>>, old) = <<old>>
    OBVIOUS
  <2> QED
    BY <1>2, <1>9, <2>2, <2>4, <2>5, Zenon DEF BehindArray, format
<1>15. CASE phase = "main"
  <2> DEFINE last == \/ Ch(format, l.p) = NUL
                     \/ ~doSave /\ Ch(format, l.p) = "}" /\ Ch(format, l.p + 1) = NUL
             after == IF given /\ ty[1] \in {"k", "K"} THEN CutAt(ty, GetMultiType(ty, 2)) ELSE ty
             new == ArrayInput(after, size, gOptions, delim, string, s, l.v, doSave, last)
  <2>1. \E x \in {new} : IF Content(x, given) THEN Read(Over(x.cells, old), l.p, x.p) ELSE Return("FAIL")
    <3>1. phase # "defaults"
      BY <1>15
    <3> HIDE DEF given
    <3> QED
      BY <1>13, <3>1, Zenon DEF ArrayCells
  <2>2. after = <<"i">>
    BY <1>8
  <2>3. delim = Spaces /\ string = call.text
    <3>1. Corrected(call.text) = call.text
      BY ArrayIs DEF InputIs
    <3> QED
      BY <1>15, <3>1 DEF AtArray, string
  <2> HIDE DEF last, after
  <2>4. new = ArrayInput(<<"i">>, size, gOptions, Spaces, call.text, 1, call.length, doSave, last)
    BY <1>2, <1>9, <2>2, <2>3, Zenon
  <2> HIDE DEF new
  <2>5. IsFilled(new, vs, least)
    BY <2>4, ArrayNew, Zenon
  <2>6. new.ret \in {"TRUE", "CONT"} /\ new.cells = FirstNumbers(vs, least)
    BY <2>5, Zenon DEF IsFilled
  <2>7. Content(new, given)
    BY <1>10, <2>6 DEF Content
  <2>8. Read(Over(new.cells, old), l.p, new.p)
    BY <2>1, <2>7, Zenon
  <2>9. Over(new.cells, old) = ArrayContent(call)
    BY <1>12, <2>6, ArrayContents, Zenon
  <2>10. phase' = phase /\ doSave' = doSave /\ saved' = Append(<<>>, ArrayContent(call)) /\ f' = l.p
    BY <1>2, <2>8, <2>9, Zenon DEF Read, Save, Move
  <2>11. Append(<<>>, ArrayContent(call)) = <<ArrayContent(call)>>
    OBVIOUS
  <2> QED
    BY <1>2, <1>9, <2>10, <2>11, Zenon DEF BehindArray, format
<1> QED
  BY <1>14, <1>15

AmongArray == phase \in {"main", "defaults"} /\ (AtArray \/ BehindArray)

ArrayTurned ==
  \/ AmongArray'
  \/ phase' = "ended" /\ result' = "TRUE" /\ saved' = <<ArrayContent(call)>>

\* Which letters the parser is at.
LEMMA ArrayLetter ==
  ASSUME HasArray(call)
  PROVE  /\ AtArray => Letter = "A" /\ More
         /\ BehindArray => Letter = NUL /\ ~More
<1>1. Ch(call.format, 1) = "A" /\ call.params = 1
  <2>1. ArrayFormat(call) /\ call.params = 1
    BY ArrayIs, Zenon
  <2> QED
    BY <2>1, Zenon DEF ArrayFormat
<1>2. AtArray => Letter = "A" /\ More
  <2> SUFFICES ASSUME AtArray PROVE Letter = "A" /\ More
    OBVIOUS
  <2>1. f = 1 /\ Len(saved) = 0
    BY DEF AtArray
  <2> QED
    BY <1>1, <2>1 DEF Letter, format, More
<1>3. BehindArray => Letter = NUL /\ ~More
  <2> SUFFICES ASSUME BehindArray PROVE Letter = NUL /\ ~More
    OBVIOUS
  <2> DEFINE content == ArrayContent(call)
  <2>1. f = Len(call.format) + 1 /\ saved = <<content>> /\ doSave
    BY Zenon DEF BehindArray
  <2> HIDE DEF content
  <2>2. Len(saved) = 1
    BY <2>1
  <2>3. Len(call.format) \in Nat
    <3>1. call.format \in Seq(ToSet(call.format))
      BY CallsAssumption DEF HasArray
    <3> QED
      BY <3>1, LenProperties
  <2>4. f \notin 1..Len(call.format)
    BY <2>1, <2>3
  <2>5. Letter = NUL
    BY <2>4, Zenon DEF Letter, format, Ch
  <2> QED
    BY <1>1, <2>1, <2>2, <2>5 DEF More
<1> QED
  BY <1>2, <1>3, Zenon

\* A turn in front of the array or behind it.
LEMMA WorkTurnsArray ==
  ASSUME HasArray(call), call' = call, AmongArray, Work
  PROVE  ArrayTurned
<1>1. "A" \in LettersUsed /\ NUL \in LettersUsed /\ "A" \notin Quieters /\ NUL \notin Quieters /\ "A" # NUL
  BY Zenon DEF LettersUsed, Quieters, NUL
<1>2. NUL \notin {"d", "I", "p", "s", "A", "E", ")"}
  BY DEF NUL
<1>3. CASE AtArray
  <2>1. Letter = "A" /\ More
    BY <1>3, ArrayLetter
  <2>2. CASE phase = "main"
    <3>1. InputEnds \/ Array
      BY <1>1, <2>1, <2>2, MainTurn, Zenon
    <3>2. CASE Array
      BY <1>3, <2>2, <3>2, ArrayTurn DEF ArrayTurned, AmongArray
    <3>3. CASE InputEnds
      <4>1. phase' = "defaults" /\ f' = f /\ s' = s /\ saved' = saved /\ doSave' = doSave /\ Ch(string, s) = NUL
        BY <2>1, <3>3, Zenon DEF InputEnds
      <4>2. s = 1 /\ saved = <<>> /\ f = 1 /\ doSave
        BY <1>3 DEF AtArray
      <4>3. Len(call.valueNumerals) = 0
        <5>1. InputIs(call)
          BY ArrayIs, Zenon
        <5>2. string = call.text /\ (Ch(call.text, 1) = NUL <=> Len(call.valueNumerals) = 0)
          BY <5>1, Zenon DEF InputIs, string
        <5> QED
          BY <4>1, <4>2, <5>2, Zenon
      <4>4. Len(call'.valueNumerals) = 0
        BY <4>3, Zenon
      <4>5. AtArray'
        <5>1. phase' # "main"
          BY <4>1
        <5> QED
          BY <4>1, <4>2, <4>4, <5>1, Zenon DEF AtArray
      <4> QED
        BY <4>1, <4>5 DEF ArrayTurned, AmongArray
    <3> QED
      BY <3>1, <3>2, <3>3
  <2>3. CASE phase = "defaults"
    <3>1. Finished \/ Array
      BY <1>1, <2>1, <2>3, DefaultTurn, Zenon
    <3>2. ~Finished
      BY <2>1, Zenon DEF Finished
    <3> QED
      BY <1>3, <2>3, <3>1, <3>2, ArrayTurn DEF ArrayTurned, AmongArray
  <2> QED
    BY <2>2, <2>3 DEF AmongArray
<1>4. CASE BehindArray
  <2>1. Letter = NUL /\ ~More
    BY <1>4, ArrayLetter
  <2>2. CASE phase = "main"
    <3>1. InputEnds
      BY <1>1, <2>1, <2>2, MainTurn, Zenon
    <3>2. phase' = "defaults" /\ f' = f /\ saved' = saved /\ doSave' = doSave
      BY <3>1, Zenon DEF InputEnds
    <3>3. BehindArray'
      <4>1. saved = <<ArrayContent(call)>> /\ f = Len(call.format) + 1 /\ doSave
        BY <1>4, Zenon DEF BehindArray
      <4> QED
        BY <3>2, <4>1, Zenon DEF BehindArray
    <3> QED
      BY <3>2, <3>3 DEF ArrayTurned, AmongArray
  <2>3. CASE phase = "defaults"
    <3>1. Finished
      BY <1>1, <2>1, <2>3, DefaultTurn, Zenon
    <3>2. phase' = "ended" /\ result' = "TRUE" /\ saved' = saved
      BY <3>1, Zenon DEF Finished, Return
    <3> QED
      BY <1>4, <3>2, Zenon DEF ArrayTurned, BehindArray
  <2> QED
    BY <2>2, <2>3 DEF AmongArray
<1> QED
  BY <1>3, <1>4 DEF AmongArray

\* Where a call with an array begins.
LEMMA ArrayAtCall ==
  ASSUME NEW c \in Calls, Call(c), c.kind = "array"
  PROVE  AmongArray'
<1>1. HasArray(c)
  BY DEF HasArray
<1>2. call' = c /\ phase' = "main" /\ saved' = <<>> /\ s' = SkipWhitespace(Corrected(c.text), 1) /\ delim' = Spaces
  BY Zenon DEF Call, Spaces
<1>3. Ch(c.format, 1) = "A" /\ Corrected(c.text) = c.text /\ SkipWhitespace(c.text, 1) = 1
  <2>1. ArrayFormat(c) /\ InputIs(c)
    BY <1>1, ArrayIs, Zenon
  <2> QED
    BY <2>1, Zenon DEF ArrayFormat, InputIs
<1>4. f' = 1 /\ doSave'
  <2>1. Ch(c.format, 1) # "{"
    BY <1>3
  <2> QED
    BY <2>1, Zenon DEF Call
<1>5. AtArray'
  <2>1. phase' # "defaults"
    BY <1>2
  <2> QED
    BY <1>2, <1>3, <1>4, <2>1, Zenon DEF AtArray
<1> QED
  BY <1>2, <1>5 DEF AmongArray

(***************************************************************************)
(* In front of its array or behind it while a call works, and with it once *)
(* it has ended.                                                           *)
(***************************************************************************)
ArrayRead ==
  /\ phase \in {"main", "defaults"} => (call.kind = "array" => AmongArray)
  /\ phase = "ended" => (call.kind = "array" => result = "TRUE" /\ saved = <<ArrayContent(call)>>)

\* A step of the plugin keeps it so.
LEMMA NextKeepsArray == Bounded /\ ArrayRead /\ [Next]_vars => ArrayRead'
<1> SUFFICES ASSUME Bounded, ArrayRead, [Next]_vars PROVE ArrayRead'
  OBVIOUS
<1>1. ASSUME NEW c \in Calls, Call(c) PROVE ArrayRead'
  <2>1. phase' = "main" /\ call' = c
    BY <1>1 DEF Call
  <2>2. c.kind = "array" => AmongArray'
    BY <1>1, ArrayAtCall
  <2> QED
    BY <2>1, <2>2, Zenon DEF ArrayRead
<1>2. CASE WorkStep
  <2>1. Work /\ call' = call
    BY <1>2, Zenon DEF WorkStep
  <2>2. phase \in {"main", "defaults"} /\ phase' \in {"main", "defaults", "ended"}
    <3>1. Saves \/ Ends
      BY <2>1, WorkSavesOrEnds
    <3> QED
      BY <3>1 DEF Saves, Ends
  <2>3. CASE call.kind # "array"
    BY <2>1, <2>3, Zenon DEF ArrayRead
  <2>4. CASE call.kind = "array"
    <3>1. HasArray(call)
      BY <2>2, <2>4 DEF HasArray, Bounded
    <3>2. AmongArray
      BY <2>2, <2>4, Zenon DEF ArrayRead
    <3>3. ArrayTurned
      BY <2>1, <2>2, <3>1, <3>2, WorkTurnsArray
    <3>4. CASE AmongArray'
      <4>1. phase' # "ended"
        BY <3>4 DEF AmongArray
      <4> QED
        BY <3>4, <4>1, Zenon DEF ArrayRead
    <3>5. CASE phase' = "ended" /\ result' = "TRUE" /\ saved' = <<ArrayContent(call)>>
      <4>1. phase' \notin {"main", "defaults"}
        BY <3>5
      <4> QED
        BY <2>1, <3>5, <4>1, Zenon DEF ArrayRead
    <3> QED
      BY <3>3, <3>4, <3>5 DEF ArrayTurned
  <2> QED
    BY <2>3, <2>4
<1>3. CASE Returned
  BY <1>3 DEF Returned, ArrayRead
<1>4. CASE UNCHANGED callVars
  <2>1. /\ phase' = phase /\ call' = call /\ f' = f /\ s' = s /\ doSave' = doSave
        /\ saved' = saved /\ delim' = delim /\ result' = result
    BY <1>4 DEF callVars
  <2>2. AmongArray' <=> AmongArray
    BY <2>1 DEF AmongArray, AtArray, BehindArray
  <2> QED
    BY <2>1, <2>2, Zenon DEF ArrayRead
<1>5. CASE UNCHANGED vars
  BY <1>4, <1>5 DEF vars, callVars
<1> QED
  BY <1>1, <1>2, <1>3, <1>4, <1>5, Zenon DEF Next

(***************************************************************************)
(* Whatever the defaults of an array and however many values the input     *)
(* has, for any length and width of a cell: the values first, then the     *)
(* defaults, then the series that the last two of these begin.             *)
(***************************************************************************)
THEOREM ArraysAreFilledUp == Spec => []ArraysAreFilled
<1>1. Init => Bounded /\ ArrayRead
  BY EmptyIsASeq DEF Init, Bounded, NeverPastTheDestinations, ArrayRead
<1>2. Bounded /\ [Next]_vars => Bounded'
  BY NextKeepsBounded
<1>3. Bounded /\ ArrayRead /\ [Next]_vars => ArrayRead'
  BY NextKeepsArray
<1>4. ArrayRead => ArraysAreFilled
  BY Zenon DEF ArrayRead, ArraysAreFilled, ArrayContent, ArrayCell
<1> QED
  BY <1>1, <1>2, <1>3, <1>4, PTL DEF Spec

(***************************************************************************)
(* The entries of an enumeration, one turn of its loop after the other.    *)
(***************************************************************************)
Opening == "{"
Closing == "}"

(* One entry further, in an enumeration that is saved *)
EntryStep(types, options, t, defaults, a) == EnumStep(types, options, t, TRUE, defaults, a)

(* The answer at the end of the input *)
EntriesEnd(types, at) ==
  IF Ch(types, at) = NUL \/ (Ch(types, at) = Closing /\ Ch(types, at + 1) = NUL) THEN "TRUE" ELSE "CONT"

EntryStarts == {NUL, "i", "-"} \cup Quieters

\* What the first letters of the entries are, and are not.
LEMMA EntryLetters ==
  ASSUME NEW c \in EntryStarts
  PROVE  /\ c \in Simple \cup DOMAIN Kind <=> c = "i"
         /\ c \notin {"k", "K"} /\ c \notin {"s", "S", "z", "Z"} /\ c # "'" /\ c # "P" /\ c # "p" /\ c \notin NoSuchEntry
         /\ c \in {"{", "}"} <=> c \in Quieters
         /\ c \in Quieters => c # NUL /\ c # "i" /\ c # "-"
<1> USE DEF Simple, SimpleRequired, SimpleOptional, NoSuchEntry, NUL, Quieters
<1>1. DOMAIN Kind = {"u", "U", "q", "Q", "r", "R"}
  BY DEF Kind
<1>2. c \in {"NUL", "i", "-", "{", "}"}
  BY Zenon DEF EntryStarts
<1>3. c \in Simple \cup DOMAIN Kind <=> c = "i"
  BY <1>1, <1>2, Zenon
<1>4. c \notin {"k", "K"} /\ c \notin {"s", "S", "z", "Z"} /\ c # "'" /\ c # "P" /\ c # "p" /\ c \notin NoSuchEntry
  BY <1>2, Zenon
<1>5. c \in {"{", "}"} <=> c \in Quieters
  BY Zenon
<1>6. c \in Quieters => c # NUL /\ c # "i" /\ c # "-"
  BY Zenon
<1> QED
  BY <1>3, <1>4, <1>5, <1>6, Zenon

\* What an i is besides.
LEMMA IntLetter == "i" \in Simple /\ "i" \notin DOMAIN Kind /\ "i" \notin {"k", "K"} /\ "i" \notin {"e", "E"} /\ "i" \notin Sized
<1>1. DOMAIN Kind = {"u", "U", "q", "Q", "r", "R"}
  BY DEF Kind
<1> QED
  BY <1>1, Zenon DEF Simple, SimpleRequired, SimpleOptional, Sized

\* A reading that has stopped stays as it is.
LEMMA StoppedStays ==
  ASSUME NEW types, NEW options, NEW t, NEW defaults, NEW a, a.ret # "run"
  PROVE  EntryStep(types, options, t, defaults, a) = a
BY Zenon DEF EntryStep, EnumStep

\* At the end of the input it stops.
LEMMA StopsAtEnd ==
  ASSUME NEW types, NEW options, NEW t, NEW defaults, NEW a, a.ret = "run", Ch(t, a.p) = NUL
  PROVE  EntryStep(types, options, t, defaults, a) = [a EXCEPT !.ret = EntriesEnd(types, a.f)]
BY Zenon DEF EntryStep, EnumStep, EntriesEnd, Closing

(* There is more to read, in an entry that begins with x *)
EntryFollows(types, t, a, x) == a.ret = "run" /\ Ch(t, a.p) # NUL /\ Ch(types, a.f) = x

(* What an entry does, by its first letter *)
IsEntry(types, options, t, defaults, a) ==
  LET step == EntryStep(types, options, t, defaults, a)
      c == Ch(types, a.f)
      number == ReadValue(c, defaults, options, a.delim, t, a.p)
  IN  /\ c = NUL => step = [a EXCEPT !.ret = "TRUE"]
      /\ c = "i" => step = Entry(a, t, IF c \in DOMAIN Kind THEN SkipLength(types, a.f + 1) ELSE a.f + 1, number)
      /\ c = "-" => step = SkipEntry(a, t, types, Ch(types, a.f + 1), (a.f + 1) + 1)
      /\ c \in Quieters => step = [a EXCEPT !.f = a.f + 1, !.doSave = TRUE /\ c = "}"]

LEMMA EntryIs ==
  ASSUME NEW types, NEW options, NEW t, NEW defaults, NEW a, NEW x \in EntryStarts, EntryFollows(types, t, a, x)
  PROVE  IsEntry(types, options, t, defaults, a)
<1> DEFINE step == EntryStep(types, options, t, defaults, a)
           g == a.f + 1
           c == Ch(types, a.f)
           next == Ch(types, a.f + 1)
           multi == GetMultiType(types, g)
           single == GetSingleType(types, g)
           k == DoK(options, a.delim, types, g, t, a.p, FALSE)
           i == Do("i", a.delim, t, a.p)
           number == [ok |-> TRUE, v |-> i.v, p |-> i.p, fp |-> multi.p]
           after == IF c \in DOMAIN Kind THEN SkipLength(types, g) ELSE g
           value == ReadValue(c, defaults, options, a.delim, t, a.p)
           Step(entry, kustom, written, literal, skip, section, delimiters, delimiter, other) ==
             IF a.ret # "run" THEN a
             ELSE IF Ch(t, a.p) = NUL THEN
                    [a EXCEPT !.ret = IF c = NUL \/ (c = "}" /\ next = NUL) THEN "TRUE" ELSE "CONT"]
             ELSE CASE c = NUL -> [a EXCEPT !.ret = "TRUE"]
               [] c \in Simple \cup DOMAIN Kind -> entry
               [] c \in {"k", "K"} -> kustom
               [] c \in {"s", "S", "z", "Z"} -> written
               [] c = "'" -> literal
               [] c = "-" -> skip
               [] c \in {"{", "}"} -> section
               [] c = "P" -> delimiters
               [] c = "p" -> delimiter
               [] c \in NoSuchEntry -> Fail(a)
               [] OTHER -> other
           e1 == Entry(a, t, after, value)
           e2 == KustomEntry(a, t, IF defaults /\ "OLD_DEFAULT_KUSTOM" \notin options THEN number ELSE k)
           e3 == StringEntry(a, t, types, GetLength(types, g, TRUE))
           e4 == LiteralEntry(a, t, types, Literal(types, g))
           e5 == SkipEntry(a, t, types, next, g + 1)
           e6 == [a EXCEPT !.f = g, !.doSave = TRUE /\ c = "}"]
           e7 == Multi(a, types, multi, defaults)
           e8 == Single(a, single, defaults)
           e9 == [a EXCEPT !.f = g]
           o1 == [a EXCEPT !.ret = "TRUE"]
           o2 == [a EXCEPT !.ret = IF c = NUL \/ (c = "}" /\ next = NUL) THEN "TRUE" ELSE "CONT"]
           o3 == Fail(a)
<1>1. step = Step(e1, e2, e3, e4, e5, e6, e7, e8, e9)
  BY Zenon DEF EntryStep, EnumStep
<1> HIDE DEF e1, e2, e3, e4, e5, e6, e7, e8, e9, o1, o2, o3, step
<1>2. c = x /\ a.ret = "run" /\ Ch(t, a.p) # NUL
  BY Zenon DEF EntryFollows
<1>3. step = IF a.ret # "run" THEN a
               ELSE IF Ch(t, a.p) = NUL THEN o2
               ELSE CASE c = NUL -> o1
               [] c \in Simple \cup DOMAIN Kind -> e1
               [] c \in {"k", "K"} -> e2
               [] c \in {"s", "S", "z", "Z"} -> e3
               [] c = "'" -> e4
               [] c = "-" -> e5
               [] c \in {"{", "}"} -> e6
               [] c = "P" -> e7
               [] c = "p" -> e8
               [] c \in NoSuchEntry -> o3
               [] OTHER -> e9
  BY <1>1, Zenon DEF o1, o2, o3
<1> HIDE DEF c
<1>4. /\ c \in Simple \cup DOMAIN Kind <=> c = "i"
      /\ c \notin {"k", "K"} /\ c \notin {"s", "S", "z", "Z"} /\ c # "'" /\ c # "P" /\ c # "p" /\ c \notin NoSuchEntry
      /\ c \in {"{", "}"} <=> c \in Quieters
      /\ c \in Quieters => c # NUL /\ c # "i" /\ c # "-"
  BY <1>2, EntryLetters, Zenon
<1>5. c = NUL => step = o1
  BY <1>2, <1>3, <1>4, Zenon DEF NUL
<1>6. c = "i" => step = e1
  BY <1>2, <1>3, <1>4, Zenon DEF NUL
<1>7. c = "-" => step = e5
  BY <1>2, <1>3, <1>4, Zenon DEF NUL
<1>8. c \in Quieters => step = e6
  BY <1>2, <1>3, <1>4, Zenon DEF NUL
<1> QED
  BY <1>5, <1>6, <1>7, <1>8, Zenon DEF IsEntry, c, step, o1, e1, e5, e6

\* At the end of the format it is complete.
LEMMA StepAtFormatEnd ==
  ASSUME NEW types, NEW options, NEW t, NEW defaults, NEW a, EntryFollows(types, t, a, NUL)
  PROVE  EntryStep(types, options, t, defaults, a) = [a EXCEPT !.ret = "TRUE"]
<1>1. NUL \in EntryStarts
  BY DEF EntryStarts
<1>2. IsEntry(types, options, t, defaults, a)
  BY <1>1, EntryIs
<1> QED
  BY <1>2, Zenon DEF IsEntry, EntryFollows

\* A number is read.
LEMMA StepAtInt ==
  ASSUME NEW types, NEW options, NEW t, NEW defaults, NEW a, EntryFollows(types, t, a, "i")
  PROVE  EntryStep(types, options, t, defaults, a) = Entry(a, t, a.f + 1, Do("i", a.delim, t, a.p))
<1>1. "i" \in EntryStarts
  BY DEF EntryStarts
<1>2. IsEntry(types, options, t, defaults, a)
  BY <1>1, EntryIs
<1>3. "i" \notin DOMAIN Kind
  BY IntLetter
<1>4. EntryStep(types, options, t, defaults, a) = Entry(a, t, a.f + 1, ReadValue("i", defaults, options, a.delim, t, a.p))
  BY <1>2, <1>3, Zenon DEF IsEntry, EntryFollows
<1> DEFINE d == a.delim
           q == a.p
<1>5. ReadValue("i", defaults, options, d, t, q) = Do("i", d, t, q)
  <2> HIDE DEF d, q
  <2> QED
    BY IntRead
<1> QED
  BY <1>4, <1>5, Zenon

\* A skipped number is not.
LEMMA StepAtSkip ==
  ASSUME NEW types, NEW options, NEW t, NEW defaults, NEW a, EntryFollows(types, t, a, "-"), Ch(types, a.f + 1) = "i"
  PROVE  EntryStep(types, options, t, defaults, a) = GoTo(Keep(a, <<Untouched>>), t, (a.f + 1) + 1, a.p)
<1> DEFINE f2 == (a.f + 1) + 1
<1>1. "-" \in EntryStarts
  BY DEF EntryStarts
<1>2. IsEntry(types, options, t, defaults, a)
  BY <1>1, EntryIs
<1>3. EntryStep(types, options, t, defaults, a) = SkipEntry(a, t, types, "i", f2)
  BY <1>2, Zenon DEF IsEntry, EntryFollows
<1> HIDE DEF f2
<1>4. SkipEntry(a, t, types, "i", f2) = GoTo(Keep(a, <<Untouched>>), t, f2, a.p)
  BY IntLetter, Zenon DEF SkipEntry
<1> QED
  BY <1>3, <1>4, Zenon DEF f2

(* A quiet section opens, or closes *)
Brace(a, nf, keeps) == [a EXCEPT !.f = nf, !.doSave = keeps]

LEMMA BracesDiffer == Opening \in Quieters /\ Closing \in Quieters /\ Opening # Closing
BY Zenon DEF Opening, Closing, Quieters

\* What it does.
LEMMA StepAtOpening ==
  ASSUME NEW types, NEW options, NEW t, NEW defaults, NEW a, EntryFollows(types, t, a, Opening)
  PROVE  EntryStep(types, options, t, defaults, a) = Brace(a, a.f + 1, FALSE)
<1> DEFINE x == Opening
<1>1. x \in Quieters /\ x \in EntryStarts /\ EntryFollows(types, t, a, x)
  BY BracesDiffer DEF EntryStarts
<1>2. (TRUE /\ x = "}") = FALSE
  BY BracesDiffer, Zenon DEF Closing
<1> HIDE DEF x
<1>3. IsEntry(types, options, t, defaults, a)
  BY <1>1, EntryIs
<1>4. EntryStep(types, options, t, defaults, a) = [a EXCEPT !.f = a.f + 1, !.doSave = TRUE /\ x = "}"]
  BY <1>1, <1>3, Zenon DEF IsEntry, EntryFollows
<1> QED
  BY <1>2, <1>4, Zenon DEF Brace

LEMMA StepAtClosing ==
  ASSUME NEW types, NEW options, NEW t, NEW defaults, NEW a, EntryFollows(types, t, a, Closing)
  PROVE  EntryStep(types, options, t, defaults, a) = Brace(a, a.f + 1, TRUE)
<1> DEFINE x == Closing
<1>1. x \in Quieters /\ x \in EntryStarts /\ EntryFollows(types, t, a, x)
  BY BracesDiffer DEF EntryStarts
<1>2. (TRUE /\ x = "}") = TRUE
  BY BracesDiffer, Zenon DEF Closing
<1> HIDE DEF x
<1>3. IsEntry(types, options, t, defaults, a)
  BY <1>1, EntryIs
<1>4. EntryStep(types, options, t, defaults, a) = [a EXCEPT !.f = a.f + 1, !.doSave = TRUE /\ x = "}"]
  BY <1>1, <1>3, Zenon DEF IsEntry, EntryFollows
<1> QED
  BY <1>2, <1>4, Zenon DEF Brace

(***************************************************************************)
(* What an enumeration gets of the numbers that it reads.                  *)
(***************************************************************************)
(* The entries that read a number, and those that have a cell *)
Readers(entries) == {k \in 1..Len(entries) : entries[k] # "-"}
Keepers(entries) == {k \in 1..Len(entries) : entries[k] # "q"}

ReadTo(entries, k) == CountTo(Readers(entries), k)
KeptTo(entries, k) == CountTo(Keepers(entries), k)

CellOf(entries, nums, k) == IF entries[k] = "-" THEN Untouched ELSE Number(nums[ReadTo(entries, k)])

(* The cells of the first k entries *)
AreCells(cells, entries, nums, k) ==
  /\ \E S : cells \in Seq(S)
  /\ Len(cells) = KeptTo(entries, k)
  /\ \A j \in 1..k : entries[j] # "q" => cells[KeptTo(entries, j)] = CellOf(entries, nums, j)

OneEntryMore(entries, k) ==
  /\ ReadTo(entries, k + 1) = ReadTo(entries, k) + IF entries[k + 1] = "-" THEN 0 ELSE 1
  /\ KeptTo(entries, k + 1) = KeptTo(entries, k) + IF entries[k + 1] = "q" THEN 0 ELSE 1

\* How many read and how many are kept.
LEMMA EntriesCount ==
  ASSUME NEW entries, Len(entries) \in Nat
  PROVE  /\ \A k \in Nat : ReadTo(entries, k) \in Nat /\ KeptTo(entries, k) \in Nat
         /\ \A k \in 0..Len(entries) - 1 : OneEntryMore(entries, k)
         /\ \A j, k \in Nat : j <= k => ReadTo(entries, j) <= ReadTo(entries, k) /\ KeptTo(entries, j) <= KeptTo(entries, k)
         /\ ReadTo(entries, 0) = 0 /\ KeptTo(entries, 0) = 0
         /\ ReadTo(entries, Len(entries)) = Cardinality(Readers(entries))
         /\ KeptTo(entries, Len(entries)) = Cardinality(Keepers(entries))
<1> DEFINE m == Len(entries)
           W == Readers(entries)
           X == Keepers(entries)
<1>1. W \in SUBSET (1..m) /\ X \in SUBSET (1..m) /\ m \in Nat
  BY DEF Readers, Keepers
<1>2. ASSUME NEW k \in 0..m - 1
      PROVE  k \in Nat /\ (k + 1 \in W <=> entries[k + 1] # "-") /\ (k + 1 \in X <=> entries[k + 1] # "q")
  <2>1. k + 1 \in 1..m /\ k \in Nat
    BY <1>1
  <2> QED
    BY <2>1 DEF Readers, Keepers
<1> HIDE DEF W, X, m
<1>3. /\ \A k \in Nat : CountTo(W, k) \in Nat
      /\ \A k \in Nat : k + 1 \notin W => CountTo(W, k + 1) = CountTo(W, k)
      /\ \A k \in Nat : k + 1 \in W => CountTo(W, k + 1) = CountTo(W, k) + 1
      /\ \A j, k \in Nat : j <= k => CountTo(W, j) <= CountTo(W, k)
      /\ CountTo(W, 0) = 0 /\ CountTo(W, m) = Cardinality(W)
  BY <1>1, CountedTo
<1>4. /\ \A k \in Nat : CountTo(X, k) \in Nat
      /\ \A k \in Nat : k + 1 \notin X => CountTo(X, k + 1) = CountTo(X, k)
      /\ \A k \in Nat : k + 1 \in X => CountTo(X, k + 1) = CountTo(X, k) + 1
      /\ \A j, k \in Nat : j <= k => CountTo(X, j) <= CountTo(X, k)
      /\ CountTo(X, 0) = 0 /\ CountTo(X, m) = Cardinality(X)
  BY <1>1, CountedTo
<1>5. \A k : ReadTo(entries, k) = CountTo(W, k) /\ KeptTo(entries, k) = CountTo(X, k)
  BY Zenon DEF ReadTo, KeptTo, W, X
<1>6. ASSUME NEW k \in 0..m - 1 PROVE OneEntryMore(entries, k)
  <2>1. k \in Nat /\ (k + 1 \in W <=> entries[k + 1] # "-") /\ (k + 1 \in X <=> entries[k + 1] # "q")
    BY <1>2
  <2>2. CountTo(W, k) \in Nat /\ CountTo(W, k + 1) = CountTo(W, k) + IF k + 1 \in W THEN 1 ELSE 0
    <3> DEFINE u == CountTo(W, k)
               v == CountTo(W, k + 1)
    <3>1. u \in Nat /\ (k + 1 \notin W => v = u) /\ (k + 1 \in W => v = u + 1)
      BY <1>3, <2>1
    <3> HIDE DEF u, v
    <3>2. u \in Nat /\ v = u + IF k + 1 \in W THEN 1 ELSE 0
      BY <3>1
    <3> QED
      BY <3>2 DEF u, v
  <2>3. CountTo(X, k) \in Nat /\ CountTo(X, k + 1) = CountTo(X, k) + IF k + 1 \in X THEN 1 ELSE 0
    <3> DEFINE u == CountTo(X, k)
               v == CountTo(X, k + 1)
    <3>1. u \in Nat /\ (k + 1 \notin X => v = u) /\ (k + 1 \in X => v = u + 1)
      BY <1>4, <2>1
    <3> HIDE DEF u, v
    <3>2. u \in Nat /\ v = u + IF k + 1 \in X THEN 1 ELSE 0
      BY <3>1
    <3> QED
      BY <3>2 DEF u, v
  <2>4. CountTo(W, k + 1) = CountTo(W, k) + IF entries[k + 1] = "-" THEN 0 ELSE 1
    BY <2>1, <2>2
  <2>5. CountTo(X, k + 1) = CountTo(X, k) + IF entries[k + 1] = "q" THEN 0 ELSE 1
    BY <2>1, <2>3
  <2> QED
    BY <1>5, <2>4, <2>5, Zenon DEF OneEntryMore
<1> QED
  BY <1>3, <1>4, <1>5, <1>6 DEF W, X, m

\* A quiet entry has no cell.
LEMMA QuietCell ==
  ASSUME NEW entries, Len(entries) \in Nat, NEW nums, NEW k \in 0..Len(entries) - 1, NEW cells,
         AreCells(cells, entries, nums, k), entries[k + 1] = "q"
  PROVE  AreCells(cells, entries, nums, k + 1)
<1>1. KeptTo(entries, k + 1) = KeptTo(entries, k)
  <2>1. k \in Nat
    OBVIOUS
  <2>2. OneEntryMore(entries, k) /\ KeptTo(entries, k) \in Nat
    BY <2>1, EntriesCount
  <2> QED
    BY <2>2 DEF OneEntryMore
<1>2. \A j \in 1..k + 1 : j \in 1..k \/ j = k + 1
  OBVIOUS
<1> QED
  BY <1>1, <1>2 DEF AreCells

\* Another has one more.
LEMMA OneCellMore ==
  ASSUME NEW entries, Len(entries) \in Nat, NEW nums, NEW k \in 0..Len(entries) - 1, NEW cells,
         AreCells(cells, entries, nums, k), entries[k + 1] # "q"
  PROVE  AreCells(cells \o <<CellOf(entries, nums, k + 1)>>, entries, nums, k + 1)
<1> DEFINE v == CellOf(entries, nums, k + 1)
           new == cells \o <<v>>
           kept(j) == KeptTo(entries, j)
<1>1. PICK S : cells \in Seq(S)
  BY DEF AreCells
<1>2. Len(new) = Len(cells) + 1 /\ new[Len(cells) + 1] = v /\ \A j \in 1..Len(cells) : new[j] = cells[j]
  <2> HIDE DEF v
  <2> QED
    BY <1>1, AppendedIs
<1>3. \E R : new \in Seq(R)
  <2> DEFINE R == S \cup {v}
  <2>1. cells \in Seq(R) /\ <<v>> \in Seq(R)
    <3> HIDE DEF v
    <3>1. <<v>> \in Seq(R)
      OBVIOUS
    <3>2. cells \in Seq(R)
      BY <1>1
    <3> QED
      BY <3>1, <3>2
  <2> HIDE DEF R, v
  <2>2. new \in Seq(R)
    BY <2>1, Joining
  <2> QED
    BY <2>2
<1> HIDE DEF v, new
<1>4. Len(cells) = kept(k) /\ kept(k + 1) = kept(k) + 1 /\ \A j \in 1..k : kept(j) \in Nat /\ kept(j) <= kept(k)
  <2>1. k \in Nat /\ \A j \in 1..k : j \in Nat /\ j <= k
    OBVIOUS
  <2>2. OneEntryMore(entries, k) /\ kept(k) \in Nat
    BY <2>1, EntriesCount
  <2>3. \A j \in 1..k : kept(j) \in Nat /\ kept(j) <= kept(k)
    BY <2>1, EntriesCount
  <2>4. Len(cells) = kept(k)
    BY DEF AreCells
  <2>5. kept(k + 1) = kept(k) + 1
    BY <2>2 DEF OneEntryMore
  <2> QED
    BY <2>3, <2>4, <2>5
<1>5. ASSUME NEW j \in 1..k, entries[j] # "q" PROVE kept(j) \in 1..Len(cells)
  <2>1. j - 1 \in 0..Len(entries) - 1 /\ (j - 1) + 1 = j /\ j - 1 \in Nat
    OBVIOUS
  <2> DEFINE i == j - 1
  <2>3. OneEntryMore(entries, i) /\ kept(i) \in Nat /\ i + 1 = j
    BY <2>1, EntriesCount
  <2> HIDE DEF i
  <2>2. kept(j) = kept(i) + 1 /\ kept(i) \in Nat
    BY <1>5, <2>3 DEF OneEntryMore
  <2> QED
    BY <1>4, <2>2
<1>6. \A j \in 1..k : entries[j] # "q" => new[kept(j)] = CellOf(entries, nums, j)
  BY <1>2, <1>5 DEF AreCells
<1>7. new[kept(k + 1)] = v
  BY <1>2, <1>4
<1>8. \A j \in 1..k + 1 : j \in 1..k \/ j = k + 1
  OBVIOUS
<1>9. Len(new) = kept(k + 1)
  BY <1>2, <1>4
<1> HIDE DEF kept
<1>10. \A j \in 1..k + 1 : entries[j] # "q" => new[kept(j)] = CellOf(entries, nums, j)
  BY <1>6, <1>7, <1>8 DEF v
<1> QED
  BY <1>3, <1>9, <1>10, Zenon DEF AreCells, new, v, kept

(***************************************************************************)
(* A reading, part by part.                                                *)
(***************************************************************************)
IsReading(a, at, p, ret, cells, d, o, types) ==
  /\ DOMAIN a = {"f", "p", "ret", "cells", "doSave", "delim", "outer", "rest"}
  /\ a.f = at /\ a.p = p /\ a.ret = ret /\ a.cells = cells /\ a.delim = d /\ a.outer = o /\ a.rest = types

\* It goes on.
LEMMA ReadingGoesTo ==
  ASSUME NEW t, NEW at, NEW p, NEW ret, NEW cells, NEW d, NEW o, NEW types, NEW nf, NEW q, NEW a,
         IsReading(a, at, p, ret, cells, d, o, types)
  PROVE  /\ IsReading(GoTo(a, t, nf, q), nf, SkipOneSpacer(d, t, q), ret, cells, d, o, types)
         /\ GoTo(a, t, nf, q).doSave = a.doSave
<1> DEFINE z == SkipOneSpacer(d, t, q)
           b == [a EXCEPT !.f = nf, !.p = z]
<1>1. a.delim = d
  BY DEF IsReading
<1>2. GoTo(a, t, nf, q) = b
  BY <1>1, Zenon DEF GoTo
<1> HIDE DEF z
<1>3. DOMAIN a = {"f", "p", "ret", "cells", "doSave", "delim", "outer", "rest"}
  BY DEF IsReading
<1>4. DOMAIN b = DOMAIN a
  OBVIOUS
<1>5. b.f = nf /\ b.p = z /\ b.ret = a.ret /\ b.cells = a.cells /\ b.delim = a.delim /\ b.outer = a.outer /\ b.rest = a.rest
  BY <1>3
<1>6. b.doSave = a.doSave
  BY <1>3
<1> HIDE DEF b
<1> QED
  BY <1>2, <1>4, <1>5, <1>6, Zenon DEF IsReading, z

\* It keeps a cell, unless it is quiet.
LEMMA ReadingKeeps ==
  ASSUME NEW at, NEW p, NEW ret, NEW cells, NEW d, NEW o, NEW types, NEW v, NEW a,
         IsReading(a, at, p, ret, cells, d, o, types)
  PROVE  /\ a.doSave => /\ IsReading(Keep(a, <<v>>), at, p, ret, cells \o <<v>>, d, o, types)
                        /\ Keep(a, <<v>>).doSave = a.doSave
         /\ ~a.doSave => Keep(a, <<v>>) = a
<1> DEFINE new == cells \o <<v>>
           b == [a EXCEPT !.cells = new]
<1>1. DOMAIN a = {"f", "p", "ret", "cells", "doSave", "delim", "outer", "rest"} /\ a.cells = cells
  BY DEF IsReading
<1>2. a.doSave => Keep(a, <<v>>) = b
  BY <1>1, Zenon DEF Keep
<1>3. ~a.doSave => Keep(a, <<v>>) = a
  BY Zenon DEF Keep
<1> HIDE DEF new
<1>4. DOMAIN b = DOMAIN a
  OBVIOUS
<1>5. b.f = a.f /\ b.p = a.p /\ b.ret = a.ret /\ b.cells = new /\ b.delim = a.delim /\ b.outer = a.outer /\ b.rest = a.rest
  BY <1>1
<1>6. b.doSave = a.doSave
  BY <1>1
<1> HIDE DEF b
<1>7. IsReading(b, at, p, ret, new, d, o, types)
  BY <1>4, <1>5, Zenon DEF IsReading
<1> QED
  BY <1>2, <1>3, <1>6, <1>7, Zenon DEF new

\* What an entry makes of it.
LEMMA EntryOfReading ==
  ASSUME NEW t, NEW at, NEW p, NEW ret, NEW cells, NEW d, NEW o, NEW types, NEW nf, NEW v, NEW q, NEW a,
         IsReading(a, at, p, ret, cells, d, o, types), a.doSave \in BOOLEAN,
         NEW r, r = [ok |-> TRUE, v |-> v, p |-> q]
  PROVE  /\ IsReading(Entry(a, t, nf, r), nf, SkipOneSpacer(d, t, q), ret, IF a.doSave THEN cells \o <<v>> ELSE cells,
                      d, o, types)
         /\ Entry(a, t, nf, r).doSave = a.doSave
<1> DEFINE b == Keep(a, <<v>>)
           new == cells \o <<v>>
<1>1. r.ok /\ r.v = v /\ r.p = q
  OBVIOUS
<1>2. Entry(a, t, nf, r) = GoTo(b, t, nf, q)
  BY <1>1, Zenon DEF Entry
<1>3. /\ a.doSave => IsReading(b, at, p, ret, new, d, o, types) /\ b.doSave = a.doSave
      /\ ~a.doSave => b = a
  BY ReadingKeeps
<1> HIDE DEF b, new
<1>4. CASE a.doSave
  <2>1. IsReading(b, at, p, ret, new, d, o, types) /\ b.doSave = a.doSave
    BY <1>3, <1>4
  <2>2. IsReading(GoTo(b, t, nf, q), nf, SkipOneSpacer(d, t, q), ret, new, d, o, types) /\ GoTo(b, t, nf, q).doSave = b.doSave
    BY <2>1, ReadingGoesTo
  <2> QED
    BY <1>2, <1>4, <2>1, <2>2, Zenon DEF new
<1>5. CASE ~a.doSave
  <2>1. b = a
    BY <1>3, <1>5
  <2>2. IsReading(GoTo(a, t, nf, q), nf, SkipOneSpacer(d, t, q), ret, cells, d, o, types) /\ GoTo(a, t, nf, q).doSave = a.doSave
    BY ReadingGoesTo
  <2> QED
    BY <1>2, <1>5, <2>1, <2>2, Zenon
<1> QED
  BY <1>4, <1>5

\* And the one after a -.
LEMMA SkipOfReading ==
  ASSUME NEW t, NEW at, NEW p, NEW ret, NEW cells, NEW d, NEW o, NEW types, NEW nf, NEW v, NEW q, NEW a,
         IsReading(a, at, p, ret, cells, d, o, types), a.doSave \in BOOLEAN
  PROVE  /\ IsReading(GoTo(Keep(a, <<v>>), t, nf, q), nf, SkipOneSpacer(d, t, q), ret,
                      IF a.doSave THEN cells \o <<v>> ELSE cells, d, o, types)
         /\ GoTo(Keep(a, <<v>>), t, nf, q).doSave = a.doSave
<1> DEFINE r == [ok |-> TRUE, v |-> v, p |-> q]
<1>1. r = [ok |-> TRUE, v |-> v, p |-> q] /\ r.ok /\ r.v = v /\ r.p = q
  OBVIOUS
<1> HIDE DEF r
<1>2. Entry(a, t, nf, r) = GoTo(Keep(a, <<v>>), t, nf, q)
  BY <1>1, Zenon DEF Entry
<1>3. /\ IsReading(Entry(a, t, nf, r), nf, SkipOneSpacer(d, t, q), ret, IF a.doSave THEN cells \o <<v>> ELSE cells,
                   d, o, types)
      /\ Entry(a, t, nf, r).doSave = a.doSave
  BY <1>1, EntryOfReading
<1> QED
  BY <1>2, <1>3, Zenon

\* An answer, and a brace.
LEMMA ReadingAnswers ==
  ASSUME NEW at, NEW p, NEW ret, NEW cells, NEW d, NEW o, NEW types, NEW a, NEW r,
         IsReading(a, at, p, ret, cells, d, o, types)
  PROVE  IsReading([a EXCEPT !.ret = r], at, p, r, cells, d, o, types)
<1> DEFINE b == [a EXCEPT !.ret = r]
<1>1. DOMAIN a = {"f", "p", "ret", "cells", "doSave", "delim", "outer", "rest"}
  BY DEF IsReading
<1>2. DOMAIN b = DOMAIN a
  OBVIOUS
<1>3. b.f = a.f /\ b.p = a.p /\ b.ret = r /\ b.cells = a.cells /\ b.delim = a.delim /\ b.outer = a.outer /\ b.rest = a.rest
  BY <1>1
<1> HIDE DEF b
<1> QED
  BY <1>2, <1>3, Zenon DEF IsReading, b

LEMMA ReadingTurns ==
  ASSUME NEW at, NEW p, NEW ret, NEW cells, NEW d, NEW o, NEW types, NEW a, NEW nf, NEW keeps,
         IsReading(a, at, p, ret, cells, d, o, types)
  PROVE  /\ IsReading(Brace(a, nf, keeps), nf, p, ret, cells, d, o, types)
         /\ Brace(a, nf, keeps).doSave = keeps
<1> DEFINE b == [a EXCEPT !.f = nf, !.doSave = keeps]
<1>1. DOMAIN a = {"f", "p", "ret", "cells", "doSave", "delim", "outer", "rest"}
  BY DEF IsReading
<1>2. DOMAIN b = DOMAIN a
  OBVIOUS
<1>3. b.f = nf /\ b.p = a.p /\ b.ret = a.ret /\ b.cells = a.cells /\ b.delim = a.delim /\ b.outer = a.outer /\ b.rest = a.rest
  BY <1>1
<1>4. b.doSave = keeps
  BY <1>1
<1> HIDE DEF b
<1> QED
  BY <1>2, <1>3, <1>4, Zenon DEF IsReading, b, Brace

(***************************************************************************)
(* A reading of an enumeration: its entries are in types, and its numerals *)
(* in text, of which nums is the list.                                     *)
(***************************************************************************)
EntryAt(types, at, entries, k) ==
  /\ at[k] \in Nat \ {0} /\ at[k + 1] \in Nat \ {0} /\ entries[k] \in {"i", "q", "-"}
  /\ entries[k] = "i" => Ch(types, at[k]) = "i" /\ at[k + 1] = at[k] + 1
  /\ entries[k] = "-" => Ch(types, at[k]) = "-" /\ Ch(types, at[k] + 1) = "i" /\ at[k + 1] = at[k] + 2
  /\ entries[k] = "q" => /\ Ch(types, at[k]) = Opening /\ Ch(types, at[k] + 1) = "i" /\ Ch(types, at[k] + 2) = Closing
                         /\ at[k + 1] = at[k] + 3

AreEntries(types, at, entries) ==
  /\ Len(types) \in Nat /\ Len(entries) \in Nat /\ at[1] = 1 /\ at[Len(entries) + 1] = Len(types) + 1
  /\ \A k \in 1..Len(entries) : EntryAt(types, at, entries, k)

AreValues(text, places, nums, x, d) ==
  /\ \E S : text \in Seq(S)
  /\ Stands(text, places, nums, x) /\ Parting(d, x)
  /\ places[1] = 1 /\ places[Len(nums) + 1] = Len(text) + 1

Fits(g) == AreEntries(g.types, g.at, g.entries) /\ AreValues(g.text, g.places, g.nums, g.by, g.delim)

(* In front of the entry after the k-th, or in it if it is a quiet one *)
InFront(g, a, k) ==
  \E cells : /\ AreCells(cells, g.entries, g.nums, k) /\ ReadTo(g.entries, k) <= Len(g.nums)
             /\ IsReading(a, g.at[k + 1], g.places[ReadTo(g.entries, k) + 1], "run", cells, g.delim, g.outer, g.types)
             /\ a.doSave = TRUE

InSection(g, a, k) ==
  \E cells : /\ AreCells(cells, g.entries, g.nums, k) /\ ReadTo(g.entries, k) < Len(g.nums)
             /\ IsReading(a, g.at[k + 1] + 1, g.places[ReadTo(g.entries, k) + 1], "run", cells, g.delim, g.outer, g.types)
             /\ a.doSave = FALSE

EndOfSection(g, a, k) ==
  \E cells : /\ AreCells(cells, g.entries, g.nums, k) /\ ReadTo(g.entries, k) < Len(g.nums)
             /\ IsReading(a, g.at[k + 1] + 2, g.places[(ReadTo(g.entries, k) + 1) + 1], "run", cells, g.delim, g.outer, g.types)
             /\ a.doSave = FALSE

(* At the end, behind the k-th *)
Complete(g, k) == IF k = Len(g.entries) THEN "TRUE" ELSE "CONT"

Behind(g, a, k) ==
  \E cells, p, at : /\ AreCells(cells, g.entries, g.nums, k) /\ ReadTo(g.entries, k) <= Len(g.nums)
                    /\ k # Len(g.entries) => ReadTo(g.entries, k) = Len(g.nums)
                    /\ IsReading(a, at, p, Complete(g, k), cells, g.delim, g.outer, g.types)

\* Where the entries are.
LEMMA EntryPlaces ==
  ASSUME NEW types, NEW at, NEW entries, AreEntries(types, at, entries)
  PROVE  /\ \A k \in 1..Len(entries) : /\ at[k] \in 1..Len(types) /\ at[k + 1] \in Nat /\ at[k] < at[k + 1]
                                       /\ entries[k] = "q" => at[k] + 2 \in 1..Len(types) /\ at[k] + 3 = at[k + 1]
                                       /\ Ch(types, at[k]) # NUL /\ Ch(types, at[k]) # Closing
         /\ at[Len(entries) + 1] = Len(types) + 1 /\ Ch(types, at[Len(entries) + 1]) = NUL
<1>1. ASSUME NEW k \in 1..Len(entries)
      PROVE  /\ at[k] \in 1..Len(types) /\ at[k + 1] \in Nat /\ at[k] < at[k + 1]
             /\ entries[k] = "q" => at[k] + 2 \in 1..Len(types) /\ at[k] + 3 = at[k + 1]
             /\ Ch(types, at[k]) # NUL /\ Ch(types, at[k]) # Closing
  <2>1. EntryAt(types, at, entries, k)
    BY Zenon DEF AreEntries
  <2>2. /\ "i" # NUL /\ "i" # Closing /\ "-" # NUL /\ "-" # Closing /\ Opening # NUL /\ Opening # Closing
        /\ Closing # NUL
    BY Zenon DEF NUL, Opening, Closing
  <2> HIDE DEF Opening, Closing
  <2>3. Ch(types, at[k]) # NUL /\ Ch(types, at[k]) # Closing
    BY <2>1, <2>2, Zenon DEF EntryAt
  <2>4. at[k] \in 1..Len(types)
    BY <2>3, Inside
  <2>5. at[k] \in Nat /\ at[k + 1] \in Nat /\ at[k] < at[k + 1] /\ (entries[k] = "q" => at[k] + 3 = at[k + 1])
    BY <2>1 DEF EntryAt
  <2>6. ASSUME entries[k] = "q" PROVE at[k] + 2 \in 1..Len(types)
    <3>1. Ch(types, at[k] + 2) # NUL
      BY <2>1, <2>2, <2>6, Zenon DEF EntryAt
    <3> QED
      BY <3>1, Inside
  <2> QED
    BY <2>3, <2>4, <2>5, <2>6
<1>2. at[Len(entries) + 1] = Len(types) + 1
  BY DEF AreEntries
<1>3. Ch(types, Len(types) + 1) = NUL
  BY DEF AreEntries, Ch
<1> QED
  BY <1>1, <1>2, <1>3

\* What is at the places of the numerals.
LEMMA ValuePlaces ==
  ASSUME NEW text, NEW places, NEW nums, NEW x, NEW d, AreValues(text, places, nums, x, d)
  PROVE  /\ Len(nums) \in Nat
         /\ \A j \in 0..Len(nums) - 1 : IsTaken(d, text, places, nums, j + 1)
         /\ Ch(text, places[Len(nums) + 1]) = NUL
         /\ \A j \in 0..Len(nums) - 1 : /\ SkipOneSpacer(d, text, places[j + 1]) = places[j + 1]
                                        /\ Ch(text, places[j + 1]) # NUL
<1>1. PICK S : text \in Seq(S)
  BY DEF AreValues
<1>2. Stands(text, places, nums, x) /\ Parting(d, x) /\ places[Len(nums) + 1] = Len(text) + 1
  BY DEF AreValues
<1>3. Len(nums) \in Nat
  BY <1>2, Zenon DEF Stands
<1>4. ASSUME NEW j \in 0..Len(nums) - 1
      PROVE  /\ IsTaken(d, text, places, nums, j + 1)
             /\ SkipOneSpacer(d, text, places[j + 1]) = places[j + 1] /\ Ch(text, places[j + 1]) # NUL
  <2> DEFINE k == j + 1
  <2>1. k \in 1..Len(nums) /\ k \in 1..Len(nums) + 1
    BY <1>3
  <2> HIDE DEF k
  <2>2. IsTaken(d, text, places, nums, k)
    BY <1>1, <1>2, <2>1, NumeralTaken
  <2>3. Ch(text, places[k]) \in Dec /\ Ch(text, places[k]) # NUL
    BY <2>2, Zenon DEF IsTaken
  <2>4. places[k] \in Nat \ {0}
    BY <1>2, <2>1, NumeralsGoUp
  <2>5. SkipOneSpacer(d, text, places[k]) = places[k]
    BY <1>1, <1>2, <2>3, <2>4, NothingThere
  <2> QED
    BY <2>2, <2>3, <2>5 DEF k
<1>5. Ch(text, Len(text) + 1) = NUL
  BY <1>1 DEF Ch
<1> QED
  BY <1>2, <1>3, <1>4, <1>5

\* The answer, where the input ends in front of an entry or in a section.
LEMMA AtEndIs ==
  ASSUME NEW types, NEW at, NEW entries, AreEntries(types, at, entries), NEW k \in 0..Len(entries)
  PROVE  /\ EntriesEnd(types, at[k + 1]) = IF k = Len(entries) THEN "TRUE" ELSE "CONT"
         /\ k # Len(entries) /\ entries[k + 1] = "q" =>
              EntriesEnd(types, at[k + 1] + 2) = IF k + 1 = Len(entries) THEN "TRUE" ELSE "CONT"
<1>1. k = Len(entries) => EntriesEnd(types, at[k + 1]) = "TRUE"
  <2>1. Ch(types, at[Len(entries) + 1]) = NUL
    BY EntryPlaces
  <2> QED
    BY <2>1, Zenon DEF EntriesEnd
<1>2. ASSUME k # Len(entries) PROVE EntriesEnd(types, at[k + 1]) = "CONT"
  <2> DEFINE i == k + 1
  <2>1. i \in 1..Len(entries)
    BY <1>2 DEF AreEntries
  <2> HIDE DEF i
  <2>2. Ch(types, at[i]) # NUL /\ Ch(types, at[i]) # Closing
    BY <2>1, EntryPlaces
  <2>3. EntriesEnd(types, at[i]) = "CONT"
    BY <2>2, Zenon DEF EntriesEnd
  <2> QED
    BY <2>3 DEF i
<1>3. ASSUME k # Len(entries), entries[k + 1] = "q"
      PROVE  EntriesEnd(types, at[k + 1] + 2) = IF k + 1 = Len(entries) THEN "TRUE" ELSE "CONT"
  <2> DEFINE i == k + 1
             q == at[i] + 2
  <2>1. i \in 1..Len(entries) /\ Len(entries) \in Nat
    BY <1>3 DEF AreEntries
  <2>2. entries[i] = "q"
    BY <1>3
  <2> HIDE DEF i
  <2>3. EntryAt(types, at, entries, i)
    BY <2>1, Zenon DEF AreEntries
  <2>4. Ch(types, q) = Closing
    BY <2>2, <2>3, Zenon DEF EntryAt
  <2>5. q + 1 = at[i + 1]
    <3>1. \A j \in 1..Len(entries) : at[j] \in 1..Len(types) /\ (entries[j] = "q" => at[j] + 3 = at[j + 1])
      BY EntryPlaces
    <3>2. at[i] \in 1..Len(types) /\ at[i] + 3 = at[i + 1]
      BY <2>1, <2>2, <3>1, Zenon
    <3> QED
      BY <3>2
  <2> HIDE DEF q
  <2>6. Closing # NUL
    BY Zenon DEF Closing, NUL
  <2>7. CASE i = Len(entries)
    <3>1. Ch(types, at[Len(entries) + 1]) = NUL
      BY EntryPlaces
    <3>2. Ch(types, q + 1) = NUL
      BY <2>5, <2>7, <3>1
    <3>3. EntriesEnd(types, q) = "TRUE"
      BY <2>4, <3>2, Zenon DEF EntriesEnd
    <3> QED
      BY <2>7, <3>3 DEF i, q
  <2>8. CASE i # Len(entries)
    <3>1. i + 1 \in 1..Len(entries)
      BY <2>1, <2>8
    <3>2. Ch(types, q + 1) # NUL
      BY <2>5, <3>1, EntryPlaces
    <3>3. EntriesEnd(types, q) = "CONT"
      BY <2>4, <2>6, <3>2, Zenon DEF EntriesEnd
    <3> QED
      BY <2>8, <3>3 DEF i, q
  <2> QED
    BY <2>7, <2>8
<1> QED
  BY <1>1, <1>2, <1>3

(* One turn of the loop *)
Turned(g, options, defaults, a) == EntryStep(g.types, options, g.text, defaults, a)

\* Once the input has ended, so has the reading.
LEMMA TurnAtEnd ==
  ASSUME NEW g, Fits(g), NEW options, NEW defaults, NEW a, NEW k \in 0..Len(g.entries), InFront(g, a, k),
         ReadTo(g.entries, k) = Len(g.nums)
  PROVE  Behind(g, Turned(g, options, defaults, a), k)
<1> DEFINE b == Turned(g, options, defaults, a)
           p == g.places[ReadTo(g.entries, k) + 1]
           q == g.at[k + 1]
<1>1. PICK cells :
        /\ AreCells(cells, g.entries, g.nums, k) /\ ReadTo(g.entries, k) <= Len(g.nums)
        /\ IsReading(a, q, p, "run", cells, g.delim, g.outer, g.types)
  BY Zenon DEF InFront
<1>2. Ch(g.text, p) = NUL
  <2>1. AreValues(g.text, g.places, g.nums, g.by, g.delim)
    BY DEF Fits
  <2>2. Ch(g.text, g.places[Len(g.nums) + 1]) = NUL
    BY <2>1, ValuePlaces
  <2> QED
    BY <2>2
<1>3. EntriesEnd(g.types, q) = Complete(g, k)
  <2>1. AreEntries(g.types, g.at, g.entries)
    BY DEF Fits
  <2>2. EntriesEnd(g.types, g.at[k + 1]) = IF k = Len(g.entries) THEN "TRUE" ELSE "CONT"
    BY <2>1, AtEndIs
  <2> QED
    BY <2>2 DEF Complete
<1> HIDE DEF p, q
<1>4. a.ret = "run" /\ a.p = p /\ a.f = q
  BY <1>1, Zenon DEF IsReading
<1>5. b = [a EXCEPT !.ret = EntriesEnd(g.types, a.f)]
  <2>1. Ch(g.text, a.p) = NUL
    BY <1>2, <1>4
  <2> QED
    BY <1>4, <2>1, StopsAtEnd DEF Turned
<1>6. b = [a EXCEPT !.ret = Complete(g, k)]
  BY <1>3, <1>4, <1>5, Zenon
<1>7. IsReading([a EXCEPT !.ret = Complete(g, k)], q, p, Complete(g, k), cells, g.delim, g.outer, g.types)
  BY <1>1, ReadingAnswers
<1> HIDE DEF b
<1>8. IsReading(b, q, p, Complete(g, k), cells, g.delim, g.outer, g.types)
  BY <1>6, <1>7, Zenon
<1>9. k # Len(g.entries) => ReadTo(g.entries, k) = Len(g.nums)
  OBVIOUS
<1> QED
  BY <1>1, <1>8, <1>9, Zenon DEF Behind, b

\* Behind the last entry, too.
LEMMA TurnAtFormatEnd ==
  ASSUME NEW g, Fits(g), NEW options, NEW defaults, NEW a, NEW k, k = Len(g.entries), InFront(g, a, k),
         ReadTo(g.entries, k) \in Nat, ReadTo(g.entries, k) < Len(g.nums)
  PROVE  Behind(g, Turned(g, options, defaults, a), k)
<1> DEFINE b == Turned(g, options, defaults, a)
           p == g.places[ReadTo(g.entries, k) + 1]
           q == g.at[k + 1]
<1>1. PICK cells :
        /\ AreCells(cells, g.entries, g.nums, k) /\ ReadTo(g.entries, k) <= Len(g.nums)
        /\ IsReading(a, q, p, "run", cells, g.delim, g.outer, g.types)
  BY Zenon DEF InFront
<1>2. Ch(g.text, p) # NUL
  <2>1. AreValues(g.text, g.places, g.nums, g.by, g.delim)
    BY DEF Fits
  <2>2. /\ Len(g.nums) \in Nat
        /\ \A j \in 0..Len(g.nums) - 1 : /\ SkipOneSpacer(g.delim, g.text, g.places[j + 1]) = g.places[j + 1]
                                         /\ Ch(g.text, g.places[j + 1]) # NUL
    BY <2>1, ValuePlaces
  <2>3. ReadTo(g.entries, k) \in 0..Len(g.nums) - 1
    BY <2>2
  <2> QED
    BY <2>2, <2>3
<1>3. Ch(g.types, q) = NUL
  <2>1. AreEntries(g.types, g.at, g.entries)
    BY DEF Fits
  <2>2. Ch(g.types, g.at[Len(g.entries) + 1]) = NUL
    BY <2>1, EntryPlaces
  <2> QED
    BY <2>2
<1> HIDE DEF p, q
<1>4. a.ret = "run" /\ a.p = p /\ a.f = q
  BY <1>1, Zenon DEF IsReading
<1>5. b = [a EXCEPT !.ret = "TRUE"]
  <2>1. EntryFollows(g.types, g.text, a, NUL)
    BY <1>2, <1>3, <1>4, Zenon DEF EntryFollows
  <2> QED
    BY <2>1, StepAtFormatEnd DEF Turned
<1>6. Complete(g, k) = "TRUE"
  BY DEF Complete
<1>7. IsReading([a EXCEPT !.ret = "TRUE"], q, p, "TRUE", cells, g.delim, g.outer, g.types)
  BY <1>1, ReadingAnswers
<1> HIDE DEF b
<1>8. IsReading(b, q, p, Complete(g, k), cells, g.delim, g.outer, g.types)
  BY <1>5, <1>6, <1>7, Zenon
<1>9. k # Len(g.entries) => ReadTo(g.entries, k) = Len(g.nums)
  OBVIOUS
<1> QED
  BY <1>1, <1>8, <1>9, Zenon DEF Behind, b

\* In front of an entry that reads, with a number to be read.
LEMMA MoreInFront ==
  ASSUME NEW g, Fits(g), NEW r \in Nat, r < Len(g.nums)
  PROVE  /\ IsTaken(g.delim, g.text, g.places, g.nums, r + 1)
         /\ SkipOneSpacer(g.delim, g.text, g.places[r + 1]) = g.places[r + 1]
         /\ Ch(g.text, g.places[r + 1]) # NUL
<1>1. AreValues(g.text, g.places, g.nums, g.by, g.delim)
  BY DEF Fits
<1>2. /\ Len(g.nums) \in Nat
      /\ \A j \in 0..Len(g.nums) - 1 : IsTaken(g.delim, g.text, g.places, g.nums, j + 1)
      /\ \A j \in 0..Len(g.nums) - 1 : /\ SkipOneSpacer(g.delim, g.text, g.places[j + 1]) = g.places[j + 1]
                                       /\ Ch(g.text, g.places[j + 1]) # NUL
  BY <1>1, ValuePlaces
<1>3. r \in 0..Len(g.nums) - 1
  BY <1>2
<1> QED
  BY <1>2, <1>3

\* How an entry counts.
LEMMA EntryCounts ==
  ASSUME NEW g, Fits(g), NEW k \in 0..Len(g.entries) - 1
  PROVE  /\ k \in Nat /\ k + 1 \in 1..Len(g.entries) /\ Len(g.entries) \in Nat
         /\ EntryAt(g.types, g.at, g.entries, k + 1)
         /\ ReadTo(g.entries, k) \in Nat
         /\ ReadTo(g.entries, k + 1) = ReadTo(g.entries, k) + IF g.entries[k + 1] = "-" THEN 0 ELSE 1
<1>1. AreEntries(g.types, g.at, g.entries)
  BY DEF Fits
<1>2. Len(g.entries) \in Nat /\ \A j \in 1..Len(g.entries) : EntryAt(g.types, g.at, g.entries, j)
  BY <1>1, Zenon DEF AreEntries
<1>3. k \in Nat /\ k + 1 \in 1..Len(g.entries)
  BY <1>2
<1>4. ReadTo(g.entries, k) \in Nat /\ OneEntryMore(g.entries, k)
  BY <1>2, <1>3, EntriesCount
<1> QED
  BY <1>2, <1>3, <1>4, Zenon DEF OneEntryMore

\* A number is read.
LEMMA TurnAtInt ==
  ASSUME NEW g, Fits(g), NEW options, NEW defaults, NEW a, NEW k \in 0..Len(g.entries) - 1, InFront(g, a, k),
         ReadTo(g.entries, k) < Len(g.nums), g.entries[k + 1] = "i"
  PROVE  InFront(g, Turned(g, options, defaults, a), k + 1)
<1> DEFINE b == Turned(g, options, defaults, a)
           m == ReadTo(g.entries, k)
           p == g.places[m + 1]
           q == g.at[k + 1]
           v == Number(g.nums[m + 1])
           z == p + Len(g.nums[m + 1])
           r == Do("i", g.delim, g.text, p)
<1>1. PICK cells :
        /\ AreCells(cells, g.entries, g.nums, k)
        /\ IsReading(a, q, p, "run", cells, g.delim, g.outer, g.types) /\ a.doSave = TRUE
  BY Zenon DEF InFront
<1>2. /\ EntryAt(g.types, g.at, g.entries, k + 1) /\ m \in Nat
      /\ ReadTo(g.entries, k + 1) = m + IF g.entries[k + 1] = "-" THEN 0 ELSE 1
  BY EntryCounts
<1>3. ReadTo(g.entries, k + 1) = m + 1 /\ m + 1 <= Len(g.nums)
  <2>1. AreValues(g.text, g.places, g.nums, g.by, g.delim)
    BY DEF Fits
  <2>2. Len(g.nums) \in Nat
    BY <2>1, ValuePlaces
  <2> QED
    BY <1>2, <2>2
<1>4. IsTaken(g.delim, g.text, g.places, g.nums, m + 1) /\ Ch(g.text, p) # NUL
  BY <1>2, MoreInFront
<1>5. r = [ok |-> TRUE, v |-> v, p |-> z] /\ SkipOneSpacer(g.delim, g.text, z) = g.places[(m + 1) + 1]
  BY <1>4, Zenon DEF IsTaken
<1>6. Ch(g.types, q) = "i" /\ g.at[(k + 1) + 1] = q + 1
  BY <1>2, Zenon DEF EntryAt
<1>7. CellOf(g.entries, g.nums, k + 1) = v
  BY <1>3 DEF CellOf
<1> HIDE DEF m, p, q, v, z, r
<1>8. a.ret = "run" /\ a.p = p /\ a.f = q /\ a.delim = g.delim
  BY <1>1, Zenon DEF IsReading
<1>9. b = Entry(a, g.text, a.f + 1, Do("i", a.delim, g.text, a.p))
  <2>1. EntryFollows(g.types, g.text, a, "i")
    BY <1>4, <1>6, <1>8, Zenon DEF EntryFollows
  <2> QED
    BY <2>1, StepAtInt DEF Turned
<1>10. b = Entry(a, g.text, q + 1, r)
  BY <1>8, <1>9, Zenon DEF r
<1> DEFINE e == Entry(a, g.text, q + 1, r)
<1>11. /\ IsReading(e, q + 1, SkipOneSpacer(g.delim, g.text, z), "run", IF a.doSave THEN cells \o <<v>> ELSE cells,
                    g.delim, g.outer, g.types)
       /\ e.doSave = a.doSave
  <2> DEFINE t == g.text
             d == g.delim
             o == g.outer
             T == g.types
             nf == q + 1
             run == "run"
  <2>1. IsReading(a, q, p, run, cells, d, o, T) /\ a.doSave \in BOOLEAN /\ r = [ok |-> TRUE, v |-> v, p |-> z]
    BY <1>1, <1>5
  <2> HIDE DEF t, d, o, T, nf, run
  <2>2. /\ IsReading(Entry(a, t, nf, r), nf, SkipOneSpacer(d, t, z), run, IF a.doSave THEN cells \o <<v>> ELSE cells, d, o, T)
        /\ Entry(a, t, nf, r).doSave = a.doSave
    BY <2>1, EntryOfReading
  <2> QED
    BY <2>2, Zenon DEF t, d, o, T, nf, run
<1> HIDE DEF b, e
<1>12. (IF a.doSave THEN cells \o <<v>> ELSE cells) = cells \o <<v>>
  BY <1>1
<1>13. IsReading(b, g.at[(k + 1) + 1], g.places[(m + 1) + 1], "run", cells \o <<v>>, g.delim, g.outer, g.types)
  BY <1>5, <1>6, <1>10, <1>11, <1>12, Zenon DEF e
<1>14. b.doSave = TRUE
  BY <1>1, <1>10, <1>11, Zenon DEF e
<1>15. AreCells(cells \o <<v>>, g.entries, g.nums, k + 1)
  <2>1. Len(g.entries) \in Nat /\ g.entries[k + 1] # "q"
    BY EntryCounts
  <2> QED
    BY <1>1, <1>7, <2>1, OneCellMore
<1> QED
  BY <1>3, <1>13, <1>14, <1>15, Zenon DEF InFront, b, m

\* A skipped one is not.
LEMMA TurnAtSkip ==
  ASSUME NEW g, Fits(g), NEW options, NEW defaults, NEW a, NEW k \in 0..Len(g.entries) - 1, InFront(g, a, k),
         ReadTo(g.entries, k) < Len(g.nums), g.entries[k + 1] = "-"
  PROVE  InFront(g, Turned(g, options, defaults, a), k + 1)
<1> DEFINE b == Turned(g, options, defaults, a)
           m == ReadTo(g.entries, k)
           p == g.places[m + 1]
           q == g.at[k + 1]
           v == Untouched
<1>1. PICK cells :
        /\ AreCells(cells, g.entries, g.nums, k)
        /\ IsReading(a, q, p, "run", cells, g.delim, g.outer, g.types) /\ a.doSave = TRUE
  BY Zenon DEF InFront
<1>2. /\ EntryAt(g.types, g.at, g.entries, k + 1) /\ m \in Nat
      /\ ReadTo(g.entries, k + 1) = m + IF g.entries[k + 1] = "-" THEN 0 ELSE 1
  BY EntryCounts
<1>3. ReadTo(g.entries, k + 1) = m /\ m <= Len(g.nums)
  <2>1. AreValues(g.text, g.places, g.nums, g.by, g.delim)
    BY DEF Fits
  <2>2. Len(g.nums) \in Nat
    BY <2>1, ValuePlaces
  <2> QED
    BY <1>2, <2>2
<1>4. SkipOneSpacer(g.delim, g.text, p) = p /\ Ch(g.text, p) # NUL
  BY <1>2, MoreInFront
<1>6. Ch(g.types, q) = "-" /\ Ch(g.types, q + 1) = "i" /\ g.at[(k + 1) + 1] = q + 2 /\ q \in Nat
  BY <1>2 DEF EntryAt
<1>7. CellOf(g.entries, g.nums, k + 1) = v
  BY DEF CellOf
<1>16. (q + 1) + 1 = g.at[(k + 1) + 1]
  BY <1>6
<1> HIDE DEF m, p, q, v
<1>8. a.ret = "run" /\ a.p = p /\ a.f = q
  BY <1>1, Zenon DEF IsReading
<1>9. b = GoTo(Keep(a, <<v>>), g.text, (a.f + 1) + 1, a.p)
  <2>1. EntryFollows(g.types, g.text, a, "-")
    BY <1>4, <1>6, <1>8, Zenon DEF EntryFollows
  <2>2. Ch(g.types, a.f + 1) = "i"
    BY <1>6, <1>8, Zenon
  <2> QED
    BY <2>1, <2>2, StepAtSkip DEF Turned, v
<1>10. b = GoTo(Keep(a, <<v>>), g.text, (q + 1) + 1, p)
  BY <1>8, <1>9, Zenon
<1> DEFINE e == GoTo(Keep(a, <<v>>), g.text, (q + 1) + 1, p)
<1>11. /\ IsReading(e, (q + 1) + 1, SkipOneSpacer(g.delim, g.text, p), "run", IF a.doSave THEN cells \o <<v>> ELSE cells,
                    g.delim, g.outer, g.types)
       /\ e.doSave = a.doSave
  <2> DEFINE t == g.text
             d == g.delim
             o == g.outer
             T == g.types
             nf == (q + 1) + 1
             run == "run"
  <2>1. IsReading(a, q, p, run, cells, d, o, T) /\ a.doSave \in BOOLEAN
    BY <1>1
  <2> HIDE DEF t, d, o, T, nf, run
  <2>2. /\ IsReading(GoTo(Keep(a, <<v>>), t, nf, p), nf, SkipOneSpacer(d, t, p), run,
                      IF a.doSave THEN cells \o <<v>> ELSE cells, d, o, T)
        /\ GoTo(Keep(a, <<v>>), t, nf, p).doSave = a.doSave
    BY <2>1, SkipOfReading
  <2> QED
    BY <2>2, Zenon DEF t, d, o, T, nf, run
<1> HIDE DEF b, e
<1>12. (IF a.doSave THEN cells \o <<v>> ELSE cells) = cells \o <<v>>
  BY <1>1
<1>13. IsReading(b, g.at[(k + 1) + 1], p, "run", cells \o <<v>>, g.delim, g.outer, g.types)
  BY <1>4, <1>16, <1>10, <1>11, <1>12, Zenon DEF e
<1>14. b.doSave = TRUE
  BY <1>1, <1>10, <1>11, Zenon DEF e
<1>15. AreCells(cells \o <<v>>, g.entries, g.nums, k + 1)
  <2>1. Len(g.entries) \in Nat /\ g.entries[k + 1] # "q"
    BY EntryCounts
  <2> QED
    BY <1>1, <1>7, <2>1, OneCellMore
<1> QED
  BY <1>3, <1>13, <1>14, <1>15, Zenon DEF InFront, b, m, p

\* A quiet section is entered.
LEMMA TurnAtOpening ==
  ASSUME NEW g, Fits(g), NEW options, NEW defaults, NEW a, NEW k \in 0..Len(g.entries) - 1, InFront(g, a, k),
         ReadTo(g.entries, k) < Len(g.nums), g.entries[k + 1] = "q"
  PROVE  InSection(g, Turned(g, options, defaults, a), k)
<1> DEFINE b == Turned(g, options, defaults, a)
           m == ReadTo(g.entries, k)
           p == g.places[m + 1]
           q == g.at[k + 1]
           keeps == FALSE
           e == Brace(a, q + 1, keeps)
<1>1. PICK cells :
        /\ AreCells(cells, g.entries, g.nums, k)
        /\ IsReading(a, q, p, "run", cells, g.delim, g.outer, g.types) /\ a.doSave = TRUE
  BY Zenon DEF InFront
<1>2. EntryAt(g.types, g.at, g.entries, k + 1) /\ m \in Nat
  BY EntryCounts
<1>3. Ch(g.text, p) # NUL
  BY <1>2, MoreInFront
<1>4. Ch(g.types, q) = Opening
  BY <1>2, Zenon DEF EntryAt
<1> HIDE DEF m, p, q
<1>5. a.ret = "run" /\ a.p = p /\ a.f = q
  BY <1>1, Zenon DEF IsReading
<1>6. b = e
  <2>1. EntryFollows(g.types, g.text, a, Opening)
    BY <1>3, <1>4, <1>5, Zenon DEF EntryFollows
  <2>2. b = Brace(a, a.f + 1, keeps)
    BY <2>1, StepAtOpening DEF Turned
  <2> QED
    BY <1>5, <2>2, Zenon
<1>7. IsReading(e, q + 1, p, "run", cells, g.delim, g.outer, g.types) /\ e.doSave = keeps
  <2> DEFINE t == g.text
             d == g.delim
             o == g.outer
             T == g.types
             nf == q + 1
             run == "run"
  <2>1. IsReading(a, q, p, run, cells, d, o, T)
    BY <1>1
  <2> HIDE DEF t, d, o, T, nf, run, keeps
  <2>2. /\ IsReading(Brace(a, nf, keeps), nf, p, run, cells, d, o, T)
        /\ Brace(a, nf, keeps).doSave = keeps
    BY <2>1, ReadingTurns
  <2> QED
    BY <2>2, Zenon DEF t, d, o, T, nf, run
<1>8. keeps = FALSE
  BY DEF keeps
<1> HIDE DEF b, e, keeps
<1>9. IsReading(b, q + 1, p, "run", cells, g.delim, g.outer, g.types) /\ b.doSave = FALSE
  BY <1>6, <1>7, <1>8, Zenon
<1> QED
  BY <1>1, <1>9, Zenon DEF InSection, b, m, p, q

\* A number is read in it, and not kept.
LEMMA TurnInSection ==
  ASSUME NEW g, Fits(g), NEW options, NEW defaults, NEW a, NEW k \in 0..Len(g.entries) - 1, InSection(g, a, k),
         g.entries[k + 1] = "q"
  PROVE  EndOfSection(g, Turned(g, options, defaults, a), k)
<1> DEFINE b == Turned(g, options, defaults, a)
           m == ReadTo(g.entries, k)
           p == g.places[m + 1]
           q == g.at[k + 1]
           v == Number(g.nums[m + 1])
           z == p + Len(g.nums[m + 1])
           r == Do("i", g.delim, g.text, p)
<1>1. PICK cells :
        /\ AreCells(cells, g.entries, g.nums, k) /\ m < Len(g.nums)
        /\ IsReading(a, q + 1, p, "run", cells, g.delim, g.outer, g.types) /\ a.doSave = FALSE
  BY Zenon DEF InSection
<1>2. EntryAt(g.types, g.at, g.entries, k + 1) /\ m \in Nat
  BY EntryCounts
<1>4. IsTaken(g.delim, g.text, g.places, g.nums, m + 1) /\ Ch(g.text, p) # NUL
  BY <1>1, <1>2, MoreInFront
<1>5. r = [ok |-> TRUE, v |-> v, p |-> z] /\ SkipOneSpacer(g.delim, g.text, z) = g.places[(m + 1) + 1]
  BY <1>4, Zenon DEF IsTaken
<1>6. Ch(g.types, q + 1) = "i" /\ q \in Nat
  BY <1>2, Zenon DEF EntryAt
<1>16. (q + 1) + 1 = q + 2
  BY <1>6
<1> HIDE DEF m, p, q, v, z, r
<1>8. a.ret = "run" /\ a.p = p /\ a.f = q + 1 /\ a.delim = g.delim
  BY <1>1, Zenon DEF IsReading
<1>9. b = Entry(a, g.text, a.f + 1, Do("i", a.delim, g.text, a.p))
  <2>1. EntryFollows(g.types, g.text, a, "i")
    BY <1>4, <1>6, <1>8, Zenon DEF EntryFollows
  <2> QED
    BY <2>1, StepAtInt DEF Turned
<1>10. b = Entry(a, g.text, (q + 1) + 1, r)
  BY <1>8, <1>9, Zenon DEF r
<1> DEFINE e == Entry(a, g.text, (q + 1) + 1, r)
<1>11. /\ IsReading(e, (q + 1) + 1, SkipOneSpacer(g.delim, g.text, z), "run", IF a.doSave THEN cells \o <<v>> ELSE cells,
                    g.delim, g.outer, g.types)
       /\ e.doSave = a.doSave
  <2> DEFINE t == g.text
             d == g.delim
             o == g.outer
             T == g.types
             at == q + 1
             nf == (q + 1) + 1
             run == "run"
  <2>1. IsReading(a, at, p, run, cells, d, o, T) /\ a.doSave \in BOOLEAN /\ r = [ok |-> TRUE, v |-> v, p |-> z]
    BY <1>1, <1>5
  <2> HIDE DEF t, d, o, T, nf, at, run
  <2>2. /\ IsReading(Entry(a, t, nf, r), nf, SkipOneSpacer(d, t, z), run, IF a.doSave THEN cells \o <<v>> ELSE cells, d, o, T)
        /\ Entry(a, t, nf, r).doSave = a.doSave
    BY <2>1, EntryOfReading
  <2> QED
    BY <2>2, Zenon DEF t, d, o, T, nf, run
<1> HIDE DEF b, e
<1>12. (IF a.doSave THEN cells \o <<v>> ELSE cells) = cells
  BY <1>1
<1>13. IsReading(b, q + 2, g.places[(m + 1) + 1], "run", cells, g.delim, g.outer, g.types)
  BY <1>5, <1>16, <1>10, <1>11, <1>12, Zenon DEF e
<1>14. b.doSave = FALSE
  BY <1>1, <1>10, <1>11, Zenon DEF e
<1> QED
  BY <1>1, <1>13, <1>14, Zenon DEF EndOfSection, b, m, q

\* The section is left, with more to come.
LEMMA TurnAtClosing ==
  ASSUME NEW g, Fits(g), NEW options, NEW defaults, NEW a, NEW k \in 0..Len(g.entries) - 1, EndOfSection(g, a, k),
         ReadTo(g.entries, k) + 1 < Len(g.nums), g.entries[k + 1] = "q"
  PROVE  InFront(g, Turned(g, options, defaults, a), k + 1)
<1> DEFINE b == Turned(g, options, defaults, a)
           m == ReadTo(g.entries, k)
           n == m + 1
           p == g.places[n + 1]
           q == g.at[k + 1] + 2
           keeps == TRUE
           e == Brace(a, q + 1, keeps)
<1>1. PICK cells :
        /\ AreCells(cells, g.entries, g.nums, k)
        /\ IsReading(a, q, p, "run", cells, g.delim, g.outer, g.types)
  BY Zenon DEF EndOfSection
<1>2. /\ EntryAt(g.types, g.at, g.entries, k + 1) /\ m \in Nat
      /\ ReadTo(g.entries, k + 1) = m + IF g.entries[k + 1] = "-" THEN 0 ELSE 1
  BY EntryCounts
<1>3. Ch(g.text, p) # NUL
  <2>1. n \in Nat /\ n < Len(g.nums)
    BY <1>2
  <2> HIDE DEF n
  <2> QED
    BY <2>1, MoreInFront
<1>4. Ch(g.types, q) = Closing /\ q + 1 = g.at[(k + 1) + 1]
  <2>1. Ch(g.types, q) = Closing /\ g.at[(k + 1) + 1] = g.at[k + 1] + 3 /\ g.at[k + 1] \in Nat
    BY <1>2, Zenon DEF EntryAt
  <2> QED
    BY <2>1
<1>17. ReadTo(g.entries, k + 1) = n /\ n <= Len(g.nums)
  <2>1. AreValues(g.text, g.places, g.nums, g.by, g.delim)
    BY DEF Fits
  <2>2. Len(g.nums) \in Nat
    BY <2>1, ValuePlaces
  <2> QED
    BY <1>2, <2>2
<1> HIDE DEF m, p, q, n
<1>5. a.ret = "run" /\ a.p = p /\ a.f = q
  BY <1>1, Zenon DEF IsReading
<1>6. b = e
  <2>1. EntryFollows(g.types, g.text, a, Closing)
    BY <1>3, <1>4, <1>5, Zenon DEF EntryFollows
  <2>2. b = Brace(a, a.f + 1, keeps)
    BY <2>1, StepAtClosing DEF Turned
  <2> QED
    BY <1>5, <2>2, Zenon
<1>7. IsReading(e, q + 1, p, "run", cells, g.delim, g.outer, g.types) /\ e.doSave = keeps
  <2> DEFINE t == g.text
             d == g.delim
             o == g.outer
             T == g.types
             nf == q + 1
             run == "run"
  <2>1. IsReading(a, q, p, run, cells, d, o, T)
    BY <1>1
  <2> HIDE DEF t, d, o, T, nf, run, keeps
  <2>2. /\ IsReading(Brace(a, nf, keeps), nf, p, run, cells, d, o, T)
        /\ Brace(a, nf, keeps).doSave = keeps
    BY <2>1, ReadingTurns
  <2> QED
    BY <2>2, Zenon DEF t, d, o, T, nf, run
<1>8. keeps = TRUE
  BY DEF keeps
<1> HIDE DEF b, e, keeps
<1>9. IsReading(b, g.at[(k + 1) + 1], p, "run", cells, g.delim, g.outer, g.types) /\ b.doSave = TRUE
  BY <1>4, <1>6, <1>7, <1>8, Zenon
<1>10. AreCells(cells, g.entries, g.nums, k + 1)
  <2>1. Len(g.entries) \in Nat
    BY EntryCounts
  <2> QED
    BY <1>1, <2>1, QuietCell
<1> QED
  BY <1>9, <1>10, <1>17, Zenon DEF InFront, b, p

\* Or the input ends there.
LEMMA TurnAtSectionEnd ==
  ASSUME NEW g, Fits(g), NEW options, NEW defaults, NEW a, NEW k \in 0..Len(g.entries) - 1, EndOfSection(g, a, k),
         ReadTo(g.entries, k) + 1 = Len(g.nums), g.entries[k + 1] = "q"
  PROVE  Behind(g, Turned(g, options, defaults, a), k + 1)
<1> DEFINE b == Turned(g, options, defaults, a)
           m == ReadTo(g.entries, k)
           n == m + 1
           i == k + 1
           p == g.places[n + 1]
           q == g.at[i] + 2
           answer == Complete(g, i)
<1>1. PICK cells :
        /\ AreCells(cells, g.entries, g.nums, k)
        /\ IsReading(a, q, p, "run", cells, g.delim, g.outer, g.types)
  BY Zenon DEF EndOfSection
<1>2. ReadTo(g.entries, i) = n /\ n = Len(g.nums) /\ n <= Len(g.nums)
  <2>1. m \in Nat /\ ReadTo(g.entries, i) = m + IF g.entries[i] = "-" THEN 0 ELSE 1
    BY EntryCounts
  <2> QED
    BY <2>1
<1>3. Ch(g.text, p) = NUL
  <2>1. AreValues(g.text, g.places, g.nums, g.by, g.delim)
    BY DEF Fits
  <2>2. Ch(g.text, g.places[Len(g.nums) + 1]) = NUL
    BY <2>1, ValuePlaces
  <2> QED
    BY <2>2
<1>4. EntriesEnd(g.types, q) = answer
  <2>1. AreEntries(g.types, g.at, g.entries) /\ k \in 0..Len(g.entries) /\ k # Len(g.entries) /\ g.entries[k + 1] = "q"
    <3>1. k \in Nat /\ k + 1 \in 1..Len(g.entries) /\ Len(g.entries) \in Nat
      BY EntryCounts
    <3> QED
      BY <3>1 DEF Fits
  <2>2. EntriesEnd(g.types, g.at[k + 1] + 2) = IF k + 1 = Len(g.entries) THEN "TRUE" ELSE "CONT"
    BY <2>1, AtEndIs
  <2> QED
    BY <2>2 DEF Complete
<1>10. AreCells(cells, g.entries, g.nums, i)
  <2>1. Len(g.entries) \in Nat
    BY EntryCounts
  <2> QED
    BY <1>1, <2>1, QuietCell
<1> HIDE DEF p, q, m, n, i
<1>5. a.ret = "run" /\ a.p = p /\ a.f = q
  BY <1>1, Zenon DEF IsReading
<1>6. b = [a EXCEPT !.ret = EntriesEnd(g.types, a.f)]
  <2>1. Ch(g.text, a.p) = NUL
    BY <1>3, <1>5
  <2> QED
    BY <1>5, <2>1, StopsAtEnd DEF Turned
<1>7. b = [a EXCEPT !.ret = answer]
  BY <1>4, <1>5, <1>6, Zenon
<1>8. IsReading([a EXCEPT !.ret = answer], q, p, answer, cells, g.delim, g.outer, g.types)
  <2> HIDE DEF answer
  <2> QED
    BY <1>1, ReadingAnswers
<1> HIDE DEF b
<1>9. IsReading(b, q, p, answer, cells, g.delim, g.outer, g.types)
  BY <1>7, <1>8, Zenon
<1> QED
  BY <1>2, <1>9, <1>10, Zenon DEF Behind, b, i, n, answer

\* Behind the entries it stays.
LEMMA TurnBehind ==
  ASSUME NEW g, NEW options, NEW defaults, NEW a, NEW k, Behind(g, a, k)
  PROVE  a.ret # "run" /\ Turned(g, options, defaults, a) = a
<1>1. a.ret # "run"
  <2>1. a.ret = Complete(g, k)
    BY Zenon DEF Behind, IsReading
  <2>2. Complete(g, k) # "run"
    BY Zenon DEF Complete
  <2> QED
    BY <2>1, <2>2
<1>2. Turned(g, options, defaults, a) = a
  BY <1>1, StoppedStays DEF Turned
<1> QED
  BY <1>1, <1>2

(***************************************************************************)
(* So a reading gets behind an entry in the end.                           *)
(***************************************************************************)
IsQuiet(g, k) == k \in 0..Len(g.entries) - 1 /\ g.entries[k + 1] = "q"

Halfway(g, a) ==
  \E k \in 0..Len(g.entries) : \/ InFront(g, a, k)
                               \/ IsQuiet(g, k) /\ InSection(g, a, k)
                               \/ IsQuiet(g, k) /\ EndOfSection(g, a, k)

HasEnded(g, a) == \E k \in 0..Len(g.entries) : Behind(g, a, k)

(* At q in the entries, with more to come *)
StillAt(g, a, q) == Halfway(g, a) /\ a.f = q

\* Where it is.
LEMMA PlacesOfReadings ==
  ASSUME NEW g, NEW a, NEW k
  PROVE  /\ InFront(g, a, k) => a.f = g.at[k + 1]
         /\ InSection(g, a, k) => a.f = g.at[k + 1] + 1
         /\ EndOfSection(g, a, k) => a.f = g.at[k + 1] + 2
BY Zenon DEF InFront, InSection, EndOfSection, IsReading

\* That is in the entries, or behind the last of them.
LEMMA HalfwayPlaces ==
  ASSUME NEW g, Fits(g), NEW a, Halfway(g, a)
  PROVE  a.f \in 1..Len(g.types) + 1 /\ Len(g.types) \in Nat
<1>1. PICK k \in 0..Len(g.entries) : \/ InFront(g, a, k)
                                     \/ IsQuiet(g, k) /\ InSection(g, a, k)
                                     \/ IsQuiet(g, k) /\ EndOfSection(g, a, k)
  BY Zenon DEF Halfway
<1> DEFINE i == k + 1
<1>2. AreEntries(g.types, g.at, g.entries)
  BY DEF Fits
<1>3. Len(g.types) \in Nat /\ Len(g.entries) \in Nat
  BY <1>2 DEF AreEntries
<1> DEFINE T == g.types
           at == g.at
           e == g.entries
<1>4. (\A j \in 1..Len(e) : at[j] \in 1..Len(T) /\ (e[j] = "q" => at[j] + 2 \in 1..Len(T))) /\ at[Len(e) + 1] = Len(T) + 1
  <2> HIDE DEF T, at, e
  <2>1. AreEntries(T, at, e)
    BY <1>2 DEF T, at, e
  <2> QED
    BY <2>1, EntryPlaces
<1> DEFINE x == g.at[i]
           n == Len(g.types)
           q == a.f
<1>5. q = x \/ (q = x + 1 /\ IsQuiet(g, k)) \/ (q = x + 2 /\ IsQuiet(g, k))
  <2>1. /\ InFront(g, a, k) => a.f = g.at[k + 1]
        /\ InSection(g, a, k) => a.f = g.at[k + 1] + 1
        /\ EndOfSection(g, a, k) => a.f = g.at[k + 1] + 2
    BY PlacesOfReadings
  <2> QED
    BY <1>1, <2>1, Zenon
<1>6. IsQuiet(g, k) => i \in 1..Len(g.entries) /\ g.entries[i] = "q"
  BY <1>3 DEF IsQuiet
<1>7. i \in 1..Len(g.entries) \/ i = Len(g.entries) + 1
  BY <1>3
<1> HIDE DEF i
<1>8. x \in 1..n + 1 /\ (IsQuiet(g, k) => x \in 1..n /\ x + 2 \in 1..n) /\ n \in Nat
  <2>1. /\ i \in 1..Len(e) => x \in 1..n /\ (e[i] = "q" => x + 2 \in 1..n)
        /\ i = Len(e) + 1 => x = n + 1
        /\ IsQuiet(g, k) => i \in 1..Len(e) /\ e[i] = "q"
        /\ n \in Nat
    BY <1>3, <1>4, <1>6, Zenon
  <2>2. i \in 1..Len(e) \/ i = Len(e) + 1
    BY <1>7
  <2> HIDE DEF x, n, e, T, at
  <2> QED
    BY <2>1, <2>2
<1> HIDE DEF x, n, q
<1>9. q \in 1..n + 1
  BY <1>5, <1>8
<1> QED
  BY <1>3, <1>9 DEF q, n

\* In front of an entry: one turn further.
LEMMA FrontGoesOn ==
  ASSUME NEW g, Fits(g), NEW options, NEW defaults, NEW a, NEW k \in 0..Len(g.entries), InFront(g, a, k)
  PROVE  LET b == Turned(g, options, defaults, a)
         IN  HasEnded(g, b) \/ (Halfway(g, b) /\ a.f < b.f)
<1> DEFINE b == Turned(g, options, defaults, a)
           r == ReadTo(g.entries, k)
           i == k + 1
<1>1. AreEntries(g.types, g.at, g.entries) /\ AreValues(g.text, g.places, g.nums, g.by, g.delim)
  BY DEF Fits
<1>2. Len(g.entries) \in Nat /\ Len(g.nums) \in Nat
  BY <1>1, ValuePlaces DEF AreEntries
<1>3. r \in Nat /\ r <= Len(g.nums)
  <2>1. r <= Len(g.nums)
    BY Zenon DEF InFront
  <2>2. k \in Nat
    BY <1>2
  <2> QED
    BY <1>2, <2>1, <2>2, EntriesCount
<1>4. CASE r = Len(g.nums)
  <2>1. Behind(g, b, k)
    BY <1>4, TurnAtEnd
  <2> HIDE DEF b
  <2> QED
    BY <2>1, Zenon DEF HasEnded, b
<1>5. CASE r < Len(g.nums) /\ k = Len(g.entries)
  <2>1. Behind(g, b, k)
    BY <1>3, <1>5, TurnAtFormatEnd
  <2> HIDE DEF b
  <2> QED
    BY <2>1, Zenon DEF HasEnded, b
<1>6. CASE r < Len(g.nums) /\ k # Len(g.entries)
  <2>1. k \in 0..Len(g.entries) - 1 /\ k + 1 \in 0..Len(g.entries) /\ i \in 1..Len(g.entries)
    BY <1>2, <1>6
  <2>2. a.f = g.at[i]
    BY PlacesOfReadings
  <2>3. EntryAt(g.types, g.at, g.entries, i)
    BY <2>1, EntryCounts
  <2>4. g.at[i] \in Nat /\ g.at[i + 1] \in Nat /\ g.at[i] < g.at[i + 1]
    <3>1. g.at[i] \in 1..Len(g.types) /\ g.at[i + 1] \in Nat /\ g.at[i] < g.at[i + 1]
      BY <1>1, <2>1, EntryPlaces
    <3> QED
      BY <3>1
  <2>5. CASE g.entries[i] \in {"i", "-"}
    <3>1. g.entries[k + 1] = "i" \/ g.entries[k + 1] = "-"
      BY <2>5
    <3>2. InFront(g, b, k + 1)
      BY <1>6, <2>1, <3>1, TurnAtInt, TurnAtSkip
    <3> HIDE DEF b
    <3>3. b.f = g.at[(k + 1) + 1]
      BY <3>2, PlacesOfReadings
    <3>4. Halfway(g, b)
      BY <2>1, <3>2, Zenon DEF Halfway
    <3> QED
      BY <2>2, <2>4, <3>3, <3>4 DEF b
  <2>6. CASE g.entries[i] = "q"
    <3>1. InSection(g, b, k)
      BY <1>6, <2>1, <2>6, TurnAtOpening
    <3>2. IsQuiet(g, k)
      BY <2>1, <2>6 DEF IsQuiet
    <3> HIDE DEF b
    <3>3. b.f = g.at[i] + 1
      BY <3>1, PlacesOfReadings
    <3>4. Halfway(g, b)
      BY <3>1, <3>2, Zenon DEF Halfway
    <3> QED
      BY <2>2, <2>4, <3>3, <3>4 DEF b
  <2>7. g.entries[i] \in {"i", "q", "-"}
    BY <2>3, Zenon DEF EntryAt
  <2> QED
    BY <2>5, <2>6, <2>7
<1> QED
  BY <1>2, <1>3, <1>4, <1>5, <1>6

\* In a quiet section.
LEMMA SectionGoesOn ==
  ASSUME NEW g, Fits(g), NEW options, NEW defaults, NEW a, NEW k \in 0..Len(g.entries), IsQuiet(g, k),
         InSection(g, a, k) \/ EndOfSection(g, a, k)
  PROVE  LET b == Turned(g, options, defaults, a)
         IN  HasEnded(g, b) \/ (Halfway(g, b) /\ a.f < b.f)
<1> DEFINE b == Turned(g, options, defaults, a)
           r == ReadTo(g.entries, k)
           i == k + 1
<1>1. AreEntries(g.types, g.at, g.entries) /\ AreValues(g.text, g.places, g.nums, g.by, g.delim)
  BY DEF Fits
<1>2. Len(g.entries) \in Nat /\ Len(g.nums) \in Nat
  BY <1>1, ValuePlaces DEF AreEntries
<1>3. k \in 0..Len(g.entries) - 1 /\ g.entries[k + 1] = "q" /\ k + 1 \in 0..Len(g.entries) /\ i \in 1..Len(g.entries)
  BY <1>2 DEF IsQuiet
<1>4. g.at[i] \in Nat /\ g.at[i + 1] = g.at[i] + 3
  <2> DEFINE types == g.types
             at == g.at
             e == g.entries
  <2>1. AreEntries(types, at, e) /\ i \in 1..Len(e) /\ e[i] = "q"
    BY <1>1, <1>3
  <2> HIDE DEF types, at, e, i
  <2>2. \A j \in 1..Len(e) : at[j] \in 1..Len(types) /\ (e[j] = "q" => at[j] + 3 = at[j + 1])
    BY <2>1, EntryPlaces
  <2>3. at[i] \in 1..Len(types) /\ at[i] + 3 = at[i + 1]
    BY <2>1, <2>2, Zenon
  <2>4. at[i] \in Nat /\ at[i + 1] = at[i] + 3
    BY <2>3
  <2> QED
    BY <2>4 DEF at
<1>5. CASE InSection(g, a, k)
  <2>1. EndOfSection(g, b, k)
    BY <1>3, <1>5, TurnInSection
  <2> HIDE DEF b
  <2>2. a.f = g.at[i] + 1 /\ b.f = g.at[i] + 2
    BY <1>5, <2>1, PlacesOfReadings
  <2>3. Halfway(g, b)
    BY <2>1, Zenon DEF Halfway
  <2> QED
    BY <1>4, <2>2, <2>3 DEF b
<1>6. CASE EndOfSection(g, a, k)
  <2>1. r \in Nat /\ r < Len(g.nums)
    <3>1. r < Len(g.nums)
      BY <1>6, Zenon DEF EndOfSection
    <3> QED
      BY <1>3, <3>1, EntryCounts
  <2>2. a.f = g.at[i] + 2
    BY <1>6, PlacesOfReadings
  <2>3. CASE r + 1 = Len(g.nums)
    <3>1. Behind(g, b, k + 1)
      BY <1>3, <1>6, <2>3, TurnAtSectionEnd
    <3> HIDE DEF b
    <3> QED
      BY <1>3, <3>1, Zenon DEF HasEnded, b
  <2>4. CASE r + 1 < Len(g.nums)
    <3>1. InFront(g, b, k + 1)
      BY <1>3, <1>6, <2>4, TurnAtClosing
    <3> HIDE DEF b
    <3>2. b.f = g.at[(k + 1) + 1]
      BY <3>1, PlacesOfReadings
    <3>3. Halfway(g, b)
      BY <1>3, <3>1, Zenon DEF Halfway
    <3> QED
      BY <1>4, <2>2, <3>2, <3>3 DEF b
  <2> QED
    BY <1>2, <2>1, <2>3, <2>4
<1> QED
  BY <1>5, <1>6

(* The loop, turn by turn, from the first of the entries *)
FirstReading(d, o, types) ==
  [f |-> 1, p |-> 1, ret |-> "run", cells |-> <<>>, doSave |-> TRUE, delim |-> d, outer |-> o, rest |-> types]

EnumRun(types, options, d, o, t, defaults, h) ==
  /\ h[0] = FirstReading(d, o, types)
  /\ \A k \in 1..(Len(types) + 2) : h[k] = EntryStep(types, options, t, defaults, h[k - 1])

RunsTo(types, options, d, o, t, defaults) ==
  \E h : /\ EnumRun(types, options, d, o, t, defaults, h)
         /\ DoEnumValues(types, options, d, o, t, 1, TRUE, defaults) = h[Len(types) + 2]

\* The loop of DoEnumValues.
LEMMA EnumRuns ==
  ASSUME NEW S, NEW types \in Seq(S), NEW options, NEW d, NEW o, NEW t, Len(t) \in Nat, NEW defaults \in BOOLEAN
  PROVE  RunsTo(types, options, d, o, t, defaults)
<1> DEFINE n == Len(types) + 2
           D == EnumDelims(types, d, o)
           V == EnumValues(types, options, t, D, defaults)
           T == Readings(V, D, S, 1)
           none == [f |-> 1, p |-> 1, ret |-> "run", cells |-> <<>>, doSave |-> TRUE,
                    delim |-> d, outer |-> o, rest |-> types]
           E == {0}
           seq == [k \in 1..n |-> 0]
           Step(a) == EnumStep(types, options, t, TRUE, defaults, a)
           op == [x \in T \X E |-> Step(x[1])]
           indices == DOMAIN seq
           Solves(iter) ==
             iter = [u \in SUBSET indices |-> IF u = {} THEN none ELSE Step(iter[u \ {Max(u)}])]
           fold == CHOOSE iter : Solves(iter)
<1>1. DoEnumValues(types, options, d, o, t, 1, TRUE, defaults) = fold[indices]
  BY Zenon DEF DoEnumValues, FoldLeft, MapThenFoldSet, Times
<1>2. n \in Nat
  OBVIOUS
<1> HIDE DEF n
<1>3. indices = 1..n /\ \A k \in 1..n : seq[k] \in E
  BY <1>2
<1>4. \A a \in T : Step(a) \in T
  <2>1. \A q \in Nat : ToSet(GetMultiType(types, q).v) \in D /\ {GetSingleType(types, q).v} \in D
    BY DEF EnumDelims
  <2> HIDE DEF D
  <2> QED
    BY <2>1, EnumStepTyped
<1>5. none \in T
  <2>1. <<>> \in Seq(V)
    OBVIOUS
  <2>2. 1 \in {q \in Nat : 1 <= q}
    OBVIOUS
  <2>3. d \in D /\ o \in D
    BY DEF EnumDelims
  <2> HIDE DEF V, D
  <2> QED
    BY <2>1, <2>2, <2>3 DEF Readings
<1>6. none = FirstReading(d, o, types) /\ \A a : Step(a) = EntryStep(types, options, t, defaults, a)
  BY Zenon DEF FirstReading, EntryStep
<1> HIDE DEF seq, indices, T, none, E, Step
<1>7. \A a \in T, k \in E : op[<<a, k>>] = Step(a)
  OBVIOUS
<1>8. \A a \in T, k \in E : op[<<a, k>>] \in T
  BY <1>4, <1>7
<1> HIDE DEF op
<1>9. PICK g \in [SUBSET (1..n) -> T] : Folds(g, none, op, seq, n)
  BY <1>2, <1>3, <1>5, <1>8, FoldExists
<1>10. Solves(g)
  <2>1. ASSUME NEW u \in SUBSET (1..n), u # {}
        PROVE  op[<<g[u \ {Max(u)}], seq[Max(u)]>>] = Step(g[u \ {Max(u)}])
    <3>1. Max(u) \in 1..n
      BY <1>2, <2>1, Largest
    <3>2. seq[Max(u)] \in E /\ g[u \ {Max(u)}] \in T
      BY <1>3, <1>9, <3>1
    <3> QED
      BY <1>7, <3>2
  <2>2. \A u \in SUBSET (1..n) :
          g[u] = IF u = {} THEN none ELSE Step(g[u \ {Max(u)}])
    BY <1>9, <2>1 DEF Folds
  <2> QED
    BY <1>3, <2>2
<1>11. Solves(fold)
  <2> HIDE DEF Solves
  <2> QED
    BY <1>10
<1> HIDE DEF fold
<1>12. fold[{}] = none
  BY <1>3, <1>11
<1>13. ASSUME NEW k \in 1..n PROVE fold[1..k] = Step(fold[1..(k - 1)])
  <2>1. 1..k \in SUBSET (1..n) /\ 1..k # {} /\ Max(1..k) = k /\ (1..k) \ {k} = 1..(k - 1)
    BY <1>2, UpTo
  <2> QED
    BY <1>3, <1>11, <2>1
<1> HIDE DEF Solves
<1> DEFINE h == [k \in 0..n |-> fold[1..k]]
<1>14. h[0] = none /\ h[n] = fold[indices]
  <2>1. 1..0 = {} /\ 0 \in 0..n /\ n \in 0..n
    BY <1>2
  <2> QED
    BY <1>3, <1>12, <2>1
<1>15. ASSUME NEW k \in 1..n PROVE h[k] = EntryStep(types, options, t, defaults, h[k - 1])
  <2>1. h[k] = Step(h[k - 1])
    BY <1>2, <1>13
  <2> QED
    BY <1>6, <2>1, Zenon
<1> HIDE DEF h
<1>16. EnumRun(types, options, d, o, t, defaults, h)
  BY <1>6, <1>14, <1>15, Zenon DEF EnumRun, n
<1> QED
  BY <1>1, <1>14, <1>16, Zenon DEF n, RunsTo

\* It begins in front of the first entry.
LEMMA ReadingBegins ==
  ASSUME NEW g, Fits(g), NEW a, a = FirstReading(g.delim, g.outer, g.types)
  PROVE  StillAt(g, a, 1)
<1>1. AreEntries(g.types, g.at, g.entries) /\ AreValues(g.text, g.places, g.nums, g.by, g.delim)
  BY DEF Fits
<1>2. Len(g.entries) \in Nat /\ Len(g.nums) \in Nat /\ g.at[1] = 1 /\ g.places[1] = 1
  BY <1>1, ValuePlaces DEF AreEntries, AreValues
<1>3. ReadTo(g.entries, 0) = 0 /\ KeptTo(g.entries, 0) = 0
  BY <1>2, EntriesCount
<1>4. AreCells(<<>>, g.entries, g.nums, 0)
  <2>1. <<>> \in Seq({}) /\ Len(<<>>) = 0 /\ 1..0 = {}
    OBVIOUS
  <2> QED
    BY <1>3, <2>1, Zenon DEF AreCells
<1>5. IsReading(a, 1, 1, "run", <<>>, g.delim, g.outer, g.types) /\ a.doSave = TRUE
  BY DEF IsReading, FirstReading
<1>6. g.at[0 + 1] = 1 /\ g.places[ReadTo(g.entries, 0) + 1] = 1 /\ ReadTo(g.entries, 0) <= Len(g.nums) /\ 0 \in 0..Len(g.entries)
  BY <1>2, <1>3
<1>7. InFront(g, a, 0)
  BY <1>4, <1>5, <1>6, Zenon DEF InFront
<1> QED
  BY <1>5, <1>6, <1>7, Zenon DEF StillAt, Halfway, IsReading

\* A turn leads on or to the end.
LEMMA ReadingGoesOn ==
  ASSUME NEW g, Fits(g), NEW options, NEW defaults, NEW a
  PROVE  LET b == Turned(g, options, defaults, a)
         IN  /\ HasEnded(g, a) => HasEnded(g, b)
             /\ Halfway(g, a) => HasEnded(g, b) \/ (Halfway(g, b) /\ a.f < b.f)
<1> DEFINE b == Turned(g, options, defaults, a)
<1>1. HasEnded(g, a) => HasEnded(g, b)
  <2> SUFFICES ASSUME HasEnded(g, a) PROVE HasEnded(g, b)
    OBVIOUS
  <2>1. PICK k \in 0..Len(g.entries) : Behind(g, a, k)
    BY Zenon DEF HasEnded
  <2>2. b = a
    BY <2>1, TurnBehind
  <2> QED
    BY <2>2
<1>2. Halfway(g, a) => HasEnded(g, b) \/ (Halfway(g, b) /\ a.f < b.f)
  <2> SUFFICES ASSUME Halfway(g, a) PROVE HasEnded(g, b) \/ (Halfway(g, b) /\ a.f < b.f)
    OBVIOUS
  <2>1. PICK k \in 0..Len(g.entries) : \/ InFront(g, a, k)
                                       \/ IsQuiet(g, k) /\ InSection(g, a, k)
                                       \/ IsQuiet(g, k) /\ EndOfSection(g, a, k)
    BY Zenon DEF Halfway
  <2>2. CASE InFront(g, a, k)
    BY <2>2, FrontGoesOn
  <2>3. CASE IsQuiet(g, k) /\ (InSection(g, a, k) \/ EndOfSection(g, a, k))
    BY <2>3, SectionGoesOn
  <2> QED
    BY <2>1, <2>2, <2>3
<1> QED
  BY <1>1, <1>2

\* After as many turns as the loop has, it has ended.
LEMMA ReadingEnds ==
  ASSUME NEW g, Fits(g), NEW S, g.types \in Seq(S), NEW options, NEW defaults \in BOOLEAN
  PROVE  HasEnded(g, DoEnumValues(g.types, options, g.delim, g.outer, g.text, 1, TRUE, defaults))
<1> DEFINE n == Len(g.types) + 2
<1>1. Len(g.text) \in Nat /\ Len(g.types) \in Nat
  <2>1. AreValues(g.text, g.places, g.nums, g.by, g.delim)
    BY DEF Fits
  <2>2. PICK T : g.text \in Seq(T)
    BY <2>1 DEF AreValues
  <2> QED
    BY <2>2, LenProperties
<1>2. PICK h : /\ EnumRun(g.types, options, g.delim, g.outer, g.text, defaults, h)
               /\ DoEnumValues(g.types, options, g.delim, g.outer, g.text, 1, TRUE, defaults) = h[n]
  <2> DEFINE types == g.types
             d == g.delim
             o == g.outer
             t == g.text
  <2>1. types \in Seq(S) /\ Len(t) \in Nat
    BY <1>1
  <2> HIDE DEF types, d, o, t
  <2>2. RunsTo(types, options, d, o, t, defaults)
    BY <2>1, EnumRuns
  <2> QED
    BY <2>2, Zenon DEF RunsTo, types, d, o, t
<1>3. h[0] = FirstReading(g.delim, g.outer, g.types) /\ \A k \in 1..n : h[k] = Turned(g, options, defaults, h[k - 1])
  BY <1>2, Zenon DEF EnumRun, Turned
<1>4. n \in Nat /\ n = Len(g.types) + 2
  BY <1>1
<1> HIDE DEF n
<1> DEFINE Good == {k \in Nat : k <= n => HasEnded(g, h[k]) \/ (Halfway(g, h[k]) /\ k < h[k].f)}
<1>5. 0 \in Good
  <2>1. StillAt(g, h[0], 1)
    BY <1>3, ReadingBegins
  <2>2. Halfway(g, h[0]) /\ h[0].f = 1
    BY <2>1, Zenon DEF StillAt
  <2> QED
    BY <2>2
<1>6. ASSUME NEW k \in Good PROVE k + 1 \in Good
  <2>1. k \in Nat /\ k + 1 \in Nat
    OBVIOUS
  <2> DEFINE i == k + 1
             a == h[k]
             b == h[i]
  <2> SUFFICES ASSUME i <= n PROVE HasEnded(g, b) \/ (Halfway(g, b) /\ i < b.f)
    BY <2>1
  <2>2. i \in 1..n /\ i - 1 = k /\ k <= n
    BY <1>4, <2>1
  <2>3. b = Turned(g, options, defaults, a)
    BY <1>3, <2>2
  <2>4. HasEnded(g, a) \/ (Halfway(g, a) /\ k < a.f)
    BY <2>2
  <2> HIDE DEF a, b, i
  <2>5. /\ HasEnded(g, a) => HasEnded(g, b)
        /\ Halfway(g, a) => HasEnded(g, b) \/ (Halfway(g, b) /\ a.f < b.f)
    BY <2>3, ReadingGoesOn
  <2>6. (Halfway(g, a) => a.f \in Nat) /\ (Halfway(g, b) => b.f \in Nat)
    <3>1. ASSUME NEW c, Halfway(g, c) PROVE c.f \in Nat
      <4>1. c.f \in 1..Len(g.types) + 1 /\ Len(g.types) \in Nat
        BY <3>1, HalfwayPlaces
      <4> QED
        BY <4>1
    <3> QED
      BY <3>1
  <2>7. \A x, y \in Nat : k < x /\ x < y => i < y
    BY <2>1 DEF i
  <2> QED
    BY <2>4, <2>5, <2>6, <2>7
<1> HIDE DEF Good
<1>7. n \in Good
  <2>1. Good \in SUBSET Nat
    BY DEF Good
  <2>2. Good = Nat
    BY <1>5, <1>6, <2>1, Induct
  <2> QED
    BY <1>4, <2>2
<1>8. HasEnded(g, h[n]) \/ (Halfway(g, h[n]) /\ n < h[n].f)
  BY <1>4, <1>7 DEF Good
<1>9. ~(Halfway(g, h[n]) /\ n < h[n].f)
  <2> SUFFICES ASSUME Halfway(g, h[n]), n < h[n].f PROVE FALSE
    OBVIOUS
  <2> DEFINE q == h[n].f
  <2>1. q \in 1..Len(g.types) + 1
    BY HalfwayPlaces
  <2>2. n < q
    OBVIOUS
  <2> HIDE DEF q
  <2> QED
    BY <1>1, <1>4, <2>1, <2>2
<1> QED
  BY <1>2, <1>8, <1>9

(***************************************************************************)
(* The cells of the input over those of the defaults.                      *)
(***************************************************************************)
(* What the cell of an entry should hold, with values vs and defaults gs *)
EntryCell(entries, vs, gs, j) ==
  IF entries[j] = "-" THEN Untouched
  ELSE IF ReadTo(entries, j) <= Len(vs) THEN Number(vs[ReadTo(entries, j)])
  ELSE Number(gs[ReadTo(entries, j)])

AreFilled(cells, entries, vs, gs) ==
  /\ Len(cells) = Cardinality(Keepers(entries))
  /\ \A j \in Keepers(entries) : cells[KeptTo(entries, j)] = EntryCell(entries, vs, gs, j)

\* How the counts at an entry and after another compare.
LEMMA CountsCompare ==
  ASSUME NEW entries, Len(entries) \in Nat, NEW j \in 1..Len(entries), NEW k \in 0..Len(entries)
  PROVE  /\ ReadTo(entries, j) \in Nat /\ KeptTo(entries, j) \in Nat /\ ReadTo(entries, k) \in Nat /\ KeptTo(entries, k) \in Nat
         /\ j <= k => ReadTo(entries, j) <= ReadTo(entries, k) /\ KeptTo(entries, j) <= KeptTo(entries, k)
         /\ entries[j] # "-" => ReadTo(entries, j) > 0 /\ (k < j => ReadTo(entries, k) < ReadTo(entries, j))
         /\ entries[j] # "q" => KeptTo(entries, j) > 0 /\ (k < j => KeptTo(entries, k) < KeptTo(entries, j))
<1> DEFINE i == j - 1
           r(x) == ReadTo(entries, x)
           h(x) == KeptTo(entries, x)
<1>1. i \in 0..Len(entries) - 1 /\ i \in Nat /\ i + 1 = j /\ j \in Nat /\ k \in Nat /\ (k < j => k <= i)
  OBVIOUS
<1> HIDE DEF i
<1>2. OneEntryMore(entries, i)
  BY <1>1, EntriesCount
<1>3. r(j) = r(i) + (IF entries[j] = "-" THEN 0 ELSE 1) /\ h(j) = h(i) + (IF entries[j] = "q" THEN 0 ELSE 1)
  BY <1>1, <1>2 DEF OneEntryMore
<1>4. r(i) \in Nat /\ h(i) \in Nat /\ r(j) \in Nat /\ h(j) \in Nat /\ r(k) \in Nat /\ h(k) \in Nat
  BY <1>1, EntriesCount
<1>5. (j <= k => r(j) <= r(k) /\ h(j) <= h(k)) /\ (k <= i => r(k) <= r(i) /\ h(k) <= h(i))
  BY <1>1, EntriesCount
<1> HIDE DEF r, h
<1>6. entries[j] # "-" => r(j) > 0 /\ (k < j => r(k) < r(j))
  BY <1>1, <1>3, <1>4, <1>5
<1>7. entries[j] # "q" => h(j) > 0 /\ (k < j => h(k) < h(j))
  BY <1>1, <1>3, <1>4, <1>5
<1> QED
  BY <1>4, <1>5, <1>6, <1>7 DEF r, h

\* A sequence has its cells in its domain.
LEMMA CellsDomain ==
  ASSUME NEW entries, NEW nums, NEW k, NEW cells, AreCells(cells, entries, nums, k)
  PROVE  DOMAIN cells = 1..KeptTo(entries, k) /\ Len(cells) = KeptTo(entries, k)
<1>1. PICK S : cells \in Seq(S)
  BY DEF AreCells
<1>2. Len(cells) = KeptTo(entries, k)
  BY DEF AreCells
<1> QED
  BY <1>1, <1>2

(* A cell of the new ones over the old ones *)
OverAt(new, old, i) == IF i \in DOMAIN new /\ (new[i] # Untouched \/ i \notin DOMAIN old) THEN new[i] ELSE old[i]

IsFilledAt(entries, vs, gs, new, old, j) ==
  /\ KeptTo(entries, j) \in DOMAIN old
  /\ EntryCell(entries, vs, gs, j) = OverAt(new, old, KeptTo(entries, j))

\* The cell of an entry, once both have been read.
LEMMA EntryFilled ==
  ASSUME NEW entries, Len(entries) \in Nat, NEW vs, NEW gs, Len(vs) \in Nat,
         \A i \in 1..Len(vs) : Number(vs[i]) \in Int,
         NEW k \in 0..Len(entries), ReadTo(entries, k) <= Len(vs), k # Len(entries) => ReadTo(entries, k) = Len(vs),
         NEW new, NEW old, AreCells(new, entries, vs, k), AreCells(old, entries, gs, Len(entries)),
         NEW j \in Keepers(entries)
  PROVE  IsFilledAt(entries, vs, gs, new, old, j)
<1> DEFINE m == Len(entries)
           i == KeptTo(entries, j)
           r(x) == ReadTo(entries, x)
           h(x) == KeptTo(entries, x)
<1>1. j \in 1..m /\ entries[j] # "q" /\ m \in 0..m /\ m \in Nat /\ j \in Nat /\ k \in Nat
  BY DEF Keepers
<1>2. DOMAIN new = 1..h(k) /\ DOMAIN old = 1..h(m)
  BY CellsDomain
<1>3. /\ j <= k => new[i] = CellOf(entries, vs, j)
      /\ old[i] = CellOf(entries, gs, j)
  <2>1. \A x \in 1..k : entries[x] # "q" => new[h(x)] = CellOf(entries, vs, x)
    BY Zenon DEF AreCells
  <2>2. \A x \in 1..m : entries[x] # "q" => old[h(x)] = CellOf(entries, gs, x)
    BY Zenon DEF AreCells
  <2>3. j <= k => j \in 1..k
    BY <1>1
  <2> QED
    BY <1>1, <2>1, <2>2, <2>3
<1>4. /\ r(j) \in Nat /\ h(j) \in Nat /\ r(k) \in Nat /\ h(k) \in Nat
      /\ j <= k => r(j) <= r(k) /\ h(j) <= h(k)
      /\ entries[j] # "-" => r(j) > 0 /\ (k < j => r(k) < r(j))
      /\ h(j) > 0 /\ (k < j => h(k) < h(j))
  BY <1>1, CountsCompare
<1>5. h(m) \in Nat /\ h(j) <= h(m)
  BY <1>1, CountsCompare
<1>6. i = h(j) /\ r(k) <= Len(vs) /\ (k # m => r(k) = Len(vs))
  OBVIOUS
<1>7. i \in DOMAIN old /\ (i \in DOMAIN new <=> j <= k)
  <2> HIDE DEF h, r
  <2> QED
    BY <1>1, <1>2, <1>4, <1>5, <1>6
<1>8. entries[j] # "-" => (j <= k <=> r(j) <= Len(vs)) /\ (j <= k => r(j) \in 1..Len(vs))
  <2>1. j \in 1..m /\ k \in 0..m
    BY <1>1
  <2> HIDE DEF h, r, m
  <2>2. k < j => k # m
    BY <1>1, <2>1
  <2> QED
    BY <1>1, <1>4, <1>6, <2>2
<1> HIDE DEF i
<1>9. CASE entries[j] = "-"
  <2>1. CellOf(entries, vs, j) = Untouched /\ CellOf(entries, gs, j) = Untouched /\ EntryCell(entries, vs, gs, j) = Untouched
    BY <1>9 DEF CellOf, EntryCell
  <2>2. i \in DOMAIN old /\ EntryCell(entries, vs, gs, j) = OverAt(new, old, i)
    BY <1>3, <1>7, <2>1 DEF OverAt
  <2> QED
    BY <2>2, Zenon DEF IsFilledAt, i
<1>10. CASE entries[j] # "-" /\ j <= k
  <2>1. new[i] = Number(vs[r(j)]) /\ EntryCell(entries, vs, gs, j) = Number(vs[r(j)])
    BY <1>3, <1>8, <1>10 DEF CellOf, EntryCell
  <2>2. Number(vs[r(j)]) \in Int
    BY <1>8, <1>10
  <2>3. new[i] # Untouched
    BY <2>1, <2>2, UntouchedAssumption
  <2>4. i \in DOMAIN old /\ EntryCell(entries, vs, gs, j) = OverAt(new, old, i)
    BY <1>7, <1>10, <2>1, <2>3 DEF OverAt
  <2> QED
    BY <2>4, Zenon DEF IsFilledAt, i
<1>11. CASE entries[j] # "-" /\ ~(j <= k)
  <2>1. old[i] = Number(gs[r(j)]) /\ EntryCell(entries, vs, gs, j) = Number(gs[r(j)])
    BY <1>3, <1>8, <1>11 DEF CellOf, EntryCell
  <2>2. i \in DOMAIN old /\ EntryCell(entries, vs, gs, j) = OverAt(new, old, i)
    BY <1>7, <1>11, <2>1 DEF OverAt
  <2> QED
    BY <2>2, Zenon DEF IsFilledAt, i
<1> QED
  BY <1>9, <1>10, <1>11

\* All of them.
LEMMA EntriesFilled ==
  ASSUME NEW entries, Len(entries) \in Nat, NEW vs, NEW gs, Len(vs) \in Nat,
         \A i \in 1..Len(vs) : Number(vs[i]) \in Int,
         NEW k \in 0..Len(entries), ReadTo(entries, k) <= Len(vs), k # Len(entries) => ReadTo(entries, k) = Len(vs),
         NEW new, NEW old, AreCells(new, entries, vs, k), AreCells(old, entries, gs, Len(entries))
  PROVE  AreFilled(Over(new, old), entries, vs, gs)
<1> DEFINE m == Len(entries)
           h(x) == KeptTo(entries, x)
           long == IF Len(new) > Len(old) THEN Len(new) ELSE Len(old)
           u == Over(new, old)
<1>1. u = [i \in 1..long |-> OverAt(new, old, i)]
  BY Zenon DEF Over, OverAt
<1>2. Len(new) = h(k) /\ Len(old) = h(m) /\ DOMAIN old = 1..h(m)
  BY CellsDomain
<1>3. h(k) \in Nat /\ h(m) \in Nat /\ h(k) <= h(m) /\ h(m) = Cardinality(Keepers(entries))
  <2>1. k \in Nat /\ m \in Nat /\ k <= m
    OBVIOUS
  <2> QED
    BY <2>1, EntriesCount
<1> HIDE DEF h
<1>4. long = h(m)
  BY <1>2, <1>3
<1> HIDE DEF long, u
<1>5. Len(u) = h(m)
  BY <1>1, <1>3, <1>4
<1>6. ASSUME NEW j \in Keepers(entries) PROVE u[KeptTo(entries, j)] = EntryCell(entries, vs, gs, j)
  <2> DEFINE i == KeptTo(entries, j)
  <2>1. IsFilledAt(entries, vs, gs, new, old, j)
    BY EntryFilled
  <2>2. i \in DOMAIN old /\ EntryCell(entries, vs, gs, j) = OverAt(new, old, i)
    BY <2>1, Zenon DEF IsFilledAt
  <2> HIDE DEF i
  <2>3. u[i] = OverAt(new, old, i)
    BY <1>1, <1>2, <1>4, <2>2
  <2> QED
    BY <2>2, <2>3 DEF i
<1> QED
  BY <1>3, <1>5, <1>6 DEF AreFilled, u

\* The defaults alone, if there is no value.
LEMMA OnlyDefaults ==
  ASSUME NEW entries, Len(entries) \in Nat, NEW vs, NEW gs, Len(vs) = 0,
         NEW old, AreCells(old, entries, gs, Len(entries))
  PROVE  AreFilled(old, entries, vs, gs)
<1> DEFINE m == Len(entries)
<1>1. Len(old) = KeptTo(entries, m) /\ KeptTo(entries, m) = Cardinality(Keepers(entries))
  BY CellsDomain, EntriesCount
<1>2. ASSUME NEW j \in Keepers(entries) PROVE old[KeptTo(entries, j)] = EntryCell(entries, vs, gs, j)
  <2>1. j \in 1..m /\ entries[j] # "q" /\ m \in 0..m
    BY DEF Keepers
  <2>2. old[KeptTo(entries, j)] = CellOf(entries, gs, j)
    BY <2>1, Zenon DEF AreCells
  <2>3. entries[j] # "-" => ReadTo(entries, j) \in Nat /\ ReadTo(entries, j) > 0
    BY <2>1, CountsCompare
  <2>4. entries[j] # "-" => ~(ReadTo(entries, j) <= Len(vs))
    BY <2>3
  <2> QED
    BY <2>2, <2>4, Zenon DEF CellOf, EntryCell
<1> QED
  BY <1>1, <1>2 DEF AreFilled

(***************************************************************************)
(* The format of an enumeration.                                           *)
(***************************************************************************)
HasEnum(c) == c \in Calls /\ c.kind = "enum"

(* What entries are written with *)
Marks == {"i", "-", Opening, Closing}

PartOf(part, e) ==
  /\ e = "i" => Len(part) = 1 /\ part[1] = "i"
  /\ e = "-" => Len(part) = 2 /\ part[1] = "-" /\ part[2] = "i"
  /\ e = "q" => Len(part) = 3 /\ part[1] = Opening /\ part[2] = "i" /\ part[3] = Closing

\* How an entry is written.
LEMMA EntryParts ==
  ASSUME NEW e \in {"i", "q", "-"}
  PROVE  PartOf(EntryFormat[e], e)
<1>1. \A x, y, z : /\ Len(<<x>>) = 1 /\ <<x>>[1] = x
                   /\ Len(<<x, y>>) = 2 /\ <<x, y>>[1] = x /\ <<x, y>>[2] = y
                   /\ Len(<<x, y, z>>) = 3 /\ <<x, y, z>>[1] = x /\ <<x, y, z>>[2] = y /\ <<x, y, z>>[3] = z
  OBVIOUS
<1> DEFINE quiet == <<Opening, "i", Closing>>
<1>2. EntryFormat = [z \in {"i", "q", "-"} |-> CASE z = "i" -> <<"i">> [] z = "q" -> quiet [] z = "-" -> <<"-", "i">>]
  BY Zenon DEF EntryFormat, Opening, Closing
<1>3. Len(quiet) = 3 /\ quiet[1] = Opening /\ quiet[2] = "i" /\ quiet[3] = Closing
  BY <1>1, Zenon
<1> HIDE DEF quiet
<1>4. /\ EntryFormat["i"] = <<"i">> /\ EntryFormat["q"] = quiet /\ EntryFormat["-"] = <<"-", "i">>
  BY <1>2
<1>5. e = "i" => EntryFormat[e] = <<"i">>
  BY <1>4
<1>6. e = "q" => EntryFormat[e] = quiet
  BY <1>4
<1>7. e = "-" => EntryFormat[e] = <<"-", "i">>
  BY <1>4
<1>8. "i" # "q" /\ "i" # "-" /\ "q" # "-"
  OBVIOUS
<1> DEFINE part == EntryFormat[e]
<1> HIDE DEF part
<1>9. e = "i" => Len(part) = 1 /\ part[1] = "i"
  BY <1>1, <1>5, Zenon DEF part
<1>10. e = "-" => Len(part) = 2 /\ part[1] = "-" /\ part[2] = "i"
  <2> DEFINE left == <<"-", "i">>
  <2>1. Len(left) = 2 /\ left[1] = "-" /\ left[2] = "i"
    OBVIOUS
  <2>2. e = "-" => part = left
    BY <1>7 DEF part
  <2> HIDE DEF left
  <2> QED
    BY <2>1, <2>2
<1>11. e = "q" => Len(part) = 3 /\ part[1] = Opening /\ part[2] = "i" /\ part[3] = Closing
  BY <1>3, <1>6, Zenon DEF part
<1> QED
  BY <1>9, <1>10, <1>11, Zenon DEF PartOf, part

(* What is between p and next *)
StandsAs(t, p, next, e) ==
  /\ p \in Nat \ {0} /\ next \in Nat \ {0} /\ e \in {"i", "q", "-"}
  /\ e = "i" => Ch(t, p) = "i" /\ next = p + 1
  /\ e = "-" => Ch(t, p) = "-" /\ Ch(t, p + 1) = "i" /\ next = p + 2
  /\ e = "q" => Ch(t, p) = Opening /\ Ch(t, p + 1) = "i" /\ Ch(t, p + 2) = Closing /\ next = p + 3

\* A part that stands is an entry.
LEMMA PartStands ==
  ASSUME NEW t, NEW p \in Nat \ {0}, NEW next, NEW e \in {"i", "q", "-"}, NEW part, PartOf(part, e),
         next = p + Len(part), Within(t, p, part)
  PROVE  StandsAs(t, p, next, e)
<1> DEFINE l == Len(part)
<1>1. p \in Nat \ {0} /\ next = p + l /\ \A j \in 1..l : Ch(t, p + j - 1) = part[j]
  BY DEF Within
<1>2. /\ e = "i" => l = 1 /\ part[1] = "i"
      /\ e = "-" => l = 2 /\ part[1] = "-" /\ part[2] = "i"
      /\ e = "q" => l = 3 /\ part[1] = Opening /\ part[2] = "i" /\ part[3] = Closing
  BY Zenon DEF PartOf
<1>3. e \in {"i", "q", "-"}
  OBVIOUS
<1> HIDE DEF l
<1>4. p + 1 - 1 = p /\ p + 2 - 1 = p + 1 /\ p + 3 - 1 = p + 2
  BY <1>1
<1>5. e = "i" => Ch(t, p) = "i" /\ next = p + 1
  <2> SUFFICES ASSUME e = "i" PROVE Ch(t, p) = "i" /\ next = p + 1
    OBVIOUS
  <2>1. 1 \in 1..l
    BY <1>2
  <2> QED
    BY <1>1, <1>2, <1>4, <2>1
<1>6. e = "-" => Ch(t, p) = "-" /\ Ch(t, p + 1) = "i" /\ next = p + 2
  <2> SUFFICES ASSUME e = "-" PROVE Ch(t, p) = "-" /\ Ch(t, p + 1) = "i" /\ next = p + 2
    OBVIOUS
  <2>1. 1 \in 1..l /\ 2 \in 1..l
    BY <1>2
  <2> QED
    BY <1>1, <1>2, <1>4, <2>1
<1>7. e = "q" => Ch(t, p) = Opening /\ Ch(t, p + 1) = "i" /\ Ch(t, p + 2) = Closing /\ next = p + 3
  <2> SUFFICES ASSUME e = "q" PROVE Ch(t, p) = Opening /\ Ch(t, p + 1) = "i" /\ Ch(t, p + 2) = Closing /\ next = p + 3
    OBVIOUS
  <2>1. 1 \in 1..l /\ 2 \in 1..l /\ 3 \in 1..l
    BY <1>2
  <2> QED
    BY <1>1, <1>2, <1>4, <2>1
<1>8. next \in Nat \ {0}
  BY <1>1, <1>3, <1>5, <1>6, <1>7
<1> QED
  BY <1>1, <1>3, <1>5, <1>6, <1>7, <1>8, Zenon DEF StandsAs

\* Where an entry is, and what is in it.
LEMMA EntrySpan ==
  ASSUME NEW t, NEW at, NEW entries, NEW k, EntryAt(t, at, entries, k)
  PROVE  /\ at[k] \in Nat \ {0} /\ at[k + 1] \in Nat \ {0} /\ at[k] < at[k + 1]
         /\ \A q \in at[k]..(at[k + 1] - 1) : Ch(t, q) \in Marks
<1> DEFINE p == at[k]
           e == entries[k]
           next == at[k + 1]
<1>1. /\ p \in Nat \ {0} /\ next \in Nat \ {0} /\ e \in {"i", "q", "-"}
      /\ e = "i" => Ch(t, p) = "i" /\ next = p + 1
      /\ e = "-" => Ch(t, p) = "-" /\ Ch(t, p + 1) = "i" /\ next = p + 2
      /\ e = "q" => Ch(t, p) = Opening /\ Ch(t, p + 1) = "i" /\ Ch(t, p + 2) = Closing /\ next = p + 3
  BY Zenon DEF EntryAt
<1>2. "i" \in Marks /\ "-" \in Marks /\ Opening \in Marks /\ Closing \in Marks
  BY Zenon DEF Marks
<1> HIDE DEF p, e, next
<1>3. /\ p \in Nat \ {0} /\ next \in Nat \ {0} /\ p < next
      /\ \A q \in p..(next - 1) : Ch(t, q) \in Marks
  <2>1. CASE e = "i"
    <3>1. next = p + 1 /\ \A q \in p..(next - 1) : q = p
      BY <1>1, <2>1
    <3> QED
      BY <1>1, <1>2, <2>1, <3>1
  <2>2. CASE e = "-"
    <3>1. next = p + 2 /\ \A q \in p..(next - 1) : q = p \/ q = p + 1
      BY <1>1, <2>2
    <3> QED
      BY <1>1, <1>2, <2>2, <3>1
  <2>3. CASE e = "q"
    <3>1. next = p + 3 /\ \A q \in p..(next - 1) : q = p \/ q = p + 1 \/ q = p + 2
      BY <1>1, <2>3
    <3> QED
      BY <1>1, <1>2, <2>3, <3>1
  <2> QED
    BY <1>1, <2>1, <2>2, <2>3
<1> QED
  BY <1>3 DEF p, next

\* Entries stand one after the other.
LEMMA EntriesGoUp ==
  ASSUME NEW t, NEW at, NEW entries, Len(entries) \in Nat, at[1] \in Nat \ {0},
         \A k \in 1..Len(entries) : EntryAt(t, at, entries, k)
  PROVE  /\ \A k \in 1..Len(entries) + 1 : at[k] \in Nat \ {0} /\ at[k] <= at[Len(entries) + 1] /\ at[1] <= at[k]
         /\ \A q \in at[1]..(at[Len(entries) + 1] - 1) : Ch(t, q) \in Marks
         /\ Len(entries) # 0 => at[1] < at[Len(entries) + 1]
<1> DEFINE n == Len(entries)
           a == at[1]
           Up(k) == /\ at[k + 1] \in Nat \ {0} /\ a <= at[k + 1] /\ (k # 0 => a < at[k + 1])
                    /\ \A j \in 1..k + 1 : at[j] \in Nat \ {0} /\ at[j] <= at[k + 1] /\ a <= at[j]
                    /\ \A q \in a..(at[k + 1] - 1) : Ch(t, q) \in Marks
           Good == {k \in Nat : k <= n => Up(k)}
<1>0. n \in Nat /\ a \in Nat \ {0}
  OBVIOUS
<1>1. ASSUME NEW k \in 1..n
      PROVE  /\ at[k] \in Nat \ {0} /\ at[k + 1] \in Nat \ {0} /\ at[k] < at[k + 1]
             /\ \A q \in at[k]..(at[k + 1] - 1) : Ch(t, q) \in Marks
  <2>1. EntryAt(t, at, entries, k)
    OBVIOUS
  <2> QED
    BY <2>1, EntrySpan
<1> HIDE DEF n
<1>2. 0 \in Good
  <2>1. Up(0)
    BY <1>0
  <2> HIDE DEF Up
  <2> QED
    BY <2>1
<1>3. ASSUME NEW k \in Good PROVE k + 1 \in Good
  <2>1. k \in Nat /\ k + 1 \in Nat
    OBVIOUS
  <2> SUFFICES ASSUME k + 1 <= n PROVE Up(k + 1)
    <3> HIDE DEF Up
    <3> QED
      BY <2>1
  <2>2. Up(k)
    <3> HIDE DEF Up
    <3> QED
      BY <1>0, <2>1
  <2> DEFINE m == k + 1
             p == at[m]
             e == at[m + 1]
  <2>3. m \in 1..n /\ m \in Nat /\ m # 0
    BY <1>0, <2>1
  <2>4. /\ p \in Nat \ {0} /\ e \in Nat \ {0} /\ p < e
        /\ \A q \in p..(e - 1) : Ch(t, q) \in Marks
    BY <1>1, <2>3
  <2>5. a <= p /\ (\A j \in 1..m : at[j] \in Nat \ {0} /\ at[j] <= p /\ a <= at[j])
        /\ \A q \in a..(p - 1) : Ch(t, q) \in Marks
    BY <2>2
  <2> HIDE DEF m, p, e, Up, Good
  <2>6. a \in Nat
    BY <1>0
  <2>7. ASSUME NEW q \in a..(e - 1) PROVE Ch(t, q) \in Marks
    <3>1. q \in a..(p - 1) \/ q \in p..(e - 1)
      BY <2>4, <2>6
    <3> QED
      BY <2>4, <2>5, <3>1
  <2>8. a < e
    BY <2>4, <2>5, <2>6
  <2>9. ASSUME NEW j \in 1..m + 1 PROVE at[j] \in Nat \ {0} /\ at[j] <= e /\ a <= at[j]
    <3>1. CASE j = m + 1
      BY <2>4, <2>6, <2>8, <3>1 DEF e
    <3>2. CASE j # m + 1
      <4>1. j \in 1..m
        BY <2>3, <3>2
      <4>2. at[j] \in Nat \ {0} /\ at[j] <= p /\ a <= at[j]
        BY <2>5, <4>1
      <4> QED
        BY <2>4, <4>2
    <3> QED
      BY <3>1, <3>2
  <2>10. a <= e
    BY <2>4, <2>6, <2>8
  <2>11. Up(m)
    BY <2>4, <2>7, <2>8, <2>9, <2>10, Zenon DEF Up, e
  <2> QED
    BY <2>11 DEF m
<1> HIDE DEF Good
<1>4. Good = Nat
  <2>1. Good \in SUBSET Nat
    BY DEF Good
  <2> QED
    BY <1>2, <1>3, <2>1, Induct
<1>5. Up(n)
  <2> HIDE DEF Up
  <2>1. n <= n
    BY <1>0
  <2> QED
    BY <1>0, <1>4, <2>1 DEF Good
<1> QED
  BY <1>5, Zenon DEF Up, n

(* The types of an enumeration, and where its entries are in them *)
TypesText(t, at, entries) == SubSeq(t, at[1], at[Len(entries) + 1] - 1)

TypePlaces(at, entries) == [k \in 1..Len(entries) + 1 |-> at[k] - at[1] + 1]

\* An entry stands in the types as it does in the format.
LEMMA EntryMoved ==
  ASSUME NEW t, NEW at, NEW u, NEW ut, NEW entries, NEW k, NEW a \in Nat, NEW close \in Nat, EntryAt(t, at, entries, k),
         a <= at[k], at[k + 1] <= close, ut[k] = at[k] - a + 1, ut[k + 1] = at[k + 1] - a + 1,
         \A q \in a..(close - 1) : Ch(u, q - a + 1) = Ch(t, q)
  PROVE  EntryAt(u, ut, entries, k)
<1> DEFINE p == at[k]
           next == at[k + 1]
           e == entries[k]
           x == ut[k]
           y == ut[k + 1]
<1>1. /\ p \in Nat \ {0} /\ next \in Nat \ {0} /\ e \in {"i", "q", "-"}
      /\ e = "i" => Ch(t, p) = "i" /\ next = p + 1
      /\ e = "-" => Ch(t, p) = "-" /\ Ch(t, p + 1) = "i" /\ next = p + 2
      /\ e = "q" => Ch(t, p) = Opening /\ Ch(t, p + 1) = "i" /\ Ch(t, p + 2) = Closing /\ next = p + 3
  BY Zenon DEF EntryAt
<1>2. a <= p /\ next <= close /\ x = p - a + 1 /\ y = next - a + 1
  OBVIOUS
<1>3. p < next
  BY EntrySpan
<1> HIDE DEF p, next, e, x, y
<1>4. x \in Nat \ {0} /\ y \in Nat \ {0}
  BY <1>1, <1>2, <1>3
<1>5. ASSUME NEW j \in Nat, p + j < next PROVE Ch(u, x + j) = Ch(t, p + j)
  <2>1. p + j \in a..(close - 1) /\ (p + j) - a + 1 = x + j
    BY <1>1, <1>2, <1>5
  <2>2. Ch(u, (p + j) - a + 1) = Ch(t, p + j)
    BY <2>1
  <2> QED
    BY <2>1, <2>2
<1>6. Ch(u, x) = Ch(t, p)
  <2>1. p + 0 < next /\ p + 0 = p /\ x + 0 = x /\ 0 \in Nat
    BY <1>1, <1>3, <1>4
  <2>2. Ch(u, x + 0) = Ch(t, p + 0)
    BY <1>5, <2>1
  <2> QED
    BY <2>1, <2>2
<1>7. next = p + 2 => Ch(u, x + 1) = Ch(t, p + 1) /\ y = x + 2
  <2> SUFFICES ASSUME next = p + 2 PROVE Ch(u, x + 1) = Ch(t, p + 1) /\ y = x + 2
    OBVIOUS
  <2>1. p + 1 < next /\ y = x + 2
    BY <1>1, <1>2
  <2> QED
    BY <1>5, <2>1
<1>8. next = p + 3 => Ch(u, x + 1) = Ch(t, p + 1) /\ Ch(u, x + 2) = Ch(t, p + 2) /\ y = x + 3
  <2> SUFFICES ASSUME next = p + 3 PROVE Ch(u, x + 1) = Ch(t, p + 1) /\ Ch(u, x + 2) = Ch(t, p + 2) /\ y = x + 3
    OBVIOUS
  <2>1. p + 1 < next /\ p + 2 < next /\ y = x + 3
    BY <1>1, <1>2
  <2> QED
    BY <1>5, <2>1
<1>9. next = p + 1 => y = x + 1
  BY <1>1, <1>2
<1>10. e = "i" => Ch(u, x) = "i" /\ y = x + 1
  BY <1>1, <1>6, <1>9, Zenon
<1>11. e = "-" => Ch(u, x) = "-" /\ Ch(u, x + 1) = "i" /\ y = x + 2
  BY <1>1, <1>6, <1>7, Zenon
<1>12. e = "q" => Ch(u, x) = Opening /\ Ch(u, x + 1) = "i" /\ Ch(u, x + 2) = Closing /\ y = x + 3
  BY <1>1, <1>6, <1>8, Zenon
<1> QED
  BY <1>1, <1>4, <1>10, <1>11, <1>12, Zenon DEF e, x, y, EntryAt

\* The types have the entries.
LEMMA TypesHave ==
  ASSUME NEW S, NEW t \in Seq(S), NEW at, NEW entries, Len(entries) \in Nat \ {0}, at[1] \in Nat \ {0},
         \A k \in 1..Len(entries) : EntryAt(t, at, entries, k), Ch(t, at[Len(entries) + 1]) # NUL
  PROVE  /\ TypesText(t, at, entries) \in Seq(S)
         /\ AreEntries(TypesText(t, at, entries), TypePlaces(at, entries), entries)
<1> DEFINE n == Len(entries)
           a == at[1]
           close == at[n + 1]
           u == TypesText(t, at, entries)
           ut == TypePlaces(at, entries)
<1>1. n \in Nat \ {0} /\ a \in Nat \ {0} /\ n \in Nat
  OBVIOUS
<1>2. /\ \A k \in 1..n + 1 : at[k] \in Nat \ {0} /\ at[k] <= close /\ a <= at[k]
      /\ a < close
  BY <1>1, EntriesGoUp
<1>3. close \in 1..Len(t)
  BY Inside, Zenon
<1>4. u = SubSeq(t, a, close - 1) /\ \A k \in 1..n + 1 : ut[k] = at[k] - a + 1
  BY DEF TypesText, TypePlaces
<1>5. \A k \in 1..n : EntryAt(t, at, entries, k)
  OBVIOUS
<1>6. close \in Nat /\ a \in Nat /\ 1 \in 1..n + 1 /\ n + 1 \in 1..n + 1
  BY <1>1, <1>3
<1>7. ut[1] = a - a + 1 /\ ut[n + 1] = close - a + 1
  BY <1>4, <1>6
<1> HIDE DEF n, a, close, u, ut
<1>8. Len(u) = close - a /\ u \in Seq(S) /\ \A q \in 1..Len(u) : u[q] = t[a + q - 1]
  <2>1. a \in 1..Len(t) /\ close - 1 \in a..Len(t)
    BY <1>1, <1>2, <1>3
  <2>2. \A i \in a..(close - 1) : t[i] \in S
    BY <2>1
  <2>3. Len(u) = (close - 1) - a + 1 /\ u \in Seq(S) /\ \A q \in 1..Len(u) : u[q] = t[a + q - 1]
    BY <1>4, <2>1, <2>2, SubSeqProperties
  <2> QED
    BY <1>6, <2>3
<1>9. ASSUME NEW q \in a..(close - 1) PROVE Ch(u, q - a + 1) = Ch(t, q)
  <2> DEFINE i == q - a + 1
  <2>1. i \in 1..Len(u) /\ a + i - 1 = q /\ q \in 1..Len(t)
    BY <1>1, <1>3, <1>6, <1>8
  <2> HIDE DEF i
  <2>2. u[i] = t[q]
    BY <1>8, <2>1
  <2> QED
    BY <2>1, <2>2 DEF Ch, i
<1>10. ASSUME NEW k \in 1..n PROVE EntryAt(u, ut, entries, k)
  <2>1. k \in 1..n + 1 /\ k + 1 \in 1..n + 1
    BY <1>1
  <2>2. a <= at[k] /\ at[k + 1] <= close /\ ut[k] = at[k] - a + 1 /\ ut[k + 1] = at[k + 1] - a + 1
    BY <1>2, <1>4, <2>1
  <2> QED
    BY <1>5, <1>6, <1>9, <2>2, EntryMoved
<1>11. Len(u) \in Nat /\ ut[1] = 1 /\ ut[n + 1] = Len(u) + 1
  BY <1>2, <1>6, <1>7, <1>8
<1>12. AreEntries(u, ut, entries)
  BY <1>1, <1>10, <1>11, Zenon DEF AreEntries, n
<1> QED
  BY <1>8, <1>12 DEF u, ut

EnumClose(c) == c.at[Len(c.entries) + 1]
EnumTypes(c) == TypesText(c.format, c.at, c.entries)

(* What the parts of the format of an enumeration are read as *)
EnumFormat(c) ==
  /\ Ch(c.format, 1) = "E"
  /\ GetMultiType(c.format, 2) = [ok |-> TRUE, v |-> EnumTypes(c), p |-> EnumClose(c) + 1]
  /\ IsCut(Defaults(c.format, EnumClose(c) + 1), c.format, c.givenAt, c.givenNumerals)
  /\ Close(c) = Len(c.format)

(* Its entries: the last of them has a default, as all that read have *)
EnumEntries(c) ==
  /\ AreEntries(EnumTypes(c), TypePlaces(c.at, c.entries), c.entries)
  /\ \E S : EnumTypes(c) \in Seq(S)
  /\ Len(c.entries) \in Nat \ {0} /\ c.entries[Len(c.entries)] # "-"
  /\ Len(c.givenNumerals) = Cardinality(Readers(c.entries))

EntryStands(c) ==
  /\ c.at[1] = 3 /\ Len(c.entries) \in Nat \ {0}
  /\ \A k \in 1..Len(c.entries) : EntryAt(c.format, c.at, c.entries, k)

\* The entries stand in the format.
LEMMA EntriesStand ==
  ASSUME NEW c, HasEnum(c)
  PROVE  EntryStands(c)
<1> DEFINE entries == c.entries
           t == c.format
           at == c.at
           m == Len(entries)
           parts == [k \in 1..m |-> EntryFormat[entries[k]]]
<1>1. entries \in Seq(DOMAIN EntryFormat) /\ entries # <<>> /\ at[1] = 3 /\ Parts(t, at, parts)
  BY EnumsAssumption, Zenon DEF HasEnum
<1>2. DOMAIN EntryFormat = {"i", "q", "-"}
  <2> DEFINE F(z) == CASE z = "i" -> <<"i">> [] z = "q" -> <<"{", "i", "}">> [] z = "-" -> <<"-", "i">>
  <2>1. EntryFormat = [z \in {"i", "q", "-"} |-> F(z)]
    BY Zenon DEF EntryFormat
  <2> HIDE DEF F
  <2> QED
    BY <2>1
<1> HIDE DEF parts, t, at
<1>3. entries \in Seq({"i", "q", "-"})
  BY <1>1, <1>2
<1>4. m \in Nat \ {0} /\ \A k \in 1..m : entries[k] \in {"i", "q", "-"}
  <2>1. Len(entries) \in Nat /\ (Len(entries) = 0 => entries = <<>>)
    BY <1>3
  <2> QED
    BY <1>1, <1>3, <2>1
<1> HIDE DEF m, entries
<1>5. Len(parts) = m
  BY <1>4 DEF parts
<1>6. ASSUME NEW k \in 1..m PROVE PartOf(parts[k], entries[k])
  <2>1. parts[k] = EntryFormat[entries[k]]
    BY DEF parts
  <2>2. entries[k] \in {"i", "q", "-"}
    BY <1>4
  <2>3. PartOf(EntryFormat[entries[k]], entries[k])
    BY <2>2, EntryParts
  <2> QED
    BY <2>1, <2>3, Zenon
<1>7. ASSUME NEW k \in 1..m PROVE Len(parts[k]) \in Nat
  <2>1. entries[k] = "i" => Len(parts[k]) = 1
    BY <1>6, Zenon DEF PartOf
  <2>2. entries[k] = "-" => Len(parts[k]) = 2
    BY <1>6, Zenon DEF PartOf
  <2>3. entries[k] = "q" => Len(parts[k]) = 3
    BY <1>6, Zenon DEF PartOf
  <2> DEFINE l == Len(parts[k])
  <2> HIDE DEF l
  <2>4. l = 1 \/ l = 2 \/ l = 3
    BY <1>4, <2>1, <2>2, <2>3, Zenon DEF l
  <2>5. l \in Nat
    BY <2>4
  <2> QED
    BY <2>5 DEF l
<1>8. Standing(t, at, parts)
  <2>1. at[1] \in Nat \ {0} /\ Len(parts) \in Nat /\ \A k \in 1..Len(parts) : Len(parts[k]) \in Nat
    BY <1>1, <1>4, <1>5, <1>7
  <2> QED
    BY <1>1, <2>1, PartsPlaces, Zenon
<1>9. ASSUME NEW k \in 1..m PROVE EntryAt(t, at, entries, k)
  <2>1. k \in 1..m + 1
    BY <1>4
  <2>2. at[k] \in Nat \ {0} /\ at[k + 1] = at[k] + Len(parts[k]) /\ \A j \in 1..Len(parts[k]) : Ch(t, at[k] + j - 1) = parts[k][j]
    BY <1>5, <1>8, <2>1, Zenon DEF Standing
  <2>3. entries[k] \in {"i", "q", "-"}
    BY <1>4
  <2>4. PartOf(parts[k], entries[k])
    BY <1>6
  <2> DEFINE part == parts[k]
             p == at[k]
             next == at[k + 1]
             e == entries[k]
  <2>5. PartOf(part, e) /\ p \in Nat \ {0} /\ next = p + Len(part) /\ Within(t, p, part) /\ e \in {"i", "q", "-"}
    BY <2>2, <2>3, <2>4, Zenon DEF Within
  <2> HIDE DEF part, p, next, e
  <2>6. StandsAs(t, p, next, e)
    BY <2>5, PartStands
  <2> QED
    BY <2>6, Zenon DEF StandsAs, EntryAt, p, next, e
<1> QED
  BY <1>1, <1>4, <1>9, Zenon DEF EntryStands, t, at, entries, m

\* No mark of an entry ends a type.
LEMMA MarksStay == "<" \notin Marks /\ ">" \notin Marks /\ "\\" \notin Marks /\ NUL \notin Marks
BY Zenon DEF Marks, NUL, Opening, Closing

\* What a call with an enumeration is.
LEMMA EnumIs ==
  ASSUME NEW c, HasEnum(c)
  PROVE  /\ ValuesStand(c) /\ DefaultsStand(c, EnumClose(c) + 2) /\ c.params = 1 /\ InputIs(c)
         /\ EnumFormat(c) /\ EnumEntries(c)
<1> DEFINE t == c.format
           entries == c.entries
           at == c.at
           m == Len(entries)
           close == EnumClose(c)
           types == EnumTypes(c)
<1>1. /\ c \in Calls /\ Last(entries) # "-"
      /\ Within(t, 1, <<"E", "<">>) /\ Within(t, close, <<">", "(">>) /\ Given(c, close + 2)
      /\ Len(c.given) = Cardinality({k \in 1..m : entries[k] # "-"})
      /\ Len(t) = c.givenAt[Len(c.given) + 1]
  BY EnumsAssumption, Zenon DEF HasEnum, EnumClose
<1>2. at[1] = 3 /\ m \in Nat \ {0} /\ \A k \in 1..m : EntryAt(t, at, entries, k)
  BY EntriesStand, Zenon DEF EntryStands
<1>3. close = at[m + 1]
  BY Zenon DEF EnumClose
<1>4. Ch(t, 1) = "E" /\ Ch(t, 2) = "<"
  <2>1. \A j \in 1..2 : Ch(t, 1 + j - 1) = <<"E", "<">>[j]
    BY <1>1 DEF Within
  <2> HIDE DEF t
  <2> QED
    BY <2>1
<1> HIDE DEF t, entries, at, m, close, types
<1>5. /\ close \in Nat \ {0} /\ 3 < close
      /\ \A q \in 3..(close - 1) : Ch(t, q) \in Marks
  <2>1. /\ \A k \in 1..m + 1 : at[k] \in Nat \ {0}
        /\ \A q \in at[1]..(close - 1) : Ch(t, q) \in Marks
        /\ at[1] < close
    <3>1. Len(entries) \in Nat /\ Len(entries) # 0 /\ at[1] \in Nat \ {0} /\ \A k \in 1..Len(entries) : EntryAt(t, at, entries, k)
      BY <1>2 DEF m
    <3>2. close = at[Len(entries) + 1]
      BY <1>3 DEF m
    <3> QED
      BY <3>1, <3>2, EntriesGoUp DEF m
  <2>2. m + 1 \in 1..m + 1
    BY <1>2
  <2> QED
    BY <1>2, <1>3, <2>1, <2>2
<1>6. Ch(t, close) = ">" /\ Ch(t, close + 1) = "("
  <2>1. \A j \in 1..2 : Ch(t, close + j - 1) = <<">", "(">>[j]
    BY <1>1 DEF Within
  <2>2. close + 1 - 1 = close /\ close + 2 - 1 = close + 1
    BY <1>5
  <2>3. 1 \in 1..2 /\ 2 \in 1..2 /\ <<">", "(">>[1] = ">" /\ <<">", "(">>[2] = "("
    OBVIOUS
  <2> QED
    BY <2>1, <2>2, <2>3
<1>7. ValuesStand(c) /\ DefaultsStand(c, close + 2) /\ c.params = 1
  <2> DEFINE p == close + 2
  <2>1. p \in Nat \ {0} /\ Given(c, p)
    BY <1>1, <1>5
  <2> HIDE DEF p
  <2>2. ValuesStand(c) /\ DefaultsStand(c, p) /\ c.params = 1
    BY <2>1, GivenStand
  <2> QED
    BY <2>2 DEF p
<1>8. InputIs(c)
  BY <1>1, <1>7, ValuesInput, Zenon
<1>9. PICK S : t \in Seq(S)
  BY <1>8, Zenon DEF InputIs, t
<1>10. /\ Stands(t, c.givenAt, c.givenNumerals, Comma) /\ Len(c.givenNumerals) # 0 /\ c.givenAt[1] = close + 2
       /\ Ch(t, Close(c)) = Bracket /\ Len(c.given) = Len(c.givenNumerals)
  BY <1>7, Zenon DEF DefaultsStand, Close, t
<1>11. Close(c) = Len(t)
  BY <1>1, <1>10, Zenon DEF Close
<1>12. types \in Seq(S) /\ AreEntries(types, TypePlaces(at, entries), entries) /\ types = SubSeq(t, 3, close - 1)
  <2>1. Len(entries) \in Nat \ {0} /\ at[1] \in Nat \ {0} /\ \A k \in 1..Len(entries) : EntryAt(t, at, entries, k)
    BY <1>2 DEF m
  <2>2. Ch(t, at[Len(entries) + 1]) # NUL
    <3>1. Ch(t, close) # NUL
      BY <1>6 DEF NUL
    <3> QED
      BY <1>3, <3>1, Zenon DEF m
  <2>3. TypesText(t, at, entries) \in Seq(S) /\ AreEntries(TypesText(t, at, entries), TypePlaces(at, entries), entries)
    BY <1>9, <2>1, <2>2, TypesHave
  <2>4. types = TypesText(t, at, entries)
    BY Zenon DEF types, EnumTypes, t, at, entries
  <2>5. TypesText(t, at, entries) = SubSeq(t, 3, close - 1)
    BY <1>2, <1>3, Zenon DEF TypesText, m
  <2> QED
    BY <2>3, <2>4, <2>5, Zenon
<1>13. GetMultiType(t, 2) = [ok |-> TRUE, v |-> types, p |-> close + 1]
  <2> DEFINE p == 2
  <2>1. Len(t) \in Nat /\ close \in 1..Len(t)
    <3>1. Ch(t, close) # NUL
      BY <1>6 DEF NUL
    <3> QED
      BY <1>9, <3>1, Inside
  <2>2. p \in 1..Len(t) /\ close \in (p + 1)..Len(t)
    BY <1>5, <2>1
  <2>3. \A q \in (p + 1)..(close - 1) : Ch(t, q) \notin {"<", ">", "\\", NUL}
    <3>1. p + 1 = 3
      OBVIOUS
    <3> HIDE DEF p
    <3>2. ASSUME NEW q \in (p + 1)..(close - 1) PROVE Ch(t, q) \notin {"<", ">", "\\", NUL}
      <4>1. q \in 3..(close - 1)
        BY <3>1
      <4>2. Ch(t, q) \in Marks
        BY <1>5, <4>1
      <4> QED
        BY <4>2, MarksStay, Zenon
    <3> QED
      BY <3>2, Zenon
  <2>4. Ch(t, p) = "<" /\ Ch(t, close) = ">" /\ p + 1 = 3
    BY <1>4, <1>6
  <2> HIDE DEF p
  <2>5. GetMultiType(t, p) = [ok |-> TRUE, v |-> SubSeq(t, p + 1, close - 1), p |-> close + 1]
    BY <2>1, <2>2, <2>3, <2>4, TypeRead
  <2>6. GetMultiType(t, p) = [ok |-> TRUE, v |-> types, p |-> close + 1]
    BY <1>12, <2>4, <2>5, Zenon
  <2> QED
    BY <2>6, Zenon DEF p
<1>14. IsCut(Defaults(t, close + 1), t, c.givenAt, c.givenNumerals)
  <2> DEFINE p == close + 1
  <2>1. p \in Nat \ {0} /\ Ch(t, p) = "(" /\ c.givenAt[1] = p + 1
    BY <1>5, <1>6, <1>10
  <2>2. Ch(t, c.givenAt[Len(c.givenNumerals) + 1]) = ")"
    BY <1>10, Zenon DEF Bracket, Close
  <2>3. Comma \notin Backed
    BY GroupsPart
  <2> HIDE DEF p
  <2>4. IsCut(Defaults(t, p), t, c.givenAt, c.givenNumerals)
    BY <1>9, <1>10, <2>1, <2>2, <2>3, DefaultsRead, Zenon
  <2> QED
    BY <2>4, Zenon DEF p
<1>15. EnumFormat(c)
  BY <1>4, <1>11, <1>13, <1>14, Zenon DEF EnumFormat, t, close, types
<1>16. EnumEntries(c)
  <2>1. entries[m] # "-"
    BY <1>1, Zenon DEF Last, m
  <2>2. Len(c.givenNumerals) = Cardinality(Readers(entries))
    BY <1>1, <1>10, Zenon DEF Readers, m
  <2> QED
    BY <1>2, <1>12, <2>1, <2>2, Zenon DEF EnumEntries, types, at, entries, m
<1> QED
  BY <1>7, <1>8, <1>15, <1>16, Zenon DEF close

(***************************************************************************)
(* An enumeration is read twice: from its defaults, then from the input.   *)
(***************************************************************************)
OldReading(c, o) ==
  [types |-> EnumTypes(c), at |-> TypePlaces(c.at, c.entries), entries |-> c.entries,
   text |-> CutText(c.format, c.givenAt, c.givenNumerals), places |-> CutPlaces(c.givenAt, c.givenNumerals),
   nums |-> c.givenNumerals, by |-> Comma, delim |-> Closers, outer |-> o]

NewReading(c) ==
  [types |-> EnumTypes(c), at |-> TypePlaces(c.at, c.entries), entries |-> c.entries,
   text |-> c.text, places |-> c.valuesAt, nums |-> c.valueNumerals, by |-> Space, delim |-> Spaces, outer |-> Spaces]

IsOld(r, c, o) ==
  /\ r.ret = "TRUE" /\ r.rest = EnumTypes(c) /\ r.outer = o
  /\ AreCells(r.cells, c.entries, c.givenNumerals, Len(c.entries))

IsNew(r, c) ==
  /\ r.ret \in {"TRUE", "CONT"} /\ r.outer = Spaces
  /\ \E k \in 0..Len(c.entries) : /\ AreCells(r.cells, c.entries, c.valueNumerals, k)
                                  /\ ReadTo(c.entries, k) <= Len(c.valueNumerals)
                                  /\ k # Len(c.entries) => ReadTo(c.entries, k) = Len(c.valueNumerals)

\* The defaults of an enumeration are enough for it.
LEMMA EnumOld ==
  ASSUME NEW c, HasEnum(c), NEW options, NEW o
  PROVE  IsOld(DoEnumValues(EnumTypes(c), options, Closers, o, CutText(c.format, c.givenAt, c.givenNumerals), 1, TRUE, TRUE), c, o)
<1> DEFINE t == c.format
           gs == c.givenNumerals
           at == c.givenAt
           u == CutText(t, at, gs)
           places == CutPlaces(at, gs)
           entries == c.entries
           m == Len(entries)
           types == EnumTypes(c)
           ut == TypePlaces(c.at, entries)
           d == Closers
           x == Comma
           yes == TRUE
           a == DoEnumValues(types, options, d, o, u, 1, TRUE, yes)
           g == OldReading(c, o)
<1>1. /\ Stands(t, at, gs, x) /\ Len(gs) # 0 /\ Ch(t, at[Len(gs) + 1]) = Bracket /\ InputIs(c)
      /\ AreEntries(types, ut, entries) /\ m \in Nat \ {0} /\ entries[m] # "-" /\ Len(gs) = Cardinality(Readers(entries))
  <2>1. DefaultsStand(c, EnumClose(c) + 2) /\ InputIs(c) /\ EnumEntries(c)
    BY EnumIs, Zenon
  <2> QED
    BY <2>1, Zenon DEF DefaultsStand, EnumEntries
<1>2. Bracket # NUL /\ Parting(d, x)
  BY GroupsPart
<1>3. PICK S : t \in Seq(S)
  BY <1>1, Zenon DEF InputIs
<1>4. PICK T : types \in Seq(T)
  BY EnumIs, Zenon DEF EnumEntries
<1>5. yes \in BOOLEAN
  OBVIOUS
<1>6. u \in Seq(S) /\ Stands(u, places, gs, x) /\ places[1] = 1 /\ places[Len(gs) + 1] = Len(u) + 1
  <2> HIDE DEF t, at, gs, x
  <2> QED
    BY <1>1, <1>2, <1>3, StandsCut
<1>7. /\ g.types = types /\ g.at = ut /\ g.entries = entries /\ g.text = u /\ g.places = places
      /\ g.nums = gs /\ g.by = x /\ g.delim = d /\ g.outer = o
  BY DEF OldReading
<1> HIDE DEF t, gs, at, u, places, entries, m, types, ut, d, x, yes, g
<1>8. AreValues(u, places, gs, x, d)
  BY <1>2, <1>6, Zenon DEF AreValues
<1>9. Fits(g)
  BY <1>1, <1>7, <1>8, Zenon DEF Fits
<1>10. HasEnded(g, DoEnumValues(g.types, options, g.delim, g.outer, g.text, 1, TRUE, yes))
  <2>1. g.types \in Seq(T)
    BY <1>4, <1>7, Zenon
  <2> QED
    BY <1>5, <1>9, <2>1, ReadingEnds, Zenon
<1>11. HasEnded(g, a)
  BY <1>7, <1>10, Zenon
<1> HIDE DEF a
<1>12. PICK k \in 0..Len(g.entries) : Behind(g, a, k)
  BY <1>11, Zenon DEF HasEnded
<1>13. PICK cells, p, q : /\ AreCells(cells, entries, gs, k)
                          /\ k # m => ReadTo(entries, k) = Len(gs)
                          /\ IsReading(a, q, p, Complete(g, k), cells, d, o, types)
  BY <1>7, <1>12, Zenon DEF Behind, m
<1>14. k = m
  <2>1. k \in 0..Len(entries)
    BY <1>7, <1>12, Zenon
  <2>2. Len(entries) \in Nat /\ m \in 1..Len(entries)
    BY <1>1 DEF m
  <2>3. k < m => ReadTo(entries, k) < ReadTo(entries, m)
    BY <1>1, <2>1, <2>2, CountsCompare
  <2>4. ReadTo(entries, m) = Cardinality(Readers(entries))
    BY <2>2, EntriesCount DEF m
  <2>5. ReadTo(entries, k) \in Nat
    BY <2>1, <2>2, CountsCompare
  <2> DEFINE v == ReadTo(entries, k)
             w == ReadTo(entries, m)
             z == Len(entries)
  <2>6. /\ k < m => v < w
        /\ v \in Nat
        /\ k # m => v = w
        /\ k \in 0..z /\ z \in Nat /\ m = z
    BY <1>1, <1>13, <2>1, <2>2, <2>3, <2>4, <2>5, Zenon DEF m
  <2> HIDE DEF v, w, z
  <2> QED
    BY <2>6
<1>15. Complete(g, k) = "TRUE"
  BY <1>7, <1>14, Zenon DEF Complete, m
<1>16. a.ret = "TRUE" /\ a.rest = types /\ a.outer = o /\ AreCells(a.cells, entries, gs, m)
  BY <1>13, <1>14, <1>15, Zenon DEF IsReading
<1>17. IsOld(a, c, o)
  BY <1>16, Zenon DEF IsOld, types, entries, gs, m
<1> QED
  BY <1>17, Zenon DEF a, types, d, u, t, at, gs, yes

\* The input fills as many of its entries as there are values.
LEMMA EnumNew ==
  ASSUME NEW c, HasEnum(c), NEW options
  PROVE  IsNew(DoEnumValues(EnumTypes(c), options, Spaces, Spaces, c.text, 1, TRUE, FALSE), c)
<1> DEFINE u == c.text
           vs == c.valueNumerals
           places == c.valuesAt
           entries == c.entries
           m == Len(entries)
           types == EnumTypes(c)
           ut == TypePlaces(c.at, entries)
           d == Spaces
           x == Space
           no == FALSE
           a == DoEnumValues(types, options, d, d, u, 1, TRUE, no)
           g == NewReading(c)
<1>1. /\ Stands(u, places, vs, x) /\ places[1] = 1 /\ places[Len(vs) + 1] = Len(u) + 1 /\ InputIs(c)
      /\ AreEntries(types, ut, entries)
  <2>1. ValuesStand(c) /\ InputIs(c) /\ EnumEntries(c)
    BY EnumIs, Zenon
  <2> QED
    BY <2>1, Zenon DEF ValuesStand, EnumEntries
<1>2. Parting(d, x)
  BY GroupsPart
<1>3. \E S : u \in Seq(S)
  BY <1>1, Zenon DEF InputIs
<1>4. PICK T : types \in Seq(T)
  BY EnumIs, Zenon DEF EnumEntries
<1>5. no \in BOOLEAN
  OBVIOUS
<1>6. /\ g.types = types /\ g.at = ut /\ g.entries = entries /\ g.text = u /\ g.places = places
      /\ g.nums = vs /\ g.by = x /\ g.delim = d /\ g.outer = d
  BY DEF NewReading
<1> HIDE DEF u, vs, places, entries, m, types, ut, d, x, no, g
<1>7. AreValues(u, places, vs, x, d)
  BY <1>1, <1>2, <1>3, Zenon DEF AreValues
<1>8. Fits(g)
  BY <1>1, <1>6, <1>7, Zenon DEF Fits
<1>9. HasEnded(g, DoEnumValues(g.types, options, g.delim, g.outer, g.text, 1, TRUE, no))
  <2>1. g.types \in Seq(T)
    BY <1>4, <1>6, Zenon
  <2> QED
    BY <1>5, <1>8, <2>1, ReadingEnds, Zenon
<1>10. HasEnded(g, a)
  BY <1>6, <1>9, Zenon
<1> HIDE DEF a
<1>11. PICK k \in 0..Len(g.entries) : Behind(g, a, k)
  BY <1>10, Zenon DEF HasEnded
<1>12. PICK cells, p, q : /\ AreCells(cells, entries, vs, k) /\ ReadTo(entries, k) <= Len(vs)
                          /\ k # m => ReadTo(entries, k) = Len(vs)
                          /\ IsReading(a, q, p, Complete(g, k), cells, d, d, types)
  BY <1>6, <1>11, Zenon DEF Behind, m
<1>13. a.ret \in {"TRUE", "CONT"} /\ a.outer = d /\ a.cells = cells
  BY <1>12, Zenon DEF IsReading, Complete
<1>14. k \in 0..m
  BY <1>6, <1>11, Zenon DEF m
<1>15. IsNew(a, c)
  BY <1>12, <1>13, <1>14, Zenon DEF IsNew, entries, vs, m, d
<1> QED
  BY <1>15, Zenon DEF a, types, d, u, no

(* What the call saves of the enumeration *)
EnumFilled(cells, c) == AreFilled(cells, c.entries, c.valueNumerals, c.givenNumerals)

\* The input over the defaults.
LEMMA EnumOver ==
  ASSUME NEW c, HasEnum(c), NEW new, NEW old, NEW o, IsNew(new, c), IsOld(old, c, o)
  PROVE  EnumFilled(Over(new.cells, old.cells), c)
<1> DEFINE vs == c.valueNumerals
           gs == c.givenNumerals
           entries == c.entries
           m == Len(entries)
           fresh == new.cells
           given == old.cells
<1>1. Stands(c.text, c.valuesAt, vs, Space) /\ m \in Nat
  <2>1. ValuesStand(c) /\ EnumEntries(c)
    BY EnumIs, Zenon
  <2>2. m \in Nat \ {0}
    BY <2>1, Zenon DEF EnumEntries
  <2> QED
    BY <2>1, <2>2 DEF ValuesStand
<1>2. Len(vs) \in Nat /\ \A i \in 1..Len(vs) : Number(vs[i]) \in Int
  BY <1>1, NumeralsTyped
<1>3. PICK k \in 0..m : /\ AreCells(fresh, entries, vs, k) /\ ReadTo(entries, k) <= Len(vs)
                        /\ k # m => ReadTo(entries, k) = Len(vs)
  BY Zenon DEF IsNew
<1>4. AreCells(given, entries, gs, Len(entries)) /\ Len(entries) \in Nat
  BY <1>1, Zenon DEF IsOld
<1>5. k \in 0..Len(entries) /\ (k # Len(entries) => ReadTo(entries, k) = Len(vs))
  BY <1>3, Zenon
<1> HIDE DEF vs, gs, entries, m, fresh, given
<1>6. AreFilled(Over(fresh, given), entries, vs, gs)
  BY <1>2, <1>3, <1>4, <1>5, EntriesFilled
<1> QED
  BY <1>6, Zenon DEF EnumFilled, fresh, given, entries, vs, gs

\* The defaults alone.
LEMMA EnumGiven ==
  ASSUME NEW c, HasEnum(c), NEW old, NEW o, IsOld(old, c, o), Len(c.valueNumerals) = 0
  PROVE  EnumFilled(old.cells, c)
<1> DEFINE vs == c.valueNumerals
           gs == c.givenNumerals
           entries == c.entries
           given == old.cells
<1>1. Len(entries) \in Nat \ {0}
  BY EnumIs, Zenon DEF EnumEntries
<1>2. AreCells(given, entries, gs, Len(entries)) /\ Len(vs) = 0
  BY Zenon DEF IsOld
<1> HIDE DEF vs, gs, entries, given
<1>3. AreFilled(given, entries, vs, gs)
  BY <1>1, <1>2, OnlyDefaults
<1> QED
  BY <1>3, Zenon DEF EnumFilled, given, entries, vs, gs

(***************************************************************************)
(* In front of the enumeration, or behind it.                              *)
(***************************************************************************)
AtEnum ==
  /\ saved = <<>> /\ f = 1 /\ s = 1 /\ doSave = TRUE
  /\ phase = "main" => delim = Spaces
  /\ phase = "defaults" => Len(call.valueNumerals) = 0

EnumSaved == \E cells : saved = <<cells>> /\ EnumFilled(cells, call)

BehindEnum == EnumSaved /\ f = Len(call.format) + 1 /\ doSave = TRUE

\* What reading it writes.
LEMMA EnumReads ==
  ASSUME call' = call, NEW cells, NEW d, NEW q, saved = <<>>, doSave = TRUE, EnumFilled(cells, call),
         ReadEnum(cells, Len(call.format) + 1, d, q)
  PROVE  phase' = phase /\ BehindEnum'
<1>1. /\ phase' = phase /\ doSave' = doSave /\ f' = Len(call.format) + 1
      /\ saved' = IF doSave THEN Append(saved, cells) ELSE saved
  BY Zenon DEF ReadEnum, Save, Move
<1>2. saved' = Append(<<>>, cells)
  BY <1>1, Zenon
<1>3. Append(<<>>, cells) = <<cells>>
  OBVIOUS
<1>4. saved' = <<cells>>
  BY <1>2, <1>3, Zenon
<1>5. EnumFilled(cells, call')
  BY Zenon
<1>6. EnumSaved'
  BY <1>4, <1>5, Zenon DEF EnumSaved
<1> QED
  BY <1>1, <1>6, Zenon DEF BehindEnum

\* The enumeration is read.
LEMMA EnumTurn ==
  ASSUME HasEnum(call), call' = call, phase \in {"main", "defaults"}, AtEnum, Enum
  PROVE  phase' = phase /\ BehindEnum'
<1> DEFINE m == GetMultiType(format, f + 1)
           o == GroupDefaults(m.p)
           given == o.given /\ ~o.empty
           cut == CutText(format, call.givenAt, call.givenNumerals)
           types == EnumTypes(call)
           close == EnumClose(call)
           none == [ret |-> "TRUE", cells |-> <<>>, outer |-> delim, rest |-> m.v]
           old == IF m.ok /\ given
                  THEN DoEnumValues(m.v, gOptions, {",", ")"}, delim, o.text, 1, doSave, TRUE)
                  ELSE none
<1>1. /\ Ch(format, 1) = "E" /\ GetMultiType(format, 2) = [ok |-> TRUE, v |-> types, p |-> close + 1]
      /\ IsCut(Defaults(format, close + 1), format, call.givenAt, call.givenNumerals)
      /\ Close(call) = Len(format)
  <2>1. EnumFormat(call)
    BY EnumIs, Zenon
  <2> QED
    BY <2>1, Zenon DEF EnumFormat, format
<1>2. f + 1 = 2 /\ f = 1 /\ s = 1 /\ saved = <<>> /\ doSave = TRUE
  BY DEF AtEnum
<1> HIDE DEF types, close
<1>3. m = [ok |-> TRUE, v |-> types, p |-> close + 1]
  BY <1>1, <1>2, Zenon
<1>4. m.ok = TRUE /\ m.v = types /\ m.p = close + 1
  BY <1>3
<1> HIDE DEF m
<1>5. Letter = "E"
  BY <1>1, <1>2, Zenon DEF Letter
<1>6. o = Defaults(format, close + 1)
  BY <1>4, <1>5, Zenon DEF GroupDefaults
<1>7. o.given = TRUE /\ o.empty = FALSE /\ o.text = cut /\ o.p = Len(format) + 1
  <2>1. IsCut(o, format, call.givenAt, call.givenNumerals)
    BY <1>1, <1>6, Zenon
  <2>2. o.given = TRUE /\ o.empty = FALSE /\ o.text = cut /\ o.p = Close(call) + 1
    <3> HIDE DEF o
    <3> QED
      BY <2>1 DEF IsCut, Close
  <2> QED
    BY <1>1, <2>2, Zenon
<1> HIDE DEF o
<1>8. given
  BY <1>7
<1>9. old = DoEnumValues(types, gOptions, Closers, delim, cut, 1, TRUE, TRUE)
  BY <1>2, <1>4, <1>7, <1>8, Zenon DEF Closers
<1>10. IsOld(old, call, delim)
  <2>1. IsOld(DoEnumValues(EnumTypes(call), gOptions, Closers, delim, CutText(call.format, call.givenAt, call.givenNumerals), 1, TRUE, TRUE), call, delim)
    BY EnumOld
  <2> HIDE DEF old
  <2> QED
    BY <1>9, <2>1, Zenon DEF types, format
<1>11. old.ret = "TRUE" /\ old.rest = types /\ old.outer = delim
  BY <1>10, Zenon DEF IsOld, types
<1>12. IF phase = "defaults" THEN ReadEnum(old.cells, o.p, old.outer, s)
       ELSE \E new \in {DoEnumValues(old.rest, gOptions, old.outer, old.outer, string, s, doSave, FALSE)} :
            IF Content(new, given) THEN ReadEnum(Over(new.cells, old.cells), o.p, new.outer, new.p)
            ELSE Return("FAIL")
  <2> DEFINE Settled(multi, opts, before) ==
               LET defaulted == opts.given /\ ~opts.empty
               IN  IF ~multi.ok \/ before.ret # "TRUE" THEN Return("FAIL")
                   ELSE IF phase = "defaults" THEN ReadEnum(before.cells, opts.p, before.outer, s)
                   ELSE \E new \in {DoEnumValues(before.rest, gOptions, before.outer, before.outer, string, s, doSave, FALSE)} :
                        IF Content(new, defaulted) THEN ReadEnum(Over(new.cells, before.cells), opts.p, new.outer, new.p)
                        ELSE Return("FAIL")
             WithDefaults(multi, opts) ==
               LET defaulted == opts.given /\ ~opts.empty
                   nothing == [ret |-> "TRUE", cells |-> <<>>, outer |-> delim, rest |-> multi.v]
               IN  \E before \in {IF multi.ok /\ defaulted
                                  THEN DoEnumValues(multi.v, gOptions, {",", ")"}, delim, opts.text, 1, doSave, TRUE)
                                  ELSE nothing} : Settled(multi, opts, before)
             Named(multi) == \E opts \in {GroupDefaults(multi.p)} : WithDefaults(multi, opts)
  <2>1. \E multi \in {m} : Named(multi)
    BY Zenon DEF Enum, m
  <2>2. Named(m)
    <3> HIDE DEF Named
    <3> QED
      BY <2>1
  <2>3. WithDefaults(m, o)
    <3> HIDE DEF WithDefaults
    <3> QED
      BY <2>2, Zenon DEF o
  <2>4. Settled(m, o, old)
    <3> HIDE DEF Settled
    <3> QED
      BY <2>3, Zenon
  <2> HIDE DEF old, given
  <2>5. IF ~m.ok \/ old.ret # "TRUE" THEN Return("FAIL")
        ELSE IF phase = "defaults" THEN ReadEnum(old.cells, o.p, old.outer, s)
        ELSE \E new \in {DoEnumValues(old.rest, gOptions, old.outer, old.outer, string, s, doSave, FALSE)} :
             IF Content(new, given) THEN ReadEnum(Over(new.cells, old.cells), o.p, new.outer, new.p)
             ELSE Return("FAIL")
    BY <2>4, Zenon DEF given
  <2> QED
    BY <1>4, <1>11, <2>5, Zenon
<1> HIDE DEF old
<1>13. o.p = Len(call.format) + 1
  BY <1>7, Zenon DEF format
<1>14. CASE phase = "defaults"
  <2>1. ReadEnum(old.cells, Len(call.format) + 1, old.outer, s)
    BY <1>12, <1>13, <1>14, Zenon
  <2>2. EnumFilled(old.cells, call)
    <3>1. Len(call.valueNumerals) = 0
      BY <1>14 DEF AtEnum
    <3> QED
      BY <1>10, <3>1, EnumGiven
  <2> QED
    BY <1>2, <2>1, <2>2, EnumReads, Zenon
<1>15. CASE phase = "main"
  <2> DEFINE new == DoEnumValues(old.rest, gOptions, old.outer, old.outer, string, s, doSave, FALSE)
  <2>1. IF Content(new, given) THEN ReadEnum(Over(new.cells, old.cells), o.p, new.outer, new.p) ELSE Return("FAIL")
    <3>1. phase # "defaults"
      BY <1>15
    <3> HIDE DEF given
    <3> QED
      BY <1>12, <3>1, Zenon
  <2>2. delim = Spaces /\ string = call.text
    <3>1. Corrected(call.text) = call.text
      BY EnumIs DEF InputIs
    <3> QED
      BY <1>15, <3>1 DEF AtEnum, string
  <2>3. new = DoEnumValues(types, gOptions, Spaces, Spaces, call.text, 1, TRUE, FALSE)
    BY <1>2, <1>11, <2>2, Zenon
  <2> HIDE DEF new
  <2>4. IsNew(new, call)
    <3>1. IsNew(DoEnumValues(EnumTypes(call), gOptions, Spaces, Spaces, call.text, 1, TRUE, FALSE), call)
      BY EnumNew
    <3> QED
      BY <2>3, <3>1, Zenon DEF types
  <2>5. new.ret \in {"TRUE", "CONT"}
    BY <2>4, Zenon DEF IsNew
  <2>6. Content(new, given)
    BY <1>8, <2>5 DEF Content
  <2>7. ReadEnum(Over(new.cells, old.cells), Len(call.format) + 1, new.outer, new.p)
    BY <1>13, <2>1, <2>6, Zenon
  <2>8. EnumFilled(Over(new.cells, old.cells), call)
    BY <1>10, <2>4, EnumOver
  <2> QED
    BY <1>2, <2>7, <2>8, EnumReads, Zenon
<1> QED
  BY <1>14, <1>15

(* What the cell of an entry of a call should hold *)
ShouldHold(c, j) ==
  LET n == ReadTo(c.entries, j)
  IN  IF c.entries[j] = "-" THEN Untouched ELSE IF n <= Len(c.values) THEN c.values[n] ELSE c.given[n]

\* It is what it was filled with.
LEMMA EnumHolds ==
  ASSUME NEW c, HasEnum(c), NEW j \in Keepers(c.entries)
  PROVE  EntryCell(c.entries, c.valueNumerals, c.givenNumerals, j) = ShouldHold(c, j)
<1> DEFINE vs == c.valueNumerals
           gs == c.givenNumerals
           entries == c.entries
           m == Len(entries)
           n == ReadTo(entries, j)
<1>1. /\ Len(c.values) = Len(vs) /\ c.values = Numbers(vs)
      /\ Len(c.given) = Len(gs) /\ c.given = Numbers(gs)
      /\ Stands(c.text, c.valuesAt, vs, Space) /\ Stands(c.format, c.givenAt, gs, Comma)
      /\ m \in Nat \ {0} /\ Len(gs) = Cardinality(Readers(entries))
  <2>1. ValuesStand(c) /\ DefaultsStand(c, EnumClose(c) + 2) /\ EnumEntries(c)
    BY EnumIs, Zenon
  <2> QED
    BY <2>1, Zenon DEF ValuesStand, DefaultsStand, EnumEntries
<1>2. Len(vs) \in Nat /\ Len(gs) \in Nat
  BY <1>1, Zenon DEF Stands
<1>3. j \in 1..m /\ m \in 0..m /\ m \in Nat /\ j <= m
  BY <1>1 DEF Keepers
<1>4. n \in Nat /\ n <= ReadTo(entries, m) /\ (entries[j] # "-" => n > 0)
  BY <1>3, CountsCompare
<1>5. ReadTo(entries, m) = Len(gs)
  BY <1>1, <1>3, EntriesCount
<1> HIDE DEF vs, gs, entries, m, n
<1>6. entries[j] # "-" => n \in 1..Len(gs) /\ (n <= Len(vs) => n \in 1..Len(vs))
  BY <1>2, <1>4, <1>5
<1>7. \A i \in 1..Len(vs) : c.values[i] = Number(vs[i])
  <2>1. c.values = [i \in 1..Len(vs) |-> Number(vs[i])]
    BY <1>1, Zenon DEF Numbers
  <2> QED
    BY <2>1
<1>8. \A i \in 1..Len(gs) : c.given[i] = Number(gs[i])
  <2>1. c.given = [i \in 1..Len(gs) |-> Number(gs[i])]
    BY <1>1, Zenon DEF Numbers
  <2> QED
    BY <2>1
<1>9. EntryCell(entries, vs, gs, j) = IF entries[j] = "-" THEN Untouched ELSE IF n <= Len(vs) THEN Number(vs[n]) ELSE Number(gs[n])
  BY Zenon DEF EntryCell, n
<1>10. ShouldHold(c, j) = IF entries[j] = "-" THEN Untouched ELSE IF n <= Len(vs) THEN c.values[n] ELSE c.given[n]
  BY <1>1, Zenon DEF ShouldHold, n, entries
<1>11. EntryCell(entries, vs, gs, j) = ShouldHold(c, j)
  <2>1. CASE entries[j] = "-"
    BY <1>9, <1>10, <2>1, Zenon
  <2>2. CASE entries[j] # "-" /\ n <= Len(vs)
    <3>1. c.values[n] = Number(vs[n])
      BY <1>6, <1>7, <2>2
    <3> QED
      BY <1>9, <1>10, <2>2, <3>1
  <2>3. CASE entries[j] # "-" /\ ~(n <= Len(vs))
    <3>1. c.given[n] = Number(gs[n])
      BY <1>6, <1>8, <2>3
    <3> QED
      BY <1>9, <1>10, <2>3, <3>1
  <2> QED
    BY <2>1, <2>2, <2>3
<1> QED
  BY <1>11 DEF entries, vs, gs

AmongEnum == phase \in {"main", "defaults"} /\ (AtEnum \/ BehindEnum)

EnumTurned ==
  \/ AmongEnum'
  \/ phase' = "ended" /\ result' = "TRUE" /\ EnumSaved'

\* Which letters the parser is at.
LEMMA EnumLetter ==
  ASSUME HasEnum(call)
  PROVE  /\ AtEnum => Letter = "E" /\ More
         /\ BehindEnum => Letter = NUL /\ ~More
<1>1. Ch(call.format, 1) = "E" /\ call.params = 1
  <2>1. EnumFormat(call) /\ call.params = 1
    BY EnumIs, Zenon
  <2> QED
    BY <2>1, Zenon DEF EnumFormat
<1>2. AtEnum => Letter = "E" /\ More
  <2> SUFFICES ASSUME AtEnum PROVE Letter = "E" /\ More
    OBVIOUS
  <2>1. f = 1 /\ Len(saved) = 0
    BY DEF AtEnum
  <2> QED
    BY <1>1, <2>1 DEF Letter, format, More
<1>3. BehindEnum => Letter = NUL /\ ~More
  <2> SUFFICES ASSUME BehindEnum PROVE Letter = NUL /\ ~More
    OBVIOUS
  <2>1. PICK cells : f = Len(call.format) + 1 /\ saved = <<cells>> /\ doSave = TRUE
    BY Zenon DEF BehindEnum, EnumSaved
  <2>2. Len(saved) = 1
    BY <2>1
  <2>3. Len(call.format) \in Nat
    <3>1. call.format \in Seq(ToSet(call.format))
      BY CallsAssumption DEF HasEnum
    <3> QED
      BY <3>1, LenProperties
  <2>4. f \notin 1..Len(call.format)
    BY <2>1, <2>3
  <2>5. Letter = NUL
    BY <2>4, Zenon DEF Letter, format, Ch
  <2> QED
    BY <1>1, <2>1, <2>2, <2>5 DEF More
<1> QED
  BY <1>2, <1>3, Zenon

\* Behind it the call goes on to the defaults, and ends.
LEMMA BehindEnumTurns ==
  ASSUME HasEnum(call), call' = call, phase \in {"main", "defaults"}, BehindEnum, Work
  PROVE  EnumTurned
<1>1. NUL \in LettersUsed /\ NUL \notin Quieters /\ NUL \notin {"d", "I", "p", "s", "A", "E", ")"}
  BY Zenon DEF LettersUsed, Quieters, NUL
<1>2. Letter = NUL /\ ~More
  BY EnumLetter
<1>3. EnumSaved /\ f = Len(call.format) + 1 /\ doSave = TRUE
  BY Zenon DEF BehindEnum
<1>4. ASSUME saved' = saved PROVE EnumSaved'
  BY <1>3, <1>4, Zenon DEF EnumSaved
<1>5. CASE phase = "main"
  <2>1. InputEnds
    BY <1>1, <1>2, <1>5, MainTurn, Zenon
  <2>2. phase' = "defaults" /\ f' = f /\ saved' = saved /\ doSave' = doSave
    BY <2>1, Zenon DEF InputEnds
  <2>3. BehindEnum'
    BY <1>3, <1>4, <2>2, Zenon DEF BehindEnum
  <2> QED
    BY <2>2, <2>3, Zenon DEF EnumTurned, AmongEnum
<1>6. CASE phase = "defaults"
  <2>1. Finished
    BY <1>1, <1>2, <1>6, DefaultTurn, Zenon
  <2>2. phase' = "ended" /\ result' = "TRUE" /\ saved' = saved
    BY <2>1, Zenon DEF Finished, Return
  <2> QED
    BY <1>4, <2>2, Zenon DEF EnumTurned
<1> QED
  BY <1>5, <1>6

\* A turn in front of the enumeration or behind it.
LEMMA WorkTurnsEnum ==
  ASSUME HasEnum(call), call' = call, AmongEnum, Work
  PROVE  EnumTurned
<1>1. "E" \in LettersUsed /\ "E" \notin Quieters /\ "E" # NUL
  BY Zenon DEF LettersUsed, Quieters, NUL
<1>2. CASE BehindEnum
  BY <1>2, BehindEnumTurns DEF AmongEnum
<1>3. CASE AtEnum
  <2>1. Letter = "E" /\ More
    BY <1>3, EnumLetter
  <2>2. CASE phase = "main"
    <3>1. InputEnds \/ Enum
      BY <1>1, <2>1, <2>2, MainTurn, Zenon
    <3>2. CASE Enum
      <4>1. phase' = phase /\ BehindEnum'
        BY <1>3, <2>2, <3>2, EnumTurn
      <4> QED
        BY <2>2, <4>1, Zenon DEF EnumTurned, AmongEnum
    <3>3. CASE InputEnds
      <4>1. phase' = "defaults" /\ f' = f /\ s' = s /\ saved' = saved /\ doSave' = doSave /\ Ch(string, s) = NUL
        BY <2>1, <3>3, Zenon DEF InputEnds
      <4>2. s = 1 /\ saved = <<>> /\ f = 1 /\ doSave = TRUE
        BY <1>3 DEF AtEnum
      <4>3. Len(call.valueNumerals) = 0
        <5>1. InputIs(call)
          BY EnumIs, Zenon
        <5>2. string = call.text /\ (Ch(call.text, 1) = NUL <=> Len(call.valueNumerals) = 0)
          BY <5>1, Zenon DEF InputIs, string
        <5> QED
          BY <4>1, <4>2, <5>2, Zenon
      <4>4. Len(call'.valueNumerals) = 0
        BY <4>3, Zenon
      <4>5. AtEnum'
        <5>1. phase' # "main"
          BY <4>1
        <5> QED
          BY <4>1, <4>2, <4>4, <5>1, Zenon DEF AtEnum
      <4> QED
        BY <4>1, <4>5, Zenon DEF EnumTurned, AmongEnum
    <3> QED
      BY <3>1, <3>2, <3>3
  <2>3. CASE phase = "defaults"
    <3>1. Finished \/ Enum
      BY <1>1, <2>1, <2>3, DefaultTurn, Zenon
    <3>2. ~Finished
      BY <2>1, Zenon DEF Finished
    <3>3. phase' = phase /\ BehindEnum'
      BY <1>3, <2>3, <3>1, <3>2, EnumTurn
    <3> QED
      BY <2>3, <3>3, Zenon DEF EnumTurned, AmongEnum
  <2> QED
    BY <2>2, <2>3 DEF AmongEnum
<1> QED
  BY <1>2, <1>3 DEF AmongEnum

\* Where a call with an enumeration begins.
LEMMA EnumAtCall ==
  ASSUME NEW c \in Calls, Call(c), c.kind = "enum"
  PROVE  AmongEnum'
<1>1. HasEnum(c)
  BY DEF HasEnum
<1>2. call' = c /\ phase' = "main" /\ saved' = <<>> /\ s' = SkipWhitespace(Corrected(c.text), 1) /\ delim' = Spaces
  BY Zenon DEF Call, Spaces
<1>3. Ch(c.format, 1) = "E" /\ Corrected(c.text) = c.text /\ SkipWhitespace(c.text, 1) = 1
  <2>1. EnumFormat(c) /\ InputIs(c)
    BY <1>1, EnumIs, Zenon
  <2> QED
    BY <2>1, Zenon DEF EnumFormat, InputIs
<1>4. f' = 1 /\ doSave' = TRUE
  <2>1. Ch(c.format, 1) # "{"
    BY <1>3
  <2>2. f' = (IF Ch(c.format, 1) = "{" THEN 2 ELSE 1) /\ doSave' = ~(Ch(c.format, 1) = "{")
    BY Zenon DEF Call
  <2> QED
    BY <2>1, <2>2, Zenon
<1>5. AtEnum'
  <2>1. phase' # "defaults"
    BY <1>2
  <2> QED
    BY <1>2, <1>3, <1>4, <2>1, Zenon DEF AtEnum
<1> QED
  BY <1>2, <1>5, Zenon DEF AmongEnum

(***************************************************************************)
(* In front of its enumeration or behind it while a call works, and with   *)
(* it once it has ended.                                                   *)
(***************************************************************************)
EnumRead ==
  /\ phase \in {"main", "defaults"} => (call.kind = "enum" => AmongEnum)
  /\ phase = "ended" => (call.kind = "enum" => result = "TRUE" /\ EnumSaved)

\* A step of the plugin keeps it so.
LEMMA NextKeepsEnum == Bounded /\ EnumRead /\ [Next]_vars => EnumRead'
<1> SUFFICES ASSUME Bounded, EnumRead, [Next]_vars PROVE EnumRead'
  OBVIOUS
<1>1. ASSUME NEW c \in Calls, Call(c) PROVE EnumRead'
  <2>1. phase' = "main" /\ call' = c
    BY <1>1 DEF Call
  <2>2. c.kind = "enum" => AmongEnum'
    BY <1>1, EnumAtCall
  <2> QED
    BY <2>1, <2>2, Zenon DEF EnumRead
<1>2. CASE WorkStep
  <2>1. Work /\ call' = call
    BY <1>2, Zenon DEF WorkStep
  <2>2. phase \in {"main", "defaults"} /\ phase' \in {"main", "defaults", "ended"}
    <3>1. Saves \/ Ends
      BY <2>1, WorkSavesOrEnds
    <3> QED
      BY <3>1 DEF Saves, Ends
  <2>3. CASE call.kind # "enum"
    BY <2>1, <2>3, Zenon DEF EnumRead
  <2>4. CASE call.kind = "enum"
    <3>1. HasEnum(call)
      BY <2>2, <2>4 DEF HasEnum, Bounded
    <3>2. AmongEnum
      BY <2>2, <2>4, Zenon DEF EnumRead
    <3>3. EnumTurned
      BY <2>1, <2>2, <3>1, <3>2, WorkTurnsEnum
    <3>4. CASE AmongEnum'
      <4>1. phase' # "ended"
        BY <3>4 DEF AmongEnum
      <4> QED
        BY <3>4, <4>1, Zenon DEF EnumRead
    <3>5. CASE phase' = "ended" /\ result' = "TRUE" /\ EnumSaved'
      <4>1. phase' \notin {"main", "defaults"}
        BY <3>5
      <4> QED
        BY <2>1, <3>5, <4>1, Zenon DEF EnumRead
    <3> QED
      BY <3>3, <3>4, <3>5 DEF EnumTurned
  <2> QED
    BY <2>3, <2>4
<1>3. CASE Returned
  BY <1>3 DEF Returned, EnumRead
<1>4. CASE UNCHANGED callVars
  <2>1. /\ phase' = phase /\ call' = call /\ f' = f /\ s' = s /\ doSave' = doSave
        /\ saved' = saved /\ delim' = delim /\ result' = result
    BY <1>4 DEF callVars
  <2>2. EnumSaved' <=> EnumSaved
    BY <2>1 DEF EnumSaved
  <2>3. AmongEnum' <=> AmongEnum
    BY <2>1, <2>2 DEF AmongEnum, AtEnum, BehindEnum
  <2> QED
    BY <2>1, <2>2, <2>3, Zenon DEF EnumRead
<1>5. CASE UNCHANGED vars
  BY <1>4, <1>5 DEF vars, callVars
<1> QED
  BY <1>1, <1>2, <1>3, <1>4, <1>5, Zenon DEF Next

\* What a call has in the end is what it should have.
LEMMA EnumHasEnded == Bounded /\ EnumRead => EnumsAreFilled
<1> SUFFICES ASSUME Bounded, EnumRead, phase = "ended", call.kind = "enum" PROVE EnumsAreFilled
  BY Zenon DEF EnumsAreFilled
<1>1. HasEnum(call)
  BY DEF Bounded, HasEnum
<1>2. PICK cells : result = "TRUE" /\ saved = <<cells>> /\ EnumFilled(cells, call)
  BY Zenon DEF EnumRead, EnumSaved
<1> DEFINE entries == call.entries
           cell == saved[1]
<1>3. Len(saved) = 1 /\ cell = cells
  BY <1>2
<1> HIDE DEF cell
<1>4. /\ Len(cell) = Cardinality(Keepers(entries))
      /\ \A j \in Keepers(entries) : cell[KeptTo(entries, j)] = ShouldHold(call, j)
  <2>1. /\ Len(cell) = Cardinality(Keepers(entries))
        /\ \A j \in Keepers(entries) :
             cell[KeptTo(entries, j)] = EntryCell(entries, call.valueNumerals, call.givenNumerals, j)
    BY <1>2, <1>3, Zenon DEF EnumFilled, AreFilled
  <2>2. ASSUME NEW j \in Keepers(entries)
        PROVE  EntryCell(entries, call.valueNumerals, call.givenNumerals, j) = ShouldHold(call, j)
    BY <1>1, EnumHolds
  <2> QED
    BY <2>1, <2>2, Zenon
<1>5. ASSUME NEW j \in Keepers(entries)
      PROVE  cell[Cardinality({m \in Keepers(entries) : m <= j})] =
               IF call.entries[j] = "-" THEN Untouched
               ELSE IF Cardinality({m \in Readers(entries) : m <= j}) <= Len(call.values)
                    THEN call.values[Cardinality({m \in Readers(entries) : m <= j})]
                    ELSE call.given[Cardinality({m \in Readers(entries) : m <= j})]
  BY <1>4, Zenon DEF ShouldHold, KeptTo, ReadTo, CountTo
<1> QED
  BY <1>2, <1>3, <1>4, <1>5, Zenon DEF EnumsAreFilled, Keepers, Readers, cell

(***************************************************************************)
(* Whatever its entries, in whatever order those that are read, those that *)
(* are read and not saved and those that are left alone come: every entry  *)
(* gets its own value or, when the input is too short, its own default.    *)
(***************************************************************************)
THEOREM EnumsAreFilledUp == Spec => []EnumsAreFilled
<1>1. Init => Bounded /\ EnumRead
  BY EmptyIsASeq DEF Init, Bounded, NeverPastTheDestinations, EnumRead
<1>2. Bounded /\ [Next]_vars => Bounded'
  BY NextKeepsBounded
<1>3. Bounded /\ EnumRead /\ [Next]_vars => EnumRead'
  BY NextKeepsEnum
<1>4. Bounded /\ EnumRead => EnumsAreFilled
  BY EnumHasEnded
<1> QED
  BY <1>1, <1>2, <1>3, <1>4, PTL DEF Spec

(***************************************************************************)
(* Both kinds of groups are filled from the input first and from their     *)
(* defaults for the rest.                                                  *)
(***************************************************************************)
THEOREM GroupsAreFilledUp == Spec => []GroupsAreFilled
<1>1. ArraysAreFilled /\ EnumsAreFilled => GroupsAreFilled
  BY DEF GroupsAreFilled
<1> QED
  BY <1>1, ArraysAreFilledUp, EnumsAreFilledUp, PTL
====================================================================================
