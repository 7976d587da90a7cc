----------------------------- MODULE WhirlpoolCipher -----------------------------
(***************************************************************************)
(* The arithmetic of the Whirlpool plugin (src/plugins/Whirlpool/          *)
(* Whirlpool, main.cpp and 64bit_tables.h): the tables and what one round  *)
(* of processBuffer does with them.                                        *)
(*                                                                         *)
(* An unsigned integer is the set of its bits that are 1, bit 0 the least: *)
(* a u8 is a subset of 0..7 and a u64 one of 0..63.                        *)
(*                                                                         *)
(* The tables are computed here, as the program that wrote 64bit_tables.h  *)
(* computed them.  The entries of that file are not part of the model.     *)
(***************************************************************************)
EXTENDS Integers, Sequences, FiniteSets

R == 10

Byte == SUBSET (0..7)
Word == SUBSET (0..63)

Bits(n) == {i \in 0..7 : (n \div 2^i) % 2 = 1}
Number(b) ==
  LET bit(i) == IF i \in b THEN 2^i ELSE 0
  IN  bit(0) + bit(1) + bit(2) + bit(3) + bit(4) + bit(5) + bit(6) + bit(7)

Shl(b, n) == {i \in 0..7 : i - n \in b}
Shr(b, n) == {i \in 0..7 : i + n \in b}

Xor(a, b) == {n \in 0..63 : (n \in a) # (n \in b)}
XorAll(words) == {n \in 0..63 : Cardinality({k \in DOMAIN words : n \in words[k]}) % 2 = 1}

(* (u8)(w >> 56), (u8)(w >> 48), ...: the byte t of a word from the left *)
ByteOf(w, t) == {i \in 0..7 : 8 * (7 - t) + i \in w}
WordOf(byte(_)) == {n \in 0..63 : n % 8 \in byte(7 - n \div 8)}

(***************************************************************************)
(* The tables.  The 64 bits of C0[x] are eight multiples, in the field of  *)
(* 256 elements, of one byte; those of Ct[x] are the same turned by t      *)
(* bytes.                                                                  *)
(***************************************************************************)
SBox == <<
   24,  35, 198, 232, 135, 184,   1,  79,  54, 166, 210, 245, 121, 111, 145,  82,
   96, 188, 155, 142, 163,  12, 123,  53,  29, 224, 215, 194,  46,  75, 254,  87,
   21, 119,  55, 229, 159, 240,  74, 218,  88, 201,  41,  10, 177, 160, 107, 133,
  189,  93,  16, 244, 203,  62,   5, 103, 228,  39,  65, 139, 167, 125, 149, 216,
  251, 238, 124, 102, 221,  23,  71, 158, 202,  45, 191,   7, 173,  90, 131,  51,
   99,   2, 170, 113, 200,  25,  73, 217, 242, 227,  91, 136, 154,  38,  50, 176,
  233,  15, 213, 128, 190, 205,  52,  72, 255, 122, 144,  95,  32, 104,  26, 174,
  180,  84, 147,  34, 100, 241, 115,  18,  64,   8, 195, 236, 219, 161, 141,  61,
  151,   0, 207,  43, 118, 130, 214,  27, 181, 175, 106,  80,  69, 243,  48, 239,
   63,  85, 162, 234, 101, 186,  47, 192, 222,  28, 253,  77, 146, 117,   6, 138,
  178, 230,  14,  31,  98, 212, 168, 150, 249, 197,  37,  89, 132, 114,  57,  76,
   94, 120,  56, 140, 209, 165, 226,  97, 179,  33, 156,  30,  67, 199, 252,   4,
   81, 153, 109,  13, 250, 223, 126,  36,  59, 171, 206,  17, 143,  78, 183, 235,
   60, 129, 148, 247, 185,  19,  44, 211, 231, 110, 196,   3,  86,  68, 127, 169,
   42, 187, 193,  83, 220,  11, 157, 108,  49, 116, 246,  70, 172, 137,  20, 225,
   22,  58, 105,   9, 112, 182, 208, 237, 204,  66, 152, 164,  40,  92, 248, 134 >>

Coefficient == <<1, 1, 4, 1, 8, 5, 2, 9>>

Double(b) == {i \in 0..7 : (i - 1 \in b) # (7 \in b /\ i \in {0, 2, 3, 4})}
Times(c, b) ==
  CASE c = 1 -> b
    [] c = 2 -> Double(b)
    [] c = 4 -> Double(Double(b))
    [] c = 5 -> XorAll(<<b, Double(Double(b))>>)
    [] c = 8 -> Double(Double(Double(b)))
    [] c = 9 -> XorAll(<<b, Double(Double(Double(b)))>>)

C(t, x) ==
  LET Multiple(j) == Times(Coefficient[1 + ((j - t) % 8)], Bits(SBox[1 + Number(x)]))
  IN  WordOf(Multiple)

rc(r) == LET Next(j) == Bits(SBox[1 + 8 * (r - 1) + j]) IN WordOf(Next)

(***************************************************************************)
(* One round: each of eight words is put together from a byte of every     *)
(* word.                                                                   *)
(***************************************************************************)
\* Mutant: the bytes are taken from the words that follow.
MixedForwards(words, i, last) ==
  LET From(t) == C(t, ByteOf(words[(i + t) % 8], t))
  IN  XorAll(<<From(0), From(1), From(2), From(3), From(4), From(5), From(6), From(7), last>>)

Mixed(words, i, last) ==
  LET From(t) == C(t, ByteOf(words[(i - t) % 8], t))
  IN  XorAll(<<From(0), From(1), From(2), From(3), From(4), From(5), From(6), From(7), last>>)

NextKey(K, r) == [i \in 0..7 |-> Mixed(K, i, IF i = 0 THEN rc(r) ELSE {})]
NextState(state, key) == [i \in 0..7 |-> Mixed(state, i, key[i])]

(***************************************************************************)
(* The definition of the cipher, which the rounds are compared with: on a  *)
(* matrix of bytes, in four steps.  The S-box is built of two boxes of     *)
(* sixteen and the field is that of polynomials modulo x^8+x^4+x^3+x^2+1.  *)
(***************************************************************************)
MiniBox == <<1, 11, 9, 12, 13, 6, 15, 3, 14, 8, 7, 4, 10, 2, 5, 0>>
MiniMix == <<7, 12, 11, 13, 14, 4, 9, 15, 6, 3, 8, 10, 2, 5, 1, 0>>

SubByte(x) ==
  LET E(n) == MiniBox[n + 1]
      Inverse(n) == CHOOSE m \in 0..15 : MiniBox[m + 1] = n
      XorOf(m, n) == Number({i \in 0..3 : (i \in Bits(m)) # (i \in Bits(n))})
      Out(u, l, m) == 16 * E(XorOf(u, m)) + Inverse(XorOf(l, m))
      Mix(u, l) == Out(u, l, MiniMix[XorOf(u, l) + 1])
  IN  Bits(Mix(E(Number(x) \div 16), Inverse(Number(x) % 16)))

(* The remainder of a polynomial, a set of exponents up to 10 *)
Reduced(p) ==
  LET Less(q, n) == IF n \in q THEN {i \in 0..10 : (i \in q) # (i - n + 8 \in {0, 2, 3, 4, 8})} ELSE q
  IN  Less(Less(Less(p, 10), 9), 8)
Product(a, b) == Reduced({n \in 0..10 : Cardinality({i \in a : n - i \in b}) % 2 = 1})

(***************************************************************************)
(* That the tables are those of the definition: of finitely many values,   *)
(* all of which TLC goes through.                                          *)
(***************************************************************************)
ASSUME TablesAssumption ==
  /\ \A x \in Byte : Bits(SBox[1 + Number(x)]) = SubByte(x)
  /\ \A b \in Byte : \A k \in 1..8 : Times(Coefficient[k], b) = Product(Bits(Coefficient[k]), b)
  /\ \A n \in 0..255 : Number(Bits(n)) = n

SubBytes(m) == [i \in 0..7 |-> [j \in 0..7 |-> SubByte(m[i][j])]]
ShiftColumns(m) == [i \in 0..7 |-> [j \in 0..7 |-> m[(i - j) % 8][j]]]
MixRows(m) ==
  [i \in 0..7 |-> [j \in 0..7 |->
     XorAll([t \in 0..7 |-> Product(Bits(Coefficient[1 + ((j - t) % 8)]), m[i][t])])]]
AddRoundKey(m, key) == [i \in 0..7 |-> [j \in 0..7 |-> Xor(m[i][j], key[i][j])]]

RoundConstant(r) ==
  [i \in 0..7 |-> [j \in 0..7 |-> IF i = 0 THEN SubByte(Bits(8 * (r - 1) + j)) ELSE {}]]

Rho(m, key) == AddRoundKey(MixRows(ShiftColumns(SubBytes(m))), key)

Matrix(words) == [i \in 0..7 |-> [j \in 0..7 |-> ByteOf(words[i], j)]]
==================================================================================
