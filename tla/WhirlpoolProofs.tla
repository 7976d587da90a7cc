----------------------------- MODULE WhirlpoolProofs -----------------------------
(***************************************************************************)
(* For strings of every length, chunks of every size and whatever the      *)
(* stack held: what is hashed is the string, the blocks that are processed *)
(* are the data and its padding, and each round is one of the cipher, as   *)
(* far as the tables are its tables, which TLC has gone through.           *)
(***************************************************************************)
EXTENDS Whirlpool, FoldProofs, FiniteSetTheorems, TLAPS

(***************************************************************************)
(* What a step leaves to come: where it is, or where its block returns to. *)
(***************************************************************************)
Headed(places) == pc \in places \/ (pc = "rounds" /\ after \in places)

Typed ==
  /\ pc \in {"idle", "fetch", "add", "rounds", "finalize", "length", "digest"}
  /\ pc = "rounds" => after \in {"fetch", "add", "finalize", "length", "digest"}
  /\ buffer \in [0..63 -> Byte] /\ bufferPos \in 0..63 /\ bufferBits \in Nat
  /\ given \in Seq(Byte) /\ blocks \in Seq([0..63 -> Byte])
  /\ amx_cstr \in Seq(1..255)
  /\ \E n \in Nat : sourceBits = 8 * n

(* The consequent of BufferHoldsTheRest *)
Held ==
  /\ bufferBits < 512 /\ bufferBits = 8 * bufferPos
  /\ Len(given) = 64 * Len(blocks) + bufferPos
  /\ \A p \in 1..64 * Len(blocks) : Processed(p) = given[p]
  /\ \A k \in 0..bufferPos - 1 : buffer[k] = given[64 * Len(blocks) + k + 1]
  /\ buffer[bufferPos] = {}

(* Of the data, the 1 and the zeros: byte p *)
Padded(p) == CASE p <= Len(given) -> given[p]
               [] p = Len(given) + 1 -> {7}
               [] OTHER -> {}

(* When the length is to be appended: there is room for it, and no more    *)
(* zeros than had to be                                                    *)
Ended ==
  /\ bufferPos <= 32
  /\ Len(given) + 1 <= 64 * Len(blocks) + bufferPos
  /\ 64 * Len(blocks) + bufferPos < Len(given) + 33
  /\ \A p \in 1..64 * Len(blocks) : Processed(p) = Padded(p)
  /\ \A k \in 0..bufferPos - 1 : buffer[k] = Padded(64 * Len(blocks) + k + 1)

(* The consequent of PaddingIsExact *)
Exact ==
  LET n == Len(given)
      total == 64 * Len(blocks)
  IN  /\ n + 33 <= total /\ total < n + 33 + 64
      /\ \A p \in 1..total :
           Processed(p) = CASE p <= n -> given[p]
                            [] p = n + 1 -> {7}
                            [] n + 1 < p /\ p <= total - 32 -> {}
                            [] OTHER -> Bits(bitLength[p - (total - 32) - 1])

(* An addition of no bits at all has nothing to put into the buffer: that  *)
(* of the empty string, whose "0 < sourceBits" (main.cpp:353) is not so    *)
NothingIsEmpty == Headed({"add"}) /\ sourceBits = 0 => source[sourcePos] = {}

Inv ==
  /\ Typed /\ NothingIsEmpty
  /\ Headed({"fetch", "add", "finalize"}) => Held
  /\ Headed({"length"}) => Ended
  /\ Headed({"digest"}) => Exact

(***************************************************************************)
(* Blocks and the places in them.                                          *)
(***************************************************************************)
LEMMA InBlocks ==
  ASSUME NEW n \in Nat, NEW p \in 1..64 * n
  PROVE  1 + ((p - 1) \div 64) \in 1..n /\ (p - 1) % 64 \in 0..63
OBVIOUS

LEMMA InLastBlock ==
  ASSUME NEW n \in Nat, NEW p \in 64 * n + 1..64 * n + 64
  PROVE  1 + ((p - 1) \div 64) = n + 1 /\ (p - 1) % 64 = p - 1 - 64 * n
OBVIOUS

LEMMA PlaceInLastBlock ==
  ASSUME NEW n \in Nat, NEW p \in 64 * n + 1..64 * n + 64
  PROVE  p - 1 - 64 * n \in 0..63 /\ p = 64 * n + (p - 1 - 64 * n) + 1
OBVIOUS

LEMMA OneBlockMore ==
  ASSUME NEW n \in Nat, NEW p \in 1..64 * (n + 1)
  PROVE  p \in 1..64 * n \/ p \in 64 * n + 1..64 * n + 64
OBVIOUS

LEMMA AppendFacts ==
  ASSUME NEW S, NEW q \in Seq(S), NEW v \in S
  PROVE  /\ Append(q, v) \in Seq(S) /\ Len(Append(q, v)) = Len(q) + 1
         /\ \A i \in 1..Len(q) : Append(q, v)[i] = q[i]
         /\ Append(q, v)[Len(q) + 1] = v
OBVIOUS

LEMMA ElementOfSeq ==
  ASSUME NEW S, NEW q \in Seq(S), NEW i \in 1..Len(q)
  PROVE  q[i] \in S
OBVIOUS

\* A block more: the bytes before it stay, and its own follow them.
LEMMA BlockAdded ==
  ASSUME Typed, NEW bytes \in [0..63 -> Byte], blocks' = Append(blocks, bytes)
  PROVE  /\ blocks' \in Seq([0..63 -> Byte]) /\ Len(blocks') = Len(blocks) + 1
         /\ \A p \in 1..64 * Len(blocks) : Processed(p)' = Processed(p)
         /\ \A p \in 64 * Len(blocks) + 1..64 * Len(blocks) + 64 :
              Processed(p)' = bytes[p - 1 - 64 * Len(blocks)]
<1>1. blocks \in Seq([0..63 -> Byte]) /\ Len(blocks) \in Nat
  BY DEF Typed
<1>2. /\ blocks' \in Seq([0..63 -> Byte]) /\ Len(blocks') = Len(blocks) + 1
      /\ \A i \in 1..Len(blocks) : blocks'[i] = blocks[i]
      /\ blocks'[Len(blocks) + 1] = bytes
  BY <1>1, AppendFacts
<1>3. ASSUME NEW p \in 1..64 * Len(blocks) PROVE Processed(p)' = Processed(p)
  BY <1>1, <1>2, <1>3, InBlocks DEF Processed
<1>4. ASSUME NEW p \in 64 * Len(blocks) + 1..64 * Len(blocks) + 64
      PROVE  Processed(p)' = bytes[p - 1 - 64 * Len(blocks)]
  BY <1>1, <1>2, <1>4, InLastBlock DEF Processed
<1> QED
  BY <1>2, <1>3, <1>4

(***************************************************************************)
(* Shifts.                                                                 *)
(***************************************************************************)
LEMMA Shifts ==
  ASSUME NEW b
  PROVE  /\ \A n : Shl(b, n) \in Byte /\ Shr(b, n) \in Byte
         /\ b \in Byte => Shr(b, 0) = b /\ Shl(b, 8) = {}
BY DEF Shl, Shr, Byte

LEMMA ByteUnion == ASSUME NEW a \in Byte, NEW b \in Byte PROVE a \cup b \in Byte
BY DEF Byte

LEMMA Put ==
  ASSUME NEW bytes \in [0..63 -> Byte], NEW i \in 0..63, NEW b \in Byte
  PROVE  /\ [bytes EXCEPT ![i] = b] \in [0..63 -> Byte]
         /\ [bytes EXCEPT ![i] = b][i] = b
         /\ \A k \in 0..63 \ {i} : [bytes EXCEPT ![i] = b][k] = bytes[k]
OBVIOUS

LEMMA WholeBytes == \A n \in Nat : (8 * n) % 8 = 0
OBVIOUS

\* What is assumed of the constants, apart from the size of the chunks.
LEMMA StringsAreText == \A m \in Strings : m \in Seq(1..255)
BY WhirlpoolAssumption

LEMMA StackHoldsBytes == Stack \subseteq [0..63 -> Byte]
BY WhirlpoolAssumption

LEMMA ChunkIsPositive == Chunk \in Nat \ {0}
BY WhirlpoolAssumption

LEMMA EmptyByte == {} \in Byte
BY DEF Byte

LEMMA OneByte == {7} \in Byte
BY DEF Byte

LEMMA BitsAreAByte == \A n : Bits(n) \in Byte
BY DEF Bits, Byte

(***************************************************************************)
(* A byte goes to the buffer, which is a whole number of bytes.            *)
(***************************************************************************)
LEMMA FillHolds ==
  ASSUME Typed, Held, NEW b \in Byte, NEW back, given' = Append(given, b),
         Fill(buffer, bufferPos, bufferBits, b, 0, back)
  PROVE  /\ Held'
         /\ buffer' \in [0..63 -> Byte] /\ bufferPos' \in 0..63 /\ bufferBits' \in Nat
         /\ given' \in Seq(Byte) /\ blocks' \in Seq([0..63 -> Byte])
         /\ pc' = back \/ (pc' = "rounds" /\ after' = back)
<1>1. /\ bufferPos \in 0..63 /\ bufferBits = 8 * bufferPos
      /\ Len(given) \in Nat /\ Len(blocks) \in Nat /\ Len(given) = 64 * Len(blocks) + bufferPos
  BY DEF Typed, Held
<1>a. bufferRem = 0
  BY <1>1, WholeBytes DEF bufferRem
<1>b. buffer \in [0..63 -> Byte] /\ buffer[bufferPos] = {} /\ blocks \in Seq([0..63 -> Byte])
  BY DEF Typed, Held
<1>2. Shr(b, bufferRem) = b /\ Shl(b, 8 - bufferRem) = {}
  <2>1. 8 - bufferRem = 8
    BY <1>a
  <2> QED
    BY <1>a, <2>1, Shifts
<1>3. PICK filled : filled = [buffer EXCEPT ![bufferPos] = b]
  OBVIOUS
<1>4. [buffer EXCEPT ![bufferPos] = @ \cup Shr(b, bufferRem)] = filled
  BY <1>b, <1>2, <1>3
<1>5. /\ filled \in [0..63 -> Byte] /\ filled[bufferPos] = b
      /\ \A k \in 0..bufferPos - 1 : filled[k] = buffer[k]
  <2>1. \A k \in 0..bufferPos - 1 : k \in 0..63 \ {bufferPos}
    BY <1>1
  <2> QED
    BY <1>1, <1>b, <1>3, <2>1, Put, ZenonT(60)
<1>6. /\ given' \in Seq(Byte) /\ Len(given') = Len(given) + 1 /\ given'[Len(given) + 1] = b
      /\ \A p \in 1..Len(given) : given'[p] = given[p]
  BY AppendFacts DEF Typed
<1>7. \A k \in 0..bufferPos : filled[k] = given'[64 * Len(blocks) + k + 1]
  <2> SUFFICES ASSUME NEW k \in 0..bufferPos PROVE filled[k] = given'[64 * Len(blocks) + k + 1]
    OBVIOUS
  <2>1. CASE k = bufferPos
    BY <1>1, <1>5, <1>6, <2>1
  <2>2. CASE k # bufferPos
    <3>1. k \in 0..bufferPos - 1 /\ 64 * Len(blocks) + k + 1 \in 1..Len(given)
      BY <1>1, <2>2
    <3>2. buffer[k] = given[64 * Len(blocks) + k + 1]
      BY <3>1 DEF Held
    <3> QED
      BY <1>5, <1>6, <3>1, <3>2
  <2> QED
    BY <2>1, <2>2
<1>8. \A p \in 1..64 * Len(blocks) : Processed(p) = given'[p]
  <2>1. \A p \in 1..64 * Len(blocks) : p \in 1..Len(given)
    BY <1>1
  <2> QED
    BY <1>6, <2>1 DEF Held
<1>9. CASE bufferPos = 63
  <2>8. bufferBits + 8 - bufferRem = 512
    BY <1>1, <1>a, <1>9
  <2>1. /\ processBuffer(filled, back)
        /\ buffer' = [filled EXCEPT ![0] = {}] /\ bufferPos' = 0 /\ bufferBits' = 0
    BY <1>2, <1>4, <2>8 DEF Fill
  <2>2. blocks' = Append(blocks, filled) /\ pc' = "rounds" /\ after' = back
    BY <2>1 DEF processBuffer
  <2>3. /\ blocks' \in Seq([0..63 -> Byte]) /\ Len(blocks') = Len(blocks) + 1
        /\ \A p \in 1..64 * Len(blocks) : Processed(p)' = Processed(p)
        /\ \A p \in 64 * Len(blocks) + 1..64 * Len(blocks) + 64 :
             Processed(p)' = filled[p - 1 - 64 * Len(blocks)]
    BY <1>5, <2>2, BlockAdded
  <2>4. ASSUME NEW p \in 1..64 * Len(blocks') PROVE Processed(p)' = given'[p]
    <3>1. CASE p \in 1..64 * Len(blocks)
      BY <1>8, <2>3, <3>1
    <3>2. CASE p \in 64 * Len(blocks) + 1..64 * Len(blocks) + 64
      <4>1. PICK k \in 0..bufferPos : k = p - 1 - 64 * Len(blocks) /\ p = 64 * Len(blocks) + k + 1
        BY <1>1, <1>9, <3>2, PlaceInLastBlock, ZenonT(60)
      <4> QED
        BY <1>7, <2>3, <3>2, <4>1
    <3> QED
      BY <1>1, <2>3, <3>1, <3>2, OneBlockMore
  <2>5. buffer' \in [0..63 -> Byte] /\ buffer'[0] = {}
    <3>1. 0 \in 0..63
      OBVIOUS
    <3>2. [filled EXCEPT ![0] = {}] \in [0..63 -> Byte] /\ [filled EXCEPT ![0] = {}][0] = {}
      BY <1>5, <3>1, Put, EmptyByte
    <3> QED
      BY <2>1, <3>2
  <2>6. Len(given') = 64 * Len(blocks') + bufferPos' /\ bufferPos' \in 0..63
    BY <1>1, <1>6, <1>9, <2>1, <2>3
  <2>7. Held'
    <3>1. 0..bufferPos' - 1 = {}
      BY <2>1
    <3>2. bufferBits' < 512 /\ bufferBits' = 8 * bufferPos' /\ buffer'[bufferPos'] = {}
      BY <2>1, <2>5
    <3> QED
      BY <2>4, <2>6, <3>1, <3>2 DEF Held
  <2> QED
    BY <1>6, <2>1, <2>2, <2>3, <2>5, <2>6, <2>7
<1>10. CASE bufferPos # 63
  <2>1. /\ pc' = back /\ blocks' = blocks
        /\ buffer' = [filled EXCEPT ![bufferPos + 1] = {}]
        /\ bufferPos' = bufferPos + 1 /\ bufferBits' = bufferBits + 8
    <3>1. bufferBits + 8 - bufferRem # 512 /\ bufferBits + 8 - bufferRem + 0 = bufferBits + 8
      BY <1>1, <1>a, <1>10
    <3> QED
      BY <1>2, <1>4, <3>1 DEF Fill
  <2>2. bufferPos' \in 0..63 /\ bufferBits' = 8 * bufferPos' /\ bufferBits' < 512 /\ bufferBits' \in Nat
    BY <1>1, <1>10, <2>1
  <2>3. /\ buffer' \in [0..63 -> Byte] /\ buffer'[bufferPos'] = {}
        /\ \A k \in 0..63 \ {bufferPos'} : buffer'[k] = filled[k]
    BY <1>5, <2>1, <2>2, Put, EmptyByte, ZenonT(60)
  <2>4. \A p \in 1..64 * Len(blocks') : Processed(p)' = given'[p]
    BY <1>8, <2>1 DEF Processed
  <2>5. \A k \in 0..bufferPos' - 1 : buffer'[k] = given'[64 * Len(blocks') + k + 1]
    <3>1. \A k \in 0..bufferPos' - 1 : k \in 0..bufferPos /\ k \in 0..63 \ {bufferPos'}
      BY <1>1, <2>1, <2>2
    <3> QED
      BY <1>7, <2>1, <2>3, <3>1
  <2>6. Len(given') = 64 * Len(blocks') + bufferPos'
    <3>1. Len(blocks') = Len(blocks)
      BY <2>1
    <3> QED
      BY <1>1, <1>6, <2>1, <3>1
  <2>7. Held'
    BY <2>2, <2>3, <2>4, <2>5, <2>6 DEF Held
  <2> QED
    BY <1>b, <1>6, <2>1, <2>2, <2>3, <2>7
<1> QED
  BY <1>9, <1>10

(***************************************************************************)
(* The 1 goes to the byte that is clear; the zeros up to the end of the    *)
(* block come only where the length has no room in it.                     *)
(***************************************************************************)
LEMMA EndMessageEnds ==
  ASSUME Typed, Held, EndMessage
  PROVE  /\ Ended'
         /\ buffer' \in [0..63 -> Byte] /\ bufferPos' \in 0..63 /\ blocks' \in Seq([0..63 -> Byte])
         /\ pc' = "length" \/ (pc' = "rounds" /\ after' = "length")
<1>1. /\ bufferPos \in 0..63 /\ bufferBits = 8 * bufferPos
      /\ Len(given) \in Nat /\ Len(blocks) \in Nat /\ Len(given) = 64 * Len(blocks) + bufferPos
  BY DEF Typed, Held
<1>2. bufferRem = 0
  BY <1>1, WholeBytes DEF bufferRem
<1>3. buffer \in [0..63 -> Byte] /\ buffer[bufferPos] = {} /\ {7} \in Byte
  BY OneByte DEF Typed, Held
<1>4. PICK ended : ended = [buffer EXCEPT ![bufferPos] = {7}]
  OBVIOUS
<1>5. [buffer EXCEPT ![bufferPos] = @ \cup Shr({7}, bufferRem)] = ended
  <2>1. Shr({7}, bufferRem) = {7}
    BY <1>2, <1>3, Shifts
  <2> QED
    BY <1>3, <1>4, <2>1
<1>6. ended \in [0..63 -> Byte] /\ ended[bufferPos] = {7} /\ \A k \in 0..63 \ {bufferPos} : ended[k] = buffer[k]
  BY <1>1, <1>3, <1>4, Put, ZenonT(60)
<1>7. PICK zeroed : zeroed = [k \in 0..63 |-> IF k <= bufferPos THEN ended[k] ELSE {}]
  OBVIOUS
<1>8. zeroed \in [0..63 -> Byte]
  BY <1>6, <1>7, EmptyByte
<1>9. ASSUME NEW k \in 0..63
      PROVE  /\ k <= bufferPos => ended[k] = Padded(64 * Len(blocks) + k + 1)
             /\ zeroed[k] = Padded(64 * Len(blocks) + k + 1)
  <2>1. CASE k < bufferPos
    <3>1. k \in 0..bufferPos - 1 /\ k \in 0..63 \ {bufferPos} /\ k <= bufferPos /\ 64 * Len(blocks) + k + 1 <= Len(given)
      BY <1>1, <2>1
    <3>2. ended[k] = given[64 * Len(blocks) + k + 1]
      BY <1>6, <3>1 DEF Held
    <3> QED
      BY <1>7, <3>1, <3>2 DEF Padded
  <2>2. CASE k = bufferPos
    <3>1. 64 * Len(blocks) + k + 1 = Len(given) + 1 /\ ~(Len(given) + 1 <= Len(given)) /\ k <= bufferPos
      BY <1>1, <2>2
    <3> QED
      BY <1>6, <1>7, <2>2, <3>1 DEF Padded
  <2>3. CASE k > bufferPos
    <3>1. /\ 64 * Len(blocks) + k + 1 # Len(given) + 1 /\ ~(64 * Len(blocks) + k + 1 <= Len(given))
          /\ ~(k <= bufferPos)
      BY <1>1, <2>3
    <3> QED
      BY <1>7, <3>1 DEF Padded
  <2>4. k < bufferPos \/ k = bufferPos \/ k > bufferPos
    BY <1>1
  <2> QED
    BY <2>1, <2>2, <2>3, <2>4
<1>10. ASSUME NEW p \in 1..64 * Len(blocks) PROVE Processed(p) = Padded(p)
  <2>1. p <= Len(given)
    BY <1>1
  <2> QED
    BY <2>1 DEF Held, Padded
<1>11. given' = given /\ \A p : Padded(p)' = Padded(p)
  BY DEF EndMessage, Padded
<1>12. CASE bufferPos + 1 > 32
  <2>1. processBuffer(zeroed, "length") /\ buffer' = zeroed /\ bufferPos' = 0
    BY <1>5, <1>7, <1>12 DEF EndMessage
  <2>2. blocks' = Append(blocks, zeroed) /\ pc' = "rounds" /\ after' = "length"
    BY <2>1 DEF processBuffer
  <2>3. /\ blocks' \in Seq([0..63 -> Byte]) /\ Len(blocks') = Len(blocks) + 1
        /\ \A p \in 1..64 * Len(blocks) : Processed(p)' = Processed(p)
        /\ \A p \in 64 * Len(blocks) + 1..64 * Len(blocks) + 64 :
             Processed(p)' = zeroed[p - 1 - 64 * Len(blocks)]
    BY <1>8, <2>2, BlockAdded
  <2>4. ASSUME NEW p \in 1..64 * Len(blocks') PROVE Processed(p)' = Padded(p)
    <3>1. CASE p \in 1..64 * Len(blocks)
      BY <1>10, <2>3, <3>1
    <3>2. CASE p \in 64 * Len(blocks) + 1..64 * Len(blocks) + 64
      <4>1. PICK k \in 0..63 : k = p - 1 - 64 * Len(blocks) /\ p = 64 * Len(blocks) + k + 1
        BY <1>1, <3>2, PlaceInLastBlock, ZenonT(60)
      <4> QED
        BY <1>9, <2>3, <3>2, <4>1
    <3> QED
      BY <1>1, <2>3, <3>1, <3>2, OneBlockMore
  <2>5. /\ bufferPos' <= 32 /\ bufferPos' \in 0..63 /\ 0..bufferPos' - 1 = {}
        /\ Len(given') + 1 <= 64 * Len(blocks') + bufferPos'
        /\ 64 * Len(blocks') + bufferPos' < Len(given') + 33
    <3>1. Len(given') = Len(given)
      BY <1>11
    <3>2. bufferPos' <= 32 /\ bufferPos' \in 0..63 /\ 0..bufferPos' - 1 = {}
      BY <2>1
    <3>3. 64 * Len(blocks') + bufferPos' = 64 * Len(blocks) + 64
      BY <1>1, <2>1, <2>3
    <3>4. Len(given') + 1 <= 64 * Len(blocks) + 64 /\ 64 * Len(blocks) + 64 < Len(given') + 33
      BY <1>1, <1>12, <3>1
    <3> QED
      BY <3>2, <3>3, <3>4
  <2> QED
    BY <1>8, <1>11, <2>1, <2>2, <2>3, <2>4, <2>5 DEF Ended
<1>13. CASE ~(bufferPos + 1 > 32)
  <2>1. pc' = "length" /\ buffer' = ended /\ bufferPos' = bufferPos + 1 /\ blocks' = blocks
    BY <1>5, <1>13 DEF EndMessage
  <2>2. Len(blocks') = Len(blocks) /\ \A p : Processed(p)' = Processed(p)
    BY <2>1 DEF Processed
  <2>3. ASSUME NEW k \in 0..bufferPos' - 1 PROVE buffer'[k] = Padded(64 * Len(blocks') + k + 1)
    <3>1. k \in 0..63 /\ k <= bufferPos
      BY <1>1, <2>1
    <3> QED
      BY <1>9, <2>1, <3>1
  <2>4. /\ bufferPos' <= 32 /\ bufferPos' \in 0..63
        /\ Len(given') + 1 <= 64 * Len(blocks') + bufferPos'
        /\ 64 * Len(blocks') + bufferPos' < Len(given') + 33
    BY <1>1, <1>11, <1>13, <2>1, <2>2
  <2>5. Ended'
    BY <1>10, <1>11, <2>2, <2>3, <2>4 DEF Ended
  <2> QED
    BY <1>6, <2>1, <2>4, <2>5 DEF Typed
<1> QED
  BY <1>12, <1>13

(***************************************************************************)
(* The length takes the last half of the last block.                       *)
(***************************************************************************)
LEMMA AppendLengthIsExact ==
  ASSUME Typed, Ended, AppendLength
  PROVE  /\ Exact'
         /\ buffer' \in [0..63 -> Byte] /\ bufferPos' \in 0..63 /\ blocks' \in Seq([0..63 -> Byte])
         /\ pc' = "rounds" /\ after' = "digest"
<1>1. bufferPos \in 0..32
  <2>1. bufferPos \in 0..63
    BY DEF Typed
  <2>2. bufferPos <= 32
    BY DEF Ended
  <2> QED
    BY <2>1, <2>2
<1>a. Len(given) \in Nat /\ Len(blocks) \in Nat
  <2>1. given \in Seq(Byte) /\ blocks \in Seq([0..63 -> Byte])
    BY DEF Typed
  <2> QED
    BY <2>1
<1>b. PICK n \in Nat, l \in Nat, pos \in 0..32 :
        /\ n = Len(given) /\ l = Len(blocks) /\ pos = bufferPos
        /\ n + 1 <= 64 * l + pos /\ 64 * l + pos < n + 33
  BY <1>1, <1>a DEF Ended
<1>c. buffer \in [0..63 -> Byte]
  BY DEF Typed
<1>2. PICK last : last = [k \in 0..63 |-> IF k < bufferPos THEN buffer[k]
                                          ELSE IF k < 32 THEN {}
                                          ELSE Bits(bitLength[k - 32])]
  OBVIOUS
<1>3. ASSUME NEW k \in 0..63
      PROVE  /\ k < pos => last[k] = buffer[k]
             /\ ~(k < pos) /\ k < 32 => last[k] = {}
             /\ ~(k < 32) => last[k] = Bits(bitLength[k - 32])
  <2>1. last[k] = IF k < pos THEN buffer[k] ELSE IF k < 32 THEN {} ELSE Bits(bitLength[k - 32])
    BY <1>b, <1>2
  <2>2. ~(k < 32) => ~(k < pos)
    BY <1>b
  <2> QED
    BY <2>1, <2>2
<1>4. last \in [0..63 -> Byte]
  <2>1. ASSUME NEW k \in 0..63 PROVE last[k] \in Byte
    <3>1. buffer[k] \in Byte
      BY <1>c
    <3>2. Bits(bitLength[k - 32]) \in Byte
      BY BitsAreAByte
    <3>3. last[k] = buffer[k] \/ last[k] = {} \/ last[k] = Bits(bitLength[k - 32])
      BY <1>3
    <3> QED
      BY <3>1, <3>2, <3>3, EmptyByte
  <2> QED
    BY <1>2, <2>1
<1>5. /\ processBuffer(last, "digest") /\ buffer' = last /\ bufferPos' = 32
      /\ given' = given /\ bitLength' = bitLength
  BY <1>2 DEF AppendLength
<1>6. blocks' = Append(blocks, last) /\ pc' = "rounds" /\ after' = "digest"
  BY <1>5 DEF processBuffer
<1>7. /\ blocks' \in Seq([0..63 -> Byte]) /\ Len(blocks') = l + 1
      /\ \A p \in 1..64 * l : Processed(p)' = Processed(p)
      /\ \A p \in 64 * l + 1..64 * l + 64 : Processed(p)' = last[p - 1 - 64 * l]
  BY <1>4, <1>6, <1>b, BlockAdded
<1>8. PICK total \in Nat : total = 64 * (l + 1)
  OBVIOUS
<1>9. n + 33 <= total /\ total < n + 33 + 64
  BY <1>b, <1>8
<1>10. ASSUME NEW p \in 1..total
       PROVE  Processed(p)' = CASE p <= n -> given[p]
                                [] p = n + 1 -> {7}
                                [] n + 1 < p /\ p <= total - 32 -> {}
                                [] OTHER -> Bits(bitLength[p - (total - 32) - 1])
  <2>1. ASSUME Processed(p)' = Padded(p), p <= 64 * l + pos
        PROVE  Processed(p)' = CASE p <= n -> given[p]
                                 [] p = n + 1 -> {7}
                                 [] n + 1 < p /\ p <= total - 32 -> {}
                                 [] OTHER -> Bits(bitLength[p - (total - 32) - 1])
    <3>1. Processed(p)' = CASE p <= n -> given[p] [] p = n + 1 -> {7} [] OTHER -> {}
      BY <1>b, <2>1 DEF Padded
    <3>2. p <= n \/ (~(p <= n) /\ p = n + 1) \/ (~(p <= n) /\ p # n + 1 /\ n + 1 < p /\ p <= total - 32)
      BY <1>b, <1>8, <2>1
    <3>3. CASE p <= n
      <4>1. p # n + 1 /\ ~(n + 1 < p)
        BY <3>3
      <4> QED
        BY <3>1, <3>3, <4>1
    <3>4. CASE p = n + 1
      <4>1. ~(p <= n) /\ ~(n + 1 < p)
        BY <3>4
      <4> QED
        BY <3>1, <3>4, <4>1
    <3>5. CASE ~(p <= n) /\ p # n + 1 /\ n + 1 < p /\ p <= total - 32
      BY <3>1, <3>5
    <3> QED
      BY <3>2, <3>3, <3>4, <3>5
  <2>2. CASE p \in 1..64 * l
    <3>1. Processed(p)' = Padded(p)
      BY <1>7, <1>b, <2>2 DEF Ended
    <3>2. p <= 64 * l + pos
      BY <2>2
    <3> QED
      BY <2>1, <3>1, <3>2
  <2>3. CASE p \in 64 * l + 1..64 * l + 64
    <3>1. PICK k \in 0..63 : k = p - 1 - 64 * l /\ p = 64 * l + k + 1
      BY <2>3, PlaceInLastBlock
    <3>2. Processed(p)' = last[k]
      BY <1>7, <2>3, <3>1
    <3>3. CASE k < pos
      <4>1. k \in 0..pos - 1 /\ p <= 64 * l + pos
        BY <3>1, <3>3
      <4>2. Processed(p)' = Padded(p)
        BY <1>3, <1>b, <3>1, <3>2, <3>3, <4>1 DEF Ended
      <4> QED
        BY <2>1, <4>1, <4>2
    <3>4. CASE ~(k < pos) /\ k < 32
      <4>1. ~(p <= n) /\ p # n + 1 /\ n + 1 < p /\ p <= total - 32
        BY <1>b, <1>8, <3>1, <3>4
      <4>2. last[k] = {}
        BY <1>3, <3>4
      <4> QED
        BY <3>2, <4>1, <4>2
    <3>5. CASE ~(k < 32)
      <4>1. /\ ~(p <= n) /\ p # n + 1 /\ ~(p <= total - 32)
            /\ p - (total - 32) - 1 = k - 32
        BY <1>b, <1>8, <3>1, <3>5
      <4>2. last[k] = Bits(bitLength[p - (total - 32) - 1])
        BY <1>3, <3>5, <4>1
      <4> QED
        BY <3>2, <4>1, <4>2
    <3> QED
      BY <3>3, <3>4, <3>5
  <2> QED
    BY <1>8, <2>2, <2>3, OneBlockMore
<1>11. Exact'
  <2>1. Len(given') = n /\ 64 * Len(blocks') = total
    BY <1>5, <1>7, <1>8, <1>b
  <2> QED
    BY <1>5, <1>9, <1>10, <2>1 DEF Exact
<1>12. 32 \in 0..63
  OBVIOUS
<1> QED
  BY <1>4, <1>5, <1>6, <1>7, <1>11, <1>12

(***************************************************************************)
(* The other steps.                                                        *)
(***************************************************************************)
LEMMA Stays ==
  ASSUME UNCHANGED <<given, blocks, buffer, bufferBits, bufferPos, bitLength>>
  PROVE  (Held => Held') /\ (Ended => Ended') /\ (Exact => Exact')
<1>1. \A p : Processed(p)' = Processed(p) /\ Padded(p)' = Padded(p)
  BY DEF Processed, Padded
<1>2. Held => Held'
  BY <1>1 DEF Held
<1>3. Ended => Ended'
  BY <1>1 DEF Ended
<1>4. Exact => Exact'
  BY <1>1 DEF Exact
<1> QED
  BY <1>2, <1>3, <1>4

LEMMA EmptyMessage ==
  ASSUME given' = <<>>, blocks' = <<>>
  PROVE  /\ given' \in Seq(Byte) /\ blocks' \in Seq([0..63 -> Byte])
         /\ Len(given') = 0 /\ Len(blocks') = 0
OBVIOUS

LEMMA BytesAdded ==
  ASSUME Inv, AddByte
  PROVE  Inv'
<1>1. Typed /\ Held /\ bufferPos \in 0..63
  BY DEF Inv, Headed, AddByte, Typed
<1>2. PICK n \in Nat : sourceBits = 8 * n
  BY <1>1 DEF Typed
<1>3. bufferRem = 0
  BY <1>1, WholeBytes DEF bufferRem, Held
<1>4. PICK b : /\ b = Shl(source[sourcePos], sourceGap) \cup Shr(source[sourcePos + 1], 8 - sourceGap)
               /\ Fill(buffer, bufferPos, bufferBits, b, bufferRem, "add")
               /\ given' = Append(given, b)
  BY DEF AddByte
<1>5. b \in Byte /\ Fill(buffer, bufferPos, bufferBits, b, 0, "add")
  BY <1>3, <1>4, Shifts, ByteUnion
<1>6. /\ Held'
      /\ buffer' \in [0..63 -> Byte] /\ bufferPos' \in 0..63 /\ bufferBits' \in Nat
      /\ given' \in Seq(Byte) /\ blocks' \in Seq([0..63 -> Byte])
      /\ pc' = "add" \/ (pc' = "rounds" /\ after' = "add")
  BY <1>1, <1>4, <1>5, FillHolds
<1>7. sourceBits' = 8 * (n - 1) /\ n - 1 \in Nat /\ sourceBits' # 0
  BY <1>2 DEF AddByte
<1>8. amx_cstr' \in Seq(1..255)
  BY <1>1 DEF AddByte, text, Typed
<1>9. Typed'
  BY <1>6, <1>7, <1>8 DEF Typed
<1> QED
  BY <1>6, <1>7, <1>9 DEF Inv, NothingIsEmpty, Headed

LEMMA RestAdded ==
  ASSUME Inv, AddRest
  PROVE  Inv'
<1>1. Typed /\ Held /\ bufferPos \in 0..63 /\ NothingIsEmpty /\ pc = "add"
  BY DEF Inv, Headed, AddRest, Typed
<1>2. PICK n \in Nat : sourceBits = 8 * n
  BY <1>1 DEF Typed
<1>3. bufferRem = 0
  BY <1>1, WholeBytes DEF bufferRem, Held
<1>4. sourceBits = 0 \/ sourceBits = 8
  BY <1>2 DEF AddRest
<1>5. amx_cstr' \in Seq(1..255) /\ sourceBits' = 8 * 0
  BY <1>1 DEF AddRest, text, Typed
<1>6. PICK b, back : /\ b = Shl(source[sourcePos], sourceGap) /\ back \in {"fetch", "finalize"}
                     /\ IF bufferRem + sourceBits < 8
                        THEN /\ buffer' = [buffer EXCEPT ![bufferPos] = @ \cup Shr(b, bufferRem)]
                             /\ bufferBits' = bufferBits + sourceBits
                             /\ pc' = back
                             /\ UNCHANGED <<bufferPos, hash, cipher, ghosts>>
                        ELSE /\ Fill(buffer, bufferPos, bufferBits, b, sourceBits - (8 - bufferRem), back)
                             /\ given' = Append(given, b)
  BY DEF AddRest
<1>7. b \in Byte
  BY <1>6, Shifts
<1>8. CASE sourceBits = 0
  <2>1. b = {} /\ Shr(b, bufferRem) = {}
    BY <1>1, <1>3, <1>6, <1>7, <1>8, Shifts DEF NothingIsEmpty, Headed, Shl
  <2>a. bufferRem + sourceBits < 8 /\ bufferBits + sourceBits = bufferBits /\ UNCHANGED bitLength
    BY <1>1, <1>3, <1>8 DEF AddRest, Typed
  <2>2. /\ bufferBits' = bufferBits /\ pc' = back /\ UNCHANGED <<bufferPos, given, blocks, bitLength>>
        /\ buffer' = [buffer EXCEPT ![bufferPos] = @ \cup {}]
    BY <1>6, <2>1, <2>a DEF ghosts
  <2>3. buffer' = buffer
    BY <1>1, <2>2 DEF Typed
  <2>4. Held'
    BY <1>1, <2>2, <2>3, Stays
  <2>5. Typed'
    BY <1>1, <1>5, <1>6, <2>2, <2>3 DEF Typed
  <2> QED
    BY <1>6, <2>2, <2>4, <2>5 DEF Inv, NothingIsEmpty, Headed
<1>9. CASE sourceBits = 8
  <2>1. ~(bufferRem + sourceBits < 8) /\ sourceBits - (8 - bufferRem) = 0
    BY <1>3, <1>9
  <2>2. Fill(buffer, bufferPos, bufferBits, b, 0, back) /\ given' = Append(given, b)
    BY <1>6, <2>1
  <2>3. /\ Held'
        /\ buffer' \in [0..63 -> Byte] /\ bufferPos' \in 0..63 /\ bufferBits' \in Nat
        /\ given' \in Seq(Byte) /\ blocks' \in Seq([0..63 -> Byte])
        /\ pc' = back \/ (pc' = "rounds" /\ after' = back)
    BY <1>1, <1>7, <2>2, FillHolds
  <2>4. Typed'
    BY <1>5, <1>6, <2>3 DEF Typed
  <2> QED
    BY <1>6, <2>3, <2>4 DEF Inv, NothingIsEmpty, Headed
<1> QED
  BY <1>4, <1>8, <1>9

LEMMA Fetched ==
  ASSUME Inv, Fetch
  PROVE  Inv'
<1>1. Typed /\ Held
  BY DEF Inv, Headed, Fetch
<1>a. amx_cstr \in Seq(1..255)
  BY <1>1 DEF Typed
<1>b. Len(amx_cstr) \in Nat /\ Chunk \in Nat \ {0}
  BY <1>a, ChunkIsPositive
<1>2. UNCHANGED <<given, blocks, buffer, bufferBits, bufferPos>> /\ pc' = "add" /\ sourcePos' = 0
  BY DEF Fetch, buffered, ghosts
<1>3. Held'
  <2>1. \A p : Processed(p)' = Processed(p)
    BY <1>2 DEF Processed
  <2> QED
    BY <1>1, <1>2, <2>1 DEF Held
<1>4. /\ amx_cstr' \in Seq(1..255) /\ \E n \in Nat : sourceBits' = 8 * n
      /\ sourceBits' = 0 => source'[sourcePos'] = {}
  <2>1. CASE Len(amx_cstr) > Chunk
    <3>1. amx_cstr' = SubSeq(amx_cstr, Chunk + 1, Len(amx_cstr)) /\ sourceBits' = 8 * Chunk
      BY <2>1 DEF Fetch
    <3>2. SubSeq(amx_cstr, Chunk + 1, Len(amx_cstr)) \in Seq(1..255)
      <4>1. ASSUME NEW i \in Chunk + 1..Len(amx_cstr) PROVE amx_cstr[i] \in 1..255
        <5>1. i \in 1..Len(amx_cstr)
          BY <1>b
        <5> QED
          BY <1>a, <5>1, ElementOfSeq
      <4> QED
        BY <1>a, <1>b, <4>1
    <3>3. Chunk \in Nat /\ sourceBits' # 0
      BY <1>b, <3>1
    <3> QED
      BY <3>1, <3>2, <3>3
  <2>2. CASE ~(Len(amx_cstr) > Chunk)
    <3>1. /\ amx_cstr' = <<>> /\ sourceBits' = 8 * Len(amx_cstr)
          /\ source' = amx_GetString(amx_cstr, Len(amx_cstr) + 1)
      BY <2>2 DEF Fetch
    <3>2. ASSUME sourceBits' = 0 PROVE source'[0] = {}
      <4>1. Len(amx_cstr) = 0
        BY <1>b, <3>1, <3>2
      <4>2. 0 \in 0..(Len(amx_cstr) + 1) - 1 /\ ~(0 < (Len(amx_cstr) + 1) - 1)
        BY <4>1
      <4> QED
        BY <3>1, <4>2 DEF amx_GetString
    <3>3. <<>> \in Seq(1..255)
      OBVIOUS
    <3> QED
      BY <1>b, <1>2, <3>1, <3>2, <3>3
  <2> QED
    BY <2>1, <2>2
<1>5. Typed'
  BY <1>1, <1>2, <1>4 DEF Typed
<1> QED
  BY <1>2, <1>3, <1>4, <1>5 DEF Inv, NothingIsEmpty, Headed

LEMMA Hashing ==
  ASSUME Inv, NEW m \in Strings, WP_Hash(m)
  PROVE  Inv'
<1>1. buffer \in [0..63 -> Byte] /\ \E n \in Nat : sourceBits' = 8 * n
  BY DEF Inv, Typed, WP_Hash, adding
<1>2. /\ given' = <<>> /\ blocks' = <<>> /\ bufferPos' = 0 /\ bufferBits' = 0
      /\ pc' = "fetch" /\ amx_cstr' = m /\ m \in Seq(1..255)
      /\ buffer' = [buffer EXCEPT ![0] = {}]
  BY StringsAreText DEF WP_Hash
<1>3. 0 \in 0..63
  OBVIOUS
<1>4. buffer' \in [0..63 -> Byte] /\ buffer'[0] = {}
  <2>1. [buffer EXCEPT ![0] = {}] \in [0..63 -> Byte] /\ [buffer EXCEPT ![0] = {}][0] = {}
    BY <1>1, <1>3, Put, EmptyByte
  <2> QED
    BY <1>2, <2>1
<1>5. /\ given' \in Seq(Byte) /\ blocks' \in Seq([0..63 -> Byte])
      /\ Len(given') = 0 /\ Len(blocks') = 0
  BY <1>2, EmptyMessage
<1>6. Held'
  <2>1. 1..64 * Len(blocks') = {} /\ 0..bufferPos' - 1 = {}
    BY <1>2, <1>5
  <2>2. bufferBits' < 512 /\ bufferBits' = 8 * bufferPos' /\ Len(given') = 64 * Len(blocks') + bufferPos'
    BY <1>2, <1>5
  <2> QED
    BY <1>2, <1>4, <2>1, <2>2 DEF Held
<1>7. Typed'
  BY <1>1, <1>2, <1>3, <1>4, <1>5 DEF Typed
<1> QED
  BY <1>2, <1>6, <1>7 DEF Inv, NothingIsEmpty, Headed

LEMMA Starts ==
  ASSUME Init
  PROVE  Inv
<1>1. given \in Seq(Byte) /\ blocks \in Seq([0..63 -> Byte]) /\ amx_cstr \in Seq(1..255)
  BY DEF Init
<1>2. buffer \in [0..63 -> Byte] /\ bufferPos \in 0..63 /\ bufferBits \in Nat
  BY StackHoldsBytes DEF Init
<1>3. 0 \in Nat /\ sourceBits = 8 * 0 /\ pc = "idle"
  BY DEF Init
<1> QED
  BY <1>1, <1>2, <1>3 DEF Inv, Typed, NothingIsEmpty, Headed

LEMMA Answered ==
  ASSUME Inv, Return
  PROVE  Inv'
<1>1. given' \in Seq(Byte) /\ blocks' \in Seq([0..63 -> Byte])
  BY EmptyMessage DEF Return
<1>2. buffer' \in [0..63 -> Byte] /\ bufferPos' \in 0..63 /\ bufferBits' \in Nat
  BY StackHoldsBytes DEF Return
<1>3. 0 \in Nat /\ sourceBits' = 8 * 0 /\ pc' = "idle" /\ amx_cstr' \in Seq(1..255)
  BY DEF Return
<1> QED
  BY <1>1, <1>2, <1>3 DEF Inv, Typed, NothingIsEmpty, Headed

LEMMA InvIsKept == Inv /\ [Next]_vars => Inv'
<1> SUFFICES ASSUME Inv, [Next]_vars PROVE Inv'
  OBVIOUS
<1>1. CASE \E m \in Strings : WP_Hash(m)
  BY <1>1, Hashing
<1>2. CASE Fetch
  BY <1>2, Fetched
<1>3. CASE AddByte
  BY <1>3, BytesAdded
<1>4. CASE AddRest
  BY <1>4, RestAdded
<1>5. CASE EndMessage
  <2>1. Typed /\ Held
    BY <1>5 DEF Inv, Headed, EndMessage
  <2>2. /\ Ended'
        /\ buffer' \in [0..63 -> Byte] /\ bufferPos' \in 0..63 /\ blocks' \in Seq([0..63 -> Byte])
        /\ pc' = "length" \/ (pc' = "rounds" /\ after' = "length")
    BY <1>5, <2>1, EndMessageEnds
  <2>3. UNCHANGED <<amx_cstr, sourceBits, bufferBits, given>>
    BY <1>5 DEF EndMessage, text, adding
  <2>4. Typed'
    BY <2>1, <2>2, <2>3 DEF Typed
  <2> QED
    BY <2>2, <2>4 DEF Inv, NothingIsEmpty, Headed
<1>6. CASE AppendLength
  <2>1. Typed /\ Ended
    BY <1>6 DEF Inv, Headed, AppendLength
  <2>2. /\ Exact'
        /\ buffer' \in [0..63 -> Byte] /\ bufferPos' \in 0..63 /\ blocks' \in Seq([0..63 -> Byte])
        /\ pc' = "rounds" /\ after' = "digest"
    BY <1>6, <2>1, AppendLengthIsExact
  <2>3. UNCHANGED <<amx_cstr, sourceBits, bufferBits, given>>
    BY <1>6 DEF AppendLength, text, adding
  <2>4. Typed'
    BY <2>1, <2>2, <2>3 DEF Typed
  <2> QED
    BY <2>2, <2>4 DEF Inv, NothingIsEmpty, Headed
<1>7. CASE Round \/ Compress \/ UNCHANGED vars
  <2>1. /\ UNCHANGED <<given, blocks, buffer, bufferBits, bufferPos, bitLength>>
        /\ UNCHANGED <<amx_cstr, source, sourceBits, sourcePos>>
    BY <1>7 DEF Round, Compress, vars, text, adding, buffered, ghosts
  <2>2. (pc' = pc /\ after' = after) \/ (pc = "rounds" /\ pc' = after)
    BY <1>7 DEF Round, Compress, cipher, vars
  <2>3. (Held => Held') /\ (Ended => Ended') /\ (Exact => Exact')
    BY <2>1, Stays
  <2>4. Typed' /\ NothingIsEmpty'
    BY <2>1, <2>2 DEF Inv, Typed, NothingIsEmpty, Headed
  <2> QED
    BY <2>2, <2>3, <2>4 DEF Inv, Headed, Typed
<1>8. CASE Return
  BY <1>8, Answered
<1> QED
  BY <1>1, <1>2, <1>3, <1>4, <1>5, <1>6, <1>7, <1>8 DEF Next

(***************************************************************************)
(* Whatever the chunks are and whatever the stack held: NESSIEadd loses no *)
(* byte, adds none and leaves the next one clear.                          *)
(***************************************************************************)
THEOREM BufferIsExact == Spec => []BufferHoldsTheRest
<1>1. Inv => BufferHoldsTheRest
  BY DEF Inv, BufferHoldsTheRest, Adding, Headed, Held
<1> QED
  BY <1>1, Starts, InvIsKept, PTL DEF Spec

(***************************************************************************)
(* Every message ends in a 1, as few zeros as will do and the 32 bytes of  *)
(* the length, whatever its own length is.                                 *)
(***************************************************************************)
THEOREM EveryMessageIsPadded == Spec => []PaddingIsExact
<1>1. Inv => PaddingIsExact
  BY DEF Inv, PaddingIsExact, Headed, Exact
<1> QED
  BY <1>1, Starts, InvIsKept, PTL DEF Spec

(***************************************************************************)
(* The tally: what its fold does with one byte of the length.              *)
(***************************************************************************)
Lengths == [0..31 -> 0..255]
NoLength == [k \in 0..31 |-> 0]
Tallies == [length : Lengths, carry : Nat, value : Nat]

Add(a, i) ==
  LET sum == a.carry + a.length[i] + (a.value % 256)
  IN  IF a.value = 0 THEN a
      ELSE [length |-> [a.length EXCEPT ![i] = sum % 256],
            carry |-> sum \div 256, value |-> a.value \div 256]

LEMMA DigitAndCarry ==
  ASSUME NEW c \in Nat, NEW d \in Nat, NEW v \in Nat
  PROVE  /\ (c + d + (v % 256)) % 256 \in 0..255
         /\ (c + d + (v % 256)) \div 256 \in Nat /\ v \div 256 \in Nat
<1>1. v % 256 \in Nat /\ v \div 256 \in Nat
  OBVIOUS
<1>2. \A n \in Nat : n % 256 \in 0..255 /\ n \div 256 \in Nat
  OBVIOUS
<1> QED
  BY <1>1, <1>2

LEMMA AddTyped ==
  ASSUME NEW a \in Tallies, NEW i \in 0..31
  PROVE  Add(a, i) \in Tallies
<1>1. a.length \in Lengths /\ a.carry \in Nat /\ a.value \in Nat
  BY DEF Tallies
<1>2. a.length[i] \in Nat
  <2>1. \A l \in Lengths : l[i] \in 0..255
    BY DEF Lengths
  <2> QED
    BY <1>1, <2>1
<1>6. PICK c \in Nat, d \in Nat, v \in Nat : c = a.carry /\ d = a.length[i] /\ v = a.value
  BY <1>1, <1>2
<1> DEFINE sum == c + d + (v % 256)
<1>3. sum % 256 \in 0..255 /\ sum \div 256 \in Nat /\ v \div 256 \in Nat
  BY DigitAndCarry
<1> HIDE DEF sum
<1>4. [a.length EXCEPT ![i] = sum % 256] \in Lengths
  BY <1>1, <1>3 DEF Lengths
<1>5. Add(a, i) = IF a.value = 0 THEN a
                  ELSE [length |-> [a.length EXCEPT ![i] = sum % 256],
                        carry |-> sum \div 256, value |-> a.value \div 256]
  BY <1>6 DEF Add, sum
<1> QED
  BY <1>1, <1>3, <1>4, <1>5, <1>6 DEF Tallies

\* The tally is what 32 additions come to, from the last byte on.
LEMMA Tallied ==
  ASSUME NEW length \in Lengths, NEW bits \in Nat
  PROVE  \E g \in [0..32 -> Tallies] :
           /\ g[0] = [length |-> length, carry |-> 0, value |-> bits]
           /\ \A k \in 1..32 : g[k] = Add(g[k - 1], 32 - k)
           /\ Tally(length, bits) = g[32].length
<1> DEFINE base == [length |-> length, carry |-> 0, value |-> bits]
           seq == [k \in 1..32 |-> 32 - k]
           indices == 0..31
           op == [p \in Tallies \X (0..31) |-> Add(p[1], p[2])]
           Solves(iter) ==
             iter = [s \in SUBSET (1..32) |->
                       IF s = {} THEN base ELSE Add(iter[s \ {Max(s)}], seq[Max(s)])]
           fold == CHOOSE iter : Solves(iter)
<1>1. Tally(length, bits) = fold[1..32].length
  <2>1. DOMAIN seq = 1..32
    OBVIOUS
  <2> QED
    BY <2>1 DEF Tally, FoldLeft, MapThenFoldSet, Add
<1>2. base \in Tallies /\ \A k \in 1..32 : seq[k] \in indices
  BY DEF Tallies
<1> HIDE DEF base
<1>3. \A a \in Tallies, i \in indices : op[<<a, i>>] = Add(a, i)
  OBVIOUS
<1>4. \A a \in Tallies, i \in indices : op[<<a, i>>] \in Tallies
  BY <1>3, AddTyped
<1>5. 32 \in Nat
  OBVIOUS
<1> HIDE DEF seq, op, indices
<1>6. PICK g \in [SUBSET (1..32) -> Tallies] : Folds(g, base, op, seq, 32)
  BY <1>2, <1>4, <1>5, FoldExists
<1>7. Solves(g)
  <2>1. ASSUME NEW s \in SUBSET (1..32), s # {}
        PROVE  op[<<g[s \ {Max(s)}], seq[Max(s)]>>] = Add(g[s \ {Max(s)}], seq[Max(s)])
    <3>1. Max(s) \in 1..32
      BY <1>5, <2>1, Largest
    <3>2. seq[Max(s)] \in indices /\ g[s \ {Max(s)}] \in Tallies
      BY <1>2, <1>6, <3>1
    <3> QED
      BY <1>3, <3>2
  <2>2. \A s \in SUBSET (1..32) :
          g[s] = IF s = {} THEN base ELSE Add(g[s \ {Max(s)}], seq[Max(s)])
    BY <1>6, <2>1 DEF Folds
  <2> QED
    BY <2>2
<1>8. Solves(fold)
  <2> HIDE DEF Solves
  <2> QED
    BY <1>7
<1> HIDE DEF fold
<1>9. fold[{}] = base
  BY <1>8
<1>10. ASSUME NEW k \in 1..32 PROVE fold[1..k] = Add(fold[1..(k - 1)], seq[k])
  <2>1. 1..k \in SUBSET (1..32) /\ 1..k # {} /\ Max(1..k) = k /\ (1..k) \ {k} = 1..(k - 1)
    BY <1>5, UpTo
  <2> QED
    BY <1>8, <2>1
<1> DEFINE h == [k \in 0..32 |-> fold[1..k]]
<1>11. \A k \in 1..32 : h[k] = Add(h[k - 1], 32 - k)
  <2>1. ASSUME NEW k \in 1..32 PROVE h[k] = Add(h[k - 1], 32 - k)
    <3>1. k \in 0..32 /\ k - 1 \in 0..32 /\ seq[k] = 32 - k
      BY DEF seq
    <3> QED
      BY <1>10, <3>1
  <2> QED
    BY <2>1
<1>12. h[0] = [length |-> length, carry |-> 0, value |-> bits]
  <2>1. 1..0 = {}
    OBVIOUS
  <2> QED
    BY <1>9, <2>1 DEF base
<1>13. Tally(length, bits) = h[32].length
  BY <1>1
<1>15. h = [k \in 0..32 |-> h[k]]
  OBVIOUS
<1> HIDE DEF h
<1>14. \A k \in 0..32 : h[k] \in Tallies
  <2> DEFINE Good == {k \in Nat : k <= 32 => h[k] \in Tallies}
  <2>1. 0 \in Good
    BY <1>2, <1>12 DEF base
  <2>2. ASSUME NEW k \in Good PROVE k + 1 \in Good
    <3> SUFFICES ASSUME k + 1 <= 32 PROVE h[k + 1] \in Tallies
      OBVIOUS
    <3>1. h[k] \in Tallies /\ k + 1 \in 1..32 /\ 32 - (k + 1) \in 0..31 /\ (k + 1) - 1 = k
      OBVIOUS
    <3>2. h[k + 1] = Add(h[k], 32 - (k + 1))
      BY <1>11, <3>1
    <3> QED
      BY <3>1, <3>2, AddTyped
  <2>3. Good \in SUBSET Nat
    OBVIOUS
  <2>4. \A k \in Good : k + 1 \in Good
    BY <2>2
  <2>5. Good = Nat
    <3> HIDE DEF Good
    <3> QED
      BY <2>1, <2>3, <2>4, Induct
  <2> QED
    BY <2>5
<1>16. h \in [0..32 -> Tallies]
  BY <1>14, <1>15
<1> QED
  BY <1>11, <1>12, <1>13, <1>16

\* Every tally is a number of 32 bytes, and that of up to 65535 bits on zeros
\* has their number in its last two.
LEMMA TallyIsALength ==
  ASSUME NEW length \in Lengths, NEW bits \in Nat
  PROVE  Tally(length, bits) \in Lengths
<1>1. PICK g \in [0..32 -> Tallies] :
        /\ g[0] = [length |-> length, carry |-> 0, value |-> bits]
        /\ \A k \in 1..32 : g[k] = Add(g[k - 1], 32 - k)
        /\ Tally(length, bits) = g[32].length
  BY Tallied
<1>2. g[32] \in Tallies
  OBVIOUS
<1> QED
  BY <1>1, <1>2 DEF Tallies

Digit(a, i) ==
  [length |-> [a.length EXCEPT ![i] = a.value % 256], carry |-> 0, value |-> a.value \div 256]

LEMMA AddsADigit ==
  ASSUME NEW a \in Tallies, NEW i \in 0..31, a.carry = 0, a.length[i] = 0
  PROVE  Add(a, i) = Digit(a, i)
<1>1. PICK v \in Nat : v = a.value
  BY DEF Tallies
<1>2. 0 + 0 + (v % 256) = v % 256 /\ (v % 256) % 256 = v % 256 /\ (v % 256) \div 256 = 0
  OBVIOUS
<1>3. a.length \in Lengths
  BY DEF Tallies
<1>4. CASE v = 0
  <2>1. v % 256 = 0 /\ v \div 256 = 0
    BY <1>4
  <2>2. [a.length EXCEPT ![i] = 0] = a.length
    BY <1>3 DEF Lengths
  <2>3. a.value = 0 /\ Add(a, i) = a
    BY <1>1, <1>4 DEF Add
  <2>4. a = [length |-> a.length, carry |-> a.carry, value |-> a.value]
    BY DEF Tallies
  <2> QED
    BY <2>1, <2>2, <2>3, <2>4, <1>1, <1>4 DEF Digit
<1>5. CASE v # 0
  BY <1>1, <1>2, <1>5 DEF Add, Digit
<1> QED
  BY <1>4, <1>5

\* The length is that of bits, in its last two bytes
Shows(length, bits) ==
  /\ length[31] = bits % 256 /\ length[30] = bits \div 256
  /\ \A k \in 0..31 : k \notin {30, 31} => length[k] = 0

LEMMA FirstTally ==
  ASSUME NEW bits \in Nat, bits \div 256 < 256
  PROVE  Shows(Tally(NoLength, bits), bits)
<1>1. NoLength \in Lengths
  BY DEF Lengths, NoLength
<1>2. PICK g \in [0..32 -> Tallies] :
        /\ g[0] = [length |-> NoLength, carry |-> 0, value |-> bits]
        /\ \A k \in 1..32 : g[k] = Add(g[k - 1], 32 - k)
        /\ Tally(NoLength, bits) = g[32].length
  BY <1>1, Tallied
<1> DEFINE one == [NoLength EXCEPT ![31] = bits % 256]
<1>3. g[1].carry = 0 /\ g[1].value = bits \div 256 /\ g[1].length = one
  <2>1. g[0] \in Tallies /\ g[1] = Add(g[0], 31)
    BY <1>2
  <2>2. g[0].carry = 0 /\ g[0].value = bits /\ g[0].length = NoLength /\ NoLength[31] = 0
    BY <1>2 DEF NoLength
  <2>3. 31 \in 0..31
    OBVIOUS
  <2>4. PICK a \in Tallies : a = g[0]
    BY <2>1
  <2>5. Add(a, 31) = Digit(a, 31)
    BY <2>2, <2>3, <2>4, AddsADigit
  <2> QED
    BY <2>1, <2>2, <2>4, <2>5 DEF Digit
<1>4. /\ g[2].value = 0
      /\ g[2].length[31] = bits % 256 /\ g[2].length[30] = bits \div 256
      /\ \A k \in 0..29 : g[2].length[k] = 0
  <2>1. g[1] \in Tallies /\ g[2] = Add(g[1], 30)
    BY <1>2
  <2>2. g[1].length[30] = 0
    BY <1>3 DEF NoLength
  <2>3. g[2] = Digit(g[1], 30)
    <3>1. 30 \in 0..31
      OBVIOUS
    <3> QED
      BY <1>3, <2>1, <2>2, <3>1, AddsADigit
  <2>4. (bits \div 256) \div 256 = 0 /\ (bits \div 256) % 256 = bits \div 256
    OBVIOUS
  <2>5. g[2].value = 0 /\ g[2].length = [one EXCEPT ![30] = bits \div 256]
    <3>1. PICK d : d = bits \div 256 /\ d \div 256 = 0 /\ d % 256 = d
      BY <2>4
    <3>2. g[1].value = d /\ g[1].length = one
      BY <1>3, <3>1
    <3> HIDE DEF one
    <3>3. g[2].value = d \div 256 /\ g[2].length = [one EXCEPT ![30] = d % 256]
      BY <2>3, <3>2 DEF Digit
    <3> QED
      BY <3>1, <3>3
  <2>6. DOMAIN one = 0..31 /\ one[31] = bits % 256 /\ \A k \in 0..29 : one[k] = 0
    BY DEF NoLength
  <2> QED
    BY <2>5, <2>6
<1>5. \A k \in 2..32 : g[k] = g[2]
  <2> DEFINE Same == {k \in Nat : k <= 30 => g[k + 2] = g[2]}
  <2>1. 0 \in Same
    OBVIOUS
  <2>2. ASSUME NEW k \in Same PROVE k + 1 \in Same
    <3> SUFFICES ASSUME k + 1 <= 30 PROVE g[(k + 1) + 2] = g[2]
      OBVIOUS
    <3>1. g[k + 2] = g[2] /\ (k + 1) + 2 \in 1..32 /\ ((k + 1) + 2) - 1 = k + 2
      OBVIOUS
    <3>2. g[(k + 1) + 2] = Add(g[2], 32 - ((k + 1) + 2))
      BY <1>2, <3>1
    <3> QED
      BY <1>4, <3>2 DEF Add
  <2>3. Same \in SUBSET Nat
    OBVIOUS
  <2>4. \A k \in Same : k + 1 \in Same
    BY <2>2
  <2>5. Same = Nat
    <3> HIDE DEF Same
    <3> QED
      BY <2>1, <2>3, <2>4, Induct
  <2>6. ASSUME NEW k \in 2..32 PROVE g[k] = g[2]
    <3>1. k - 2 \in Same /\ k - 2 <= 30 /\ (k - 2) + 2 = k
      <4>1. k - 2 \in Nat
        OBVIOUS
      <4> HIDE DEF Same
      <4> QED
        BY <2>5, <4>1
    <3> QED
      BY <3>1
  <2> QED
    BY <2>6
<1>6. Tally(NoLength, bits) = g[2].length
  BY <1>2, <1>5
<1>7. \A k \in 0..31 : k \notin {30, 31} => k \in 0..29
  OBVIOUS
<1> QED
  BY <1>4, <1>6, <1>7 DEF Shows

(***************************************************************************)
(* The string.  Of the characters that were fetched, done of them, those   *)
(* that are not given yet are in the source; character k of the string is  *)
(* to be delivered as Delivered(k).                                        *)
(***************************************************************************)
Delivered(k) == IF k % Chunk = 0 /\ k < Len(message) THEN {} ELSE Bits(message[k])
done == Len(message) - Len(amx_cstr)

LengthIsExact == Shows(bitLength, 8 * Len(message))

(* n characters of the source are still to be added *)
Waiting(n) ==
  /\ sourceBits = 8 * n /\ Len(given) + n = done
  /\ \A j \in 0..n - 1 : source[sourcePos + j] = Delivered(Len(given) + 1 + j)

(* Before the length of the message is appended *)
Fetching ==
  /\ Len(amx_cstr) <= Len(message)
  /\ \A k \in 1..Len(amx_cstr) : amx_cstr[k] = message[done + k]
  /\ amx_cstr = <<>> \/ done % Chunk = 0
  /\ \A k \in 1..Len(given) : given[k] = Delivered(k)

StringInv ==
  /\ message \in Seq(1..255) /\ sourcePos \in Nat /\ bitLength \in Lengths
  /\ Headed({"fetch", "add", "finalize"}) => Fetching
  /\ Headed({"fetch"}) =>
       /\ Len(given) = done /\ done % Chunk = 0
       /\ Len(message) > Chunk \/ (amx_cstr = message /\ bitLength = NoLength)
  /\ Headed({"add"}) =>
       /\ \E n \in Nat : Waiting(n)
       /\ Len(message) > Chunk \/ (amx_cstr = <<>> /\ LengthIsExact)
  /\ Headed({"finalize"}) =>
       /\ amx_cstr = <<>> /\ Len(given) = Len(message)
       /\ Len(message) > Chunk \/ LengthIsExact

LEMMA DeliveredIsAByte == \A k : Delivered(k) \in Byte
BY BitsAreAByte, EmptyByte DEF Delivered

\* With nothing of the byte before in the buffer, a byte comes as it is.
LEMMA WholeByte ==
  ASSUME NEW a \in Byte, NEW b \in Byte
  PROVE  Shl(a, 0) = a /\ Shl(a, 0) \cup Shr(b, 8) = a
<1>3. \A i \in 0..7 : i - 0 = i
  OBVIOUS
<1>1. Shl(a, 0) = a
  BY <1>3 DEF Shl, Byte
<1>2. Shr(b, 8) = {}
  BY DEF Shr, Byte
<1> QED
  BY <1>1, <1>2

LEMMA NoGap == ASSUME NEW n \in Nat, sourceBits = 8 * n PROVE sourceGap = 0 /\ 8 - sourceGap = 8
<1>1. sourceBits % 8 = 0
  BY WholeBytes
<1> QED
  BY <1>1 DEF sourceGap

\* Steps that only deliver: what was delivered stays so.
LEMMA DeliveredMore ==
  ASSUME Typed, NEW b \in Byte, given' = Append(given, b), UNCHANGED <<message, amx_cstr>>,
         Fetching, b = Delivered(Len(given) + 1)
  PROVE  Fetching' /\ Len(given') = Len(given) + 1
<1>1. given \in Seq(Byte) /\ Len(given) \in Nat
  BY DEF Typed
<1>2. /\ Len(given') = Len(given) + 1 /\ given'[Len(given) + 1] = b
      /\ \A k \in 1..Len(given) : given'[k] = given[k]
  BY <1>1, AppendFacts
<1>3. \A k : Delivered(k)' = Delivered(k)
  BY DEF Delivered
<1>4. ASSUME NEW k \in 1..Len(given') PROVE given'[k] = Delivered(k)
  <2>1. CASE k = Len(given) + 1
    BY <1>2, <2>1
  <2>2. CASE k # Len(given) + 1
    <3>1. k \in 1..Len(given)
      BY <1>1, <1>2, <2>2
    <3> QED
      BY <1>2, <3>1 DEF Fetching
  <2> QED
    BY <2>1, <2>2
<1>5. Len(amx_cstr') <= Len(message') /\ done' = done
  BY DEF Fetching, done
<1>6. \A k \in 1..Len(amx_cstr') : amx_cstr'[k] = message'[done' + k]
  BY <1>5 DEF Fetching
<1>7. amx_cstr' = <<>> \/ done' % Chunk = 0
  BY <1>5 DEF Fetching
<1> QED
  BY <1>2, <1>3, <1>4, <1>5, <1>6, <1>7 DEF Fetching

LEMMA StringKept ==
  ASSUME StringInv, UNCHANGED <<message, amx_cstr, given, bitLength, source, sourceBits, sourcePos>>,
         \A places : Headed(places)' => Headed(places)
  PROVE  StringInv'
<1>1. \A k : Delivered(k)' = Delivered(k)
  BY DEF Delivered
<1>2. done' = done
  BY DEF done
<1>3. Fetching => Fetching'
  BY <1>1, <1>2 DEF Fetching
<1>4. LengthIsExact => LengthIsExact'
  BY DEF LengthIsExact
<1>5. \A n : Waiting(n) => Waiting(n)'
  BY <1>1, <1>2 DEF Waiting
<1>6. /\ Headed({"fetch", "add", "finalize"})' => Headed({"fetch", "add", "finalize"})
      /\ Headed({"fetch"})' => Headed({"fetch"})
      /\ Headed({"add"})' => Headed({"add"})
      /\ Headed({"finalize"})' => Headed({"finalize"})
  OBVIOUS
<1>7. message' = message /\ sourcePos' = sourcePos /\ bitLength' = bitLength /\ amx_cstr' = amx_cstr /\ given' = given
  OBVIOUS
<1> QED
  BY <1>2, <1>3, <1>4, <1>5, <1>6, <1>7 DEF StringInv

LEMMA WholeBuffer == ASSUME Typed, Held PROVE bufferRem = 0
<1>1. bufferPos \in Nat /\ bufferBits = 8 * bufferPos
  BY DEF Typed, Held
<1> QED
  BY <1>1, WholeBytes DEF bufferRem

LEMMA StringByte ==
  ASSUME Inv, StringInv, AddByte
  PROVE  StringInv'
<1>1. Typed /\ Held /\ Fetching /\ pc = "add" /\ bufferRem = 0
  <2>1. Typed /\ Held /\ pc = "add" /\ Fetching
    BY DEF Inv, Headed, AddByte, StringInv
  <2> QED
    BY <2>1, WholeBuffer
<1>2. PICK n \in Nat : Waiting(n)
  BY <1>1 DEF StringInv, Headed
<1>3. n > 1 /\ sourcePos \in Nat /\ Len(given) \in Nat
  <2>1. sourceBits = 8 * n /\ sourceBits > 8
    BY <1>2 DEF Waiting, AddByte
  <2>2. sourcePos \in Nat /\ given \in Seq(Byte)
    BY <1>1 DEF StringInv, Typed
  <2> QED
    BY <2>1, <2>2
<1>4. PICK b : /\ b = Shl(source[sourcePos], sourceGap) \cup Shr(source[sourcePos + 1], 8 - sourceGap)
               /\ Fill(buffer, bufferPos, bufferBits, b, bufferRem, "add")
               /\ given' = Append(given, b)
  BY DEF AddByte
<1>5. b = Delivered(Len(given) + 1)
  <2>1. 0 \in 0..n - 1 /\ 1 \in 0..n - 1
    BY <1>3
  <2>2. source[sourcePos + 0] = Delivered(Len(given) + 1 + 0) /\ source[sourcePos + 1] = Delivered(Len(given) + 1 + 1)
    BY <1>2, <2>1 DEF Waiting
  <2>3. sourcePos + 0 = sourcePos /\ Len(given) + 1 + 0 = Len(given) + 1
    BY <1>3
  <2>4. source[sourcePos] \in Byte /\ source[sourcePos + 1] \in Byte
    BY <2>2, <2>3, DeliveredIsAByte
  <2>5. sourceGap = 0 /\ 8 - sourceGap = 8
    BY <1>2, NoGap DEF Waiting
  <2> QED
    BY <1>4, <2>2, <2>3, <2>4, <2>5, WholeByte
<1>6. b \in Byte /\ Fill(buffer, bufferPos, bufferBits, b, 0, "add")
  BY <1>1, <1>4, <1>5, DeliveredIsAByte
<1>7. pc' = "add" \/ (pc' = "rounds" /\ after' = "add")
  BY <1>1, <1>4, <1>6, FillHolds
<1>8. /\ UNCHANGED <<message, amx_cstr, source, bitLength>>
      /\ sourceBits' = sourceBits - 8 /\ sourcePos' = sourcePos + 1
  BY DEF AddByte, text
<1>9. Fetching' /\ Len(given') = Len(given) + 1
  BY <1>1, <1>4, <1>5, <1>6, <1>8, DeliveredMore
<1>10. Waiting(n - 1)' /\ n - 1 \in Nat
  <2>1. \A k : Delivered(k)' = Delivered(k)
    BY <1>8 DEF Delivered
  <2>2. ASSUME NEW j \in 0..(n - 1) - 1 PROVE (source[sourcePos + j] = Delivered(Len(given) + 1 + j))'
    <3>1. /\ j + 1 \in 0..n - 1 /\ sourcePos' + j = sourcePos + (j + 1)
          /\ Len(given') + 1 + j = Len(given) + 1 + (j + 1)
      BY <1>3, <1>8, <1>9
    <3>2. source[sourcePos + (j + 1)] = Delivered(Len(given) + 1 + (j + 1))
      BY <1>2, <3>1 DEF Waiting
    <3>3. source'[sourcePos' + j] = Delivered(Len(given') + 1 + j)
      BY <1>8, <3>1, <3>2
    <3> QED
      BY <2>1, <3>3
  <2>3. sourceBits' = 8 * (n - 1) /\ n - 1 \in Nat
    BY <1>2, <1>3, <1>8 DEF Waiting
  <2>4. done' = done
    BY <1>8 DEF done
  <2>5. Len(given') + (n - 1) = done'
    BY <1>2, <1>3, <1>9, <2>4 DEF Waiting
  <2> QED
    BY <2>2, <2>3, <2>5 DEF Waiting
<1>11. Len(message) > Chunk \/ (amx_cstr = <<>> /\ LengthIsExact)
  BY <1>1 DEF StringInv, Headed
<1>12. Len(message') > Chunk \/ (amx_cstr' = <<>> /\ LengthIsExact')
  BY <1>8, <1>11 DEF LengthIsExact
<1>13. message' \in Seq(1..255) /\ sourcePos' \in Nat /\ bitLength' \in Lengths
  BY <1>3, <1>8 DEF StringInv
<1>14. /\ Headed({"add"})' /\ ~Headed({"fetch"})' /\ ~Headed({"finalize"})'
  BY <1>7 DEF Headed
<1> QED
  BY <1>9, <1>10, <1>12, <1>13, <1>14 DEF StringInv

\* The string is given, or as much of it as was fetched.
LEMMA AllGiven ==
  ASSUME Typed, StringInv, Fetching, UNCHANGED <<message, amx_cstr, bitLength, sourcePos>>,
         Fetching', Len(given') = done, Len(message) > Chunk \/ (amx_cstr = <<>> /\ LengthIsExact),
         NEW back, back = (IF amx_cstr = <<>> THEN "finalize" ELSE "fetch"),
         pc' = back \/ (pc' = "rounds" /\ after' = back)
  PROVE  StringInv'
<1>1. message' \in Seq(1..255) /\ sourcePos' \in Nat /\ bitLength' \in Lengths
  BY DEF StringInv
<1>2. done' = done
  BY DEF done
<1>3. LengthIsExact => LengthIsExact'
  BY DEF LengthIsExact
<1>4. CASE amx_cstr = <<>>
  <2>1. ~Headed({"add"})' /\ ~Headed({"fetch"})'
    BY <1>4 DEF Headed
  <2>2. Len(given') = Len(message')
    <3>1. Len(amx_cstr) = 0 /\ Len(message) \in Nat
      BY <1>4 DEF StringInv
    <3> QED
      BY <3>1 DEF done
  <2>3. Len(message') > Chunk \/ LengthIsExact'
    BY <1>3
  <2> QED
    BY <1>1, <1>4, <2>1, <2>2, <2>3 DEF StringInv
<1>5. CASE amx_cstr # <<>>
  <2>1. ~Headed({"add"})' /\ ~Headed({"finalize"})'
    BY <1>5 DEF Headed
  <2>2. done' % Chunk = 0
    BY <1>5 DEF Fetching
  <2> QED
    BY <1>1, <1>2, <1>5, <2>1, <2>2 DEF StringInv
<1> QED
  BY <1>4, <1>5

LEMMA StringRest ==
  ASSUME Inv, StringInv, AddRest
  PROVE  StringInv'
<1>1. Typed /\ Held /\ Fetching /\ pc = "add" /\ bufferRem = 0
  <2>1. Typed /\ Held /\ pc = "add" /\ Fetching
    BY DEF Inv, Headed, AddRest, StringInv
  <2> QED
    BY <2>1, WholeBuffer
<1>2. PICK n \in Nat : Waiting(n)
  BY <1>1 DEF StringInv, Headed
<1>3. (n = 0 \/ n = 1) /\ sourcePos \in Nat /\ Len(given) \in Nat
  <2>1. sourceBits = 8 * n /\ sourceBits <= 8
    BY <1>2 DEF Waiting, AddRest
  <2>2. sourcePos \in Nat /\ given \in Seq(Byte)
    BY <1>1 DEF StringInv, Typed
  <2> QED
    BY <2>1, <2>2
<1>4. /\ UNCHANGED <<message, amx_cstr, source, sourcePos, bitLength>>
      /\ Len(message) > Chunk \/ (amx_cstr = <<>> /\ LengthIsExact)
  BY <1>1 DEF AddRest, text, StringInv, Headed
<1>5. PICK b, back :
        /\ b = Shl(source[sourcePos], sourceGap)
        /\ back = (IF amx_cstr = <<>> THEN "finalize" ELSE "fetch")
        /\ IF bufferRem + sourceBits < 8
           THEN pc' = back /\ UNCHANGED given
           ELSE /\ Fill(buffer, bufferPos, bufferBits, b, sourceBits - (8 - bufferRem), back)
                /\ given' = Append(given, b)
  BY DEF AddRest, ghosts
<1>6. CASE n = 0
  <2>1. bufferRem + sourceBits < 8 /\ Len(given) = done
    BY <1>1, <1>2, <1>3, <1>6 DEF Waiting, StringInv, Typed, done
  <2>2. pc' = back /\ UNCHANGED given
    BY <1>5, <2>1
  <2>3. Fetching'
    <3>1. (\A k : Delivered(k)' = Delivered(k)) /\ done' = done
      BY <1>4 DEF Delivered, done
    <3> QED
      BY <1>1, <1>4, <2>2, <3>1 DEF Fetching
  <2>4. Len(given') = done
    BY <2>1, <2>2
  <2> QED
    BY <1>1, <1>4, <1>5, <2>2, <2>3, <2>4, AllGiven
<1>7. CASE n = 1
  <2>1. ~(bufferRem + sourceBits < 8) /\ sourceBits - (8 - bufferRem) = 0
    BY <1>1, <1>2, <1>7 DEF Waiting
  <2>2. Fill(buffer, bufferPos, bufferBits, b, 0, back) /\ given' = Append(given, b)
    BY <1>5, <2>1
  <2>3. b = Delivered(Len(given) + 1)
    <3>1. 0 \in 0..n - 1
      BY <1>7
    <3>2. source[sourcePos + 0] = Delivered(Len(given) + 1 + 0)
      BY <1>2, <3>1 DEF Waiting
    <3>3. sourcePos + 0 = sourcePos /\ Len(given) + 1 + 0 = Len(given) + 1
      BY <1>3
    <3>4. sourceGap = 0
      BY <1>2, NoGap DEF Waiting
    <3> QED
      BY <1>5, <3>2, <3>3, <3>4, WholeByte, DeliveredIsAByte
  <2>4. b \in Byte
    BY <2>3, DeliveredIsAByte
  <2>5. pc' = back \/ (pc' = "rounds" /\ after' = back)
    BY <1>1, <2>2, <2>4, FillHolds
  <2>6. Fetching' /\ Len(given') = Len(given) + 1
    BY <1>1, <1>4, <2>2, <2>3, <2>4, DeliveredMore
  <2>7. Len(given') = done
    BY <1>2, <1>7, <2>6 DEF Waiting
  <2> QED
    BY <1>1, <1>4, <1>5, <2>5, <2>6, <2>7, AllGiven
<1> QED
  BY <1>3, <1>6, <1>7

\* The next multiple of c after one is c further on.
LEMMA NextMultiple ==
  ASSUME NEW c \in Nat \ {0}, NEW n \in Nat, n % c = 0, NEW x \in 1..c
  PROVE  (n + x) % c = 0 <=> x = c
<1>1. PICK q \in Nat : n = c * q
  <2>1. n = c * (n \div c) + (n % c) /\ n \div c \in Nat
    OBVIOUS
  <2>2. n = c * (n \div c)
    BY <2>1
  <2> QED
    BY <2>1, <2>2
<1>2. PICK p \in Nat, y \in 0..c - 1 : n + x = c * p + y /\ y = (n + x) % c
  <2>1. n + x = c * ((n + x) \div c) + ((n + x) % c) /\ (n + x) \div c \in Nat /\ (n + x) % c \in 0..c - 1
    OBVIOUS
  <2> QED
    BY <2>1
<1>3. c * q + x = c * p + y
  BY <1>1, <1>2
<1>4. CASE p = q
  BY <1>2, <1>3, <1>4
<1>5. CASE p < q
  <2>1. PICK d \in Nat : q = p + d + 1
    BY <1>5
  <2>2. c * q = c * p + c * d + c /\ c * d >= 0
    BY <2>1
  <2> QED
    BY <1>3, <2>2
<1>6. CASE p > q
  <2>1. PICK d \in Nat : p = q + d + 1
    BY <1>6
  <2>2. c * p = c * q + c * d + c /\ c * d >= 0
    BY <2>1
  <2>3. x = c * d + c + y
    BY <1>3, <2>2
  <2> QED
    BY <1>2, <2>2, <2>3
<1> QED
  BY <1>4, <1>5, <1>6

(* A fetch of m characters that leaves c *)
Taken(m, c) ==
  /\ UNCHANGED <<message, given>> /\ sourcePos' = 0 /\ sourceBits' = 8 * m
  /\ m <= Len(amx_cstr) /\ m <= Chunk /\ c = Len(amx_cstr) - m
  /\ amx_cstr' \in Seq(1..255) /\ Len(amx_cstr') = c
  /\ \A k \in 1..c : amx_cstr'[k] = amx_cstr[k + m]
  /\ amx_cstr' = <<>> \/ m = Chunk
  /\ \A j \in 0..m - 1 :
       source'[j] = IF j = m - 1 /\ c # 0 THEN {} ELSE Bits(amx_cstr[j + 1])

\* What a fetch leaves: all it has is to be added.
LEMMA SourceFilled ==
  ASSUME NEW m \in Nat, NEW c, Typed, StringInv, Fetching, Len(given) = done, done % Chunk = 0,
         Taken(m, c)
  PROVE  Fetching' /\ Waiting(m)'
<1>t. /\ message' = message /\ given' = given /\ sourcePos' = 0 /\ sourceBits' = 8 * m
      /\ m <= Len(amx_cstr) /\ m <= Chunk /\ c = Len(amx_cstr) - m
      /\ Len(amx_cstr') = c /\ (amx_cstr' = <<>> \/ m = Chunk)
  BY DEF Taken
<1>1. /\ Len(message) \in Nat /\ Len(amx_cstr) \in Nat /\ Len(given) \in Nat /\ c \in Nat
      /\ Len(amx_cstr) <= Len(message) /\ Chunk \in Nat \ {0}
  <2>1. message \in Seq(1..255) /\ amx_cstr \in Seq(1..255) /\ given \in Seq(Byte)
    BY DEF StringInv, Typed
  <2>2. Len(amx_cstr) <= Len(message)
    BY DEF Fetching
  <2> QED
    BY <1>t, <2>1, <2>2, ChunkIsPositive
<1>2. done \in Nat /\ done' = done + m
  BY <1>1, <1>t DEF done
<1>3. \A k : Delivered(k)' = Delivered(k)
  BY <1>t DEF Delivered
<1>4. \A k \in 1..c : amx_cstr'[k] = message'[done' + k]
  <2> SUFFICES ASSUME NEW k \in 1..c PROVE amx_cstr'[k] = message[done + m + k]
    BY <1>2, <1>t
  <2>1. k + m \in 1..Len(amx_cstr) /\ done + (k + m) = done + m + k
    BY <1>1, <1>2, <1>t
  <2>2. amx_cstr[k + m] = message[done + (k + m)]
    BY <2>1 DEF Fetching
  <2>3. amx_cstr'[k] = amx_cstr[k + m]
    BY DEF Taken
  <2> QED
    BY <2>1, <2>2, <2>3
<1>5. amx_cstr' = <<>> \/ done' % Chunk = 0
  <2>1. CASE m = Chunk
    <3>1. PICK n \in Nat, x \in 1..Chunk : n = done /\ n % Chunk = 0 /\ x = m
      BY <1>1, <1>2, <2>1
    <3>2. (n + x) % Chunk = 0
      BY <1>1, <2>1, <3>1, NextMultiple
    <3> QED
      BY <1>2, <3>1, <3>2
  <2> QED
    BY <1>t, <2>1
<1>6. Fetching'
  <2>1. Len(amx_cstr') <= Len(message')
    BY <1>1, <1>t
  <2>2. (\A k \in 1..Len(given) : given[k] = Delivered(k))'
    BY <1>3, <1>t DEF Fetching
  <2> QED
    BY <1>4, <1>5, <1>t, <2>1, <2>2 DEF Fetching
<1>7. ASSUME NEW j \in 0..m - 1 PROVE source'[j] = Delivered(Len(given) + 1 + j)
  <2>1. j + 1 \in 1..Chunk /\ j + 1 \in 1..Len(amx_cstr) /\ done + (j + 1) = Len(given) + 1 + j
    BY <1>1, <1>2, <1>t
  <2>2. amx_cstr[j + 1] = message[done + (j + 1)]
    BY <2>1 DEF Fetching
  <2>3. (done + (j + 1)) % Chunk = 0 <=> j + 1 = Chunk
    <3>1. PICK n \in Nat, x \in 1..Chunk : n = done /\ n % Chunk = 0 /\ x = j + 1
      BY <1>2, <2>1
    <3>2. (n + x) % Chunk = 0 <=> x = Chunk
      <4>1. Chunk \in Nat \ {0} /\ n % Chunk = 0
        BY <3>1, <1>1
      <4> QED
        BY <4>1, NextMultiple
    <3> QED
      BY <3>1, <3>2
  <2>4. /\ j = m - 1 /\ c # 0 => j + 1 = Chunk /\ done + (j + 1) < Len(message)
        /\ j + 1 = Chunk /\ done + (j + 1) < Len(message) => j = m - 1 /\ c # 0
    <3>1. c # 0 => m = Chunk
      BY <1>1, <1>t
    <3>2. done + Len(amx_cstr) = Len(message)
      BY <1>1 DEF done
    <3> QED
      BY <1>1, <1>2, <1>t, <3>1, <3>2
  <2>5. source'[j] = IF j = m - 1 /\ c # 0 THEN {} ELSE Bits(amx_cstr[j + 1])
    BY DEF Taken
  <2> QED
    BY <2>1, <2>2, <2>3, <2>4, <2>5 DEF Delivered
<1>8. Waiting(m)'
  <2>1. Len(given') + m = done' /\ sourceBits' = 8 * m
    BY <1>2, <1>t
  <2>2. ASSUME NEW j \in 0..m - 1 PROVE (source[sourcePos + j] = Delivered(Len(given) + 1 + j))'
    <3>1. sourcePos' + j = j
      BY <1>t
    <3>2. source'[sourcePos' + j] = Delivered(Len(given') + 1 + j)
      BY <1>7, <1>t, <3>1
    <3> QED
      BY <1>3, <3>2
  <2> QED
    BY <2>1, <2>2 DEF Waiting
<1> QED
  BY <1>6, <1>8

LEMMA StringFetched ==
  ASSUME Inv, StringInv, Fetch
  PROVE  StringInv'
<1>1. /\ Typed /\ Fetching /\ Len(given) = done /\ done % Chunk = 0
      /\ Len(message) > Chunk \/ (amx_cstr = message /\ bitLength = NoLength)
  BY DEF Inv, StringInv, Headed, Fetch
<1>2. /\ UNCHANGED <<message, given>> /\ sourcePos' = 0 /\ pc' = "add"
      /\ bitLength' = Tally(bitLength, sourceBits')
  BY DEF Fetch, ghosts
<1>3. /\ message \in Seq(1..255) /\ amx_cstr \in Seq(1..255) /\ bitLength \in Lengths
      /\ Len(amx_cstr) \in Nat /\ Chunk \in Nat \ {0} /\ Len(message) \in Nat
  <2>1. message \in Seq(1..255) /\ amx_cstr \in Seq(1..255) /\ bitLength \in Lengths
    BY <1>1 DEF Typed, StringInv
  <2> QED
    BY <2>1, ChunkIsPositive
<1>4. CASE Len(amx_cstr) > Chunk
  <2>1. /\ source' = amx_GetString(amx_cstr, Chunk)
        /\ amx_cstr' = SubSeq(amx_cstr, Chunk + 1, Len(amx_cstr))
        /\ sourceBits' = 8 * Chunk
    BY <1>4 DEF Fetch
  <2>2. PICK c \in Nat : c = Len(amx_cstr) - Chunk /\ c # 0
    <3>1. Len(amx_cstr) - Chunk \in Nat /\ Len(amx_cstr) - Chunk # 0
      BY <1>3, <1>4
    <3> QED
      BY <3>1
  <2>3. /\ amx_cstr' \in Seq(1..255) /\ Len(amx_cstr') = c
        /\ \A k \in 1..c : amx_cstr'[k] = amx_cstr[k + Chunk]
    <3>1. \A i \in Chunk + 1..Len(amx_cstr) : amx_cstr[i] \in 1..255
      <4>1. \A i \in Chunk + 1..Len(amx_cstr) : i \in 1..Len(amx_cstr)
        BY <1>3
      <4> QED
        BY <1>3, <4>1, ElementOfSeq
    <3> QED
      BY <1>3, <2>1, <2>2, <3>1
  <2>4. \A j \in 0..Chunk - 1 : source'[j] = IF j = Chunk - 1 /\ c # 0 THEN {} ELSE Bits(amx_cstr[j + 1])
    BY <1>3, <2>1, <2>2 DEF amx_GetString
  <2>5. Fetching' /\ Waiting(Chunk)'
    <3>1. Chunk <= Len(amx_cstr) /\ Chunk <= Chunk
      BY <1>3, <1>4
    <3>2. Taken(Chunk, c)
      BY <1>2, <2>1, <2>2, <2>3, <2>4, <3>1 DEF Taken
    <3> QED
      BY <1>1, <1>3, <3>2, SourceFilled
  <2>6. Len(message) > Chunk
    BY <1>1, <1>3, <1>4 DEF Fetching
  <2>7. bitLength' \in Lengths
    <3>1. sourceBits' \in Nat
      BY <1>3, <2>1
    <3> QED
      BY <1>2, <1>3, <3>1, TallyIsALength
  <2> QED
    BY <1>2, <1>3, <2>5, <2>6, <2>7 DEF StringInv, Headed
<1>5. CASE ~(Len(amx_cstr) > Chunk)
  <2>1. /\ source' = amx_GetString(amx_cstr, Len(amx_cstr) + 1)
        /\ amx_cstr' = <<>>
        /\ sourceBits' = 8 * Len(amx_cstr)
    BY <1>5 DEF Fetch
  <2>2. PICK m \in Nat : m = Len(amx_cstr)
    BY <1>3
  <2>3. \A j \in 0..m - 1 : source'[j] = IF j = m - 1 /\ 0 # 0 THEN {} ELSE Bits(amx_cstr[j + 1])
    BY <2>1, <2>2 DEF amx_GetString
  <2>4. amx_cstr' \in Seq(1..255) /\ Len(amx_cstr') = 0 /\ \A k \in 1..0 : amx_cstr'[k] = amx_cstr[k + m]
    BY <2>1
  <2>9. m <= Len(amx_cstr) /\ m <= Chunk /\ 0 = Len(amx_cstr) - m
    BY <1>3, <1>5, <2>2
  <2>5. Fetching' /\ Waiting(m)'
    <3>1. Taken(m, 0)
      BY <1>2, <2>1, <2>2, <2>3, <2>4, <2>9 DEF Taken
    <3> QED
      BY <1>1, <3>1, SourceFilled
  <2>6. bitLength' \in Lengths
    <3>1. sourceBits' \in Nat
      BY <1>3, <2>1
    <3> QED
      BY <1>2, <1>3, <3>1, TallyIsALength
  <2>7. ASSUME ~(Len(message') > Chunk) PROVE LengthIsExact'
    <3>1. amx_cstr = message /\ bitLength = NoLength
      BY <1>1, <1>2, <2>7
    <3>2. sourceBits' = 8 * Len(message) /\ sourceBits' \in Nat /\ sourceBits' \div 256 < 256
      <4>1. Chunk \in 1..4099
        BY WhirlpoolAssumption
      <4>2. Len(message) <= 4099
        BY <1>2, <1>3, <2>7, <4>1
      <4> QED
        BY <1>3, <2>1, <3>1, <4>2
    <3>3. Shows(bitLength', sourceBits')
      <4>1. PICK bits \in Nat : bits = sourceBits' /\ bits \div 256 < 256
        BY <3>2
      <4>2. bitLength' = Tally(NoLength, bits)
        BY <1>2, <3>1, <4>1
      <4> QED
        BY <4>1, <4>2, FirstTally
    <3> QED
      BY <1>2, <3>2, <3>3 DEF LengthIsExact
  <2>8. Headed({"add"})' /\ ~Headed({"fetch"})' /\ ~Headed({"finalize"})'
    BY <1>2 DEF Headed
  <2> QED
    BY <1>2, <1>3, <2>1, <2>5, <2>6, <2>7, <2>8 DEF StringInv
<1> QED
  BY <1>4, <1>5

LEMMA StringHashed ==
  ASSUME StringInv, NEW m \in Strings, WP_Hash(m)
  PROVE  StringInv'
<1>1. /\ message' = m /\ amx_cstr' = m /\ m \in Seq(1..255) /\ given' = <<>>
      /\ bitLength' = NoLength /\ pc' = "fetch" /\ sourcePos' = sourcePos
  BY StringsAreText DEF WP_Hash, adding, NoLength
<1>2. done' = 0 /\ Len(given') = 0
  <2>1. Len(m) \in Nat
    BY <1>1
  <2> QED
    BY <1>1, <2>1 DEF done
<1>3. 0 % Chunk = 0
  BY ChunkIsPositive
<1>4. Fetching'
  <2>1. \A k \in 1..Len(m) : 0 + k = k
    OBVIOUS
  <2>2. \A k \in 1..Len(amx_cstr') : amx_cstr'[k] = message'[done' + k]
    BY <1>1, <1>2, <2>1
  <2>3. Len(amx_cstr') <= Len(message')
    BY <1>1
  <2>4. \A k \in 1..Len(given') : given'[k] = Delivered(k)'
    BY <1>2
  <2> QED
    BY <1>2, <1>3, <2>2, <2>3, <2>4 DEF Fetching
<1>5. NoLength \in Lengths
  BY DEF NoLength, Lengths
<1> QED
  BY <1>1, <1>2, <1>3, <1>4, <1>5 DEF StringInv, Headed

LEMMA StringIsKept == Inv /\ StringInv /\ [Next]_vars => StringInv'
<1> SUFFICES ASSUME Inv, StringInv, [Next]_vars PROVE StringInv'
  OBVIOUS
<1>1. CASE \E m \in Strings : WP_Hash(m)
  BY <1>1, StringHashed
<1>2. CASE Fetch
  BY <1>2, StringFetched
<1>3. CASE AddByte
  BY <1>3, StringByte
<1>4. CASE AddRest
  BY <1>4, StringRest
<1>5. CASE EndMessage \/ AppendLength
  <2>1. /\ UNCHANGED <<message, sourcePos, bitLength>>
        /\ ~Headed({"fetch", "add", "finalize"})' /\ ~Headed({"fetch"})' /\ ~Headed({"add"})' /\ ~Headed({"finalize"})'
    BY <1>5 DEF EndMessage, AppendLength, processBuffer, text, adding, Headed
  <2> QED
    BY <2>1 DEF StringInv
<1>6. CASE Round \/ Compress \/ UNCHANGED vars
  <2>1. UNCHANGED <<message, amx_cstr, given, bitLength, source, sourceBits, sourcePos>>
    BY <1>6 DEF Round, Compress, vars, text, adding, ghosts
  <2>2. (pc' = pc /\ after' = after) \/ (pc = "rounds" /\ pc' = after /\ after # "rounds")
    BY <1>6 DEF Round, Compress, cipher, vars, Inv, Typed
  <2>3. \A places : Headed(places)' => Headed(places)
    BY <2>2 DEF Headed
  <2> QED
    BY <2>1, <2>3, StringKept
<1>7. CASE Return
  <2>1. message' = <<>> /\ sourcePos' = 0 /\ bitLength' = NoLength /\ pc' = "idle"
    BY <1>7 DEF Return, NoLength
  <2>2. <<>> \in Seq(1..255) /\ NoLength \in Lengths
    BY DEF NoLength, Lengths
  <2> QED
    BY <2>1, <2>2 DEF StringInv, Headed
<1> QED
  BY <1>1, <1>2, <1>3, <1>4, <1>5, <1>6, <1>7 DEF Next

LEMMA StringStarts == Init => StringInv
<1>1. <<>> \in Seq(1..255) /\ NoLength \in Lengths
  BY DEF NoLength, Lengths
<1> QED
  BY <1>1 DEF Init, StringInv, Headed, NoLength

(***************************************************************************)
(* Whatever the size of a chunk is: of a string that it can take, what is  *)
(* hashed is the string, and the length that ends it is that of the string *)
(***************************************************************************)
THEOREM ShortStringsHold == Spec => []ShortStringsAreHashed
<1>1. Inv /\ StringInv => ShortStringsAreHashed
  <2> SUFFICES ASSUME Inv, StringInv, pc = "finalize", Len(message) <= Chunk
               PROVE  /\ Hashed
                      /\ \A k \in 0..31 : bitLength[k] = CASE k = 31 -> (8 * Len(message)) % 256
                                                          [] k = 30 -> (8 * Len(message)) \div 256
                                                          [] OTHER -> 0
    BY DEF ShortStringsAreHashed
  <2>1. Len(message) \in Nat /\ Chunk \in Nat /\ Chunk > 0
    BY ChunkIsPositive DEF StringInv
  <2>2. Fetching /\ Len(given) = Len(message) /\ LengthIsExact
    BY <2>1 DEF StringInv, Headed
  <2>3. \A k \in 1..Len(message) : given[k] = Bits(message[k])
    <3> SUFFICES ASSUME NEW k \in 1..Len(message) PROVE given[k] = Bits(message[k])
      OBVIOUS
    <3>1. k % Chunk = 0 => ~(k < Len(message))
      <4> SUFFICES ASSUME k < Len(message) PROVE k % Chunk # 0
        OBVIOUS
      <4>1. k \in 1..Chunk - 1
        BY <2>1
      <4>2. k % Chunk = k
        BY <2>1, <4>1
      <4> QED
        BY <4>1, <4>2
    <3> QED
      BY <2>1, <2>2, <3>1 DEF Fetching, Delivered
  <2>4. given \in Seq(Byte)
    BY DEF Inv, Typed
  <2>5. Hashed
    BY <2>2, <2>3, <2>4 DEF Hashed
  <2> QED
    BY <2>2, <2>5 DEF LengthIsExact, Shows
<1> QED
  BY <1>1, Starts, InvIsKept, StringStarts, StringIsKept, PTL DEF Spec

(***************************************************************************)
(* Types: the words of the cipher have 64 bits, the buffer is never over.  *)
(***************************************************************************)
Words == [0..7 -> Word]

CipherTyped ==
  /\ after \in {"idle", "fetch", "add", "finalize", "length", "digest"}
  /\ hash \in Words /\ block \in Words /\ K \in Words /\ state \in Words
  /\ r \in 1..R + 1
  /\ bufferBits \in 0..511

LEMMA ZeroWords == Zeros(0..7) \in Words
BY DEF Zeros, Words, Word

LEMMA BlockTyped ==
  ASSUME NEW bytes, NEW back, processBuffer(bytes, back), CipherTyped
  PROVE  /\ block' \in Words /\ K' \in Words /\ state' \in Words /\ r' \in 1..R + 1
         /\ after' = back /\ pc' = "rounds"
<1>1. BlockOf(bytes) \in Words
  BY DEF BlockOf, WordOf, Words, Word
<1>2. state' = [i \in 0..7 |-> Xor(block'[i], hash[i])] /\ r' = 1 /\ K' = hash
  BY DEF processBuffer
<1>3. state' \in Words
  BY <1>2 DEF Xor, Words, Word
<1> QED
  BY <1>1, <1>2, <1>3 DEF processBuffer, CipherTyped, R

\* A byte for the buffer starts a block or leaves the cipher alone.
LEMMA FillTyped ==
  ASSUME NEW bytes, NEW pos, NEW bits, NEW b, NEW left, NEW back,
         back \in {"fetch", "add", "finalize"}, CipherTyped, bufferBits' \in 0..511,
         Fill(bytes, pos, bits, b, left, back)
  PROVE  CipherTyped'
<1>1. /\ hash' = hash
      /\ (\E filled : processBuffer(filled, back)) \/ UNCHANGED cipher
  BY DEF Fill
<1>2. CASE \E filled : processBuffer(filled, back)
  BY <1>1, <1>2, BlockTyped DEF CipherTyped
<1>3. CASE UNCHANGED cipher
  BY <1>1, <1>3 DEF CipherTyped, cipher
<1> QED
  BY <1>1, <1>2, <1>3

LEMMA HeldIsBounded ==
  ASSUME Inv', Headed({"fetch", "add", "finalize"})'
  PROVE  bufferBits' \in 0..511
<1>1. Typed' /\ Held'
  BY DEF Inv
<1>2. bufferBits' \in Nat
  BY <1>1 DEF Typed
<1>3. bufferBits' < 512
  BY <1>1 DEF Held
<1> QED
  BY <1>2, <1>3

LEMMA AddTypedCipher ==
  ASSUME Inv, Inv', CipherTyped, AddByte \/ AddRest
  PROVE  CipherTyped'
<1>1. Headed({"fetch", "add", "finalize"})'
  BY DEF AddByte, AddRest, Fill, processBuffer, Headed
<1>2. bufferBits' \in 0..511
  BY <1>1, HeldIsBounded
<1>3. \/ \E bytes, pos, bits, b, left, back : Fill(bytes, pos, bits, b, left, back) /\ back \in {"fetch", "add", "finalize"}
      \/ UNCHANGED <<hash, cipher>>
  <2>1. CASE AddByte
    BY <2>1 DEF AddByte
  <2>2. CASE AddRest
    <3>1. PICK b, back :
            /\ back \in {"fetch", "finalize"}
            /\ \/ Fill(buffer, bufferPos, bufferBits, b, sourceBits - (8 - bufferRem), back)
               \/ UNCHANGED <<hash, cipher>>
      BY <2>2 DEF AddRest
    <3> QED
      BY <3>1
  <2> QED
    BY <2>1, <2>2
<1>4. CASE UNCHANGED <<hash, cipher>>
  BY <1>2, <1>4 DEF CipherTyped, cipher
<1> QED
  BY <1>2, <1>3, <1>4, FillTyped

LEMMA CipherTypedIsKept ==
  ASSUME Inv, Inv', CipherTyped, [Next]_vars
  PROVE  CipherTyped'
<1>1. CASE \E m \in Strings : WP_Hash(m)
  BY <1>1, ZeroWords DEF WP_Hash, CipherTyped, cipher
<1>2. CASE Fetch \/ UNCHANGED vars
  BY <1>2 DEF Fetch, CipherTyped, buffered, cipher, vars
<1>3. CASE AddByte \/ AddRest
  BY <1>3, AddTypedCipher
<1>4. CASE EndMessage \/ AppendLength
  <2>1. /\ bufferBits' = bufferBits /\ hash' = hash
        /\ \/ \E bytes, back : processBuffer(bytes, back) /\ back \in {"length", "digest"}
           \/ UNCHANGED cipher
    BY <1>4 DEF EndMessage, AppendLength
  <2>2. CASE \E bytes, back : processBuffer(bytes, back) /\ back \in {"length", "digest"}
    BY <2>1, <2>2, BlockTyped DEF CipherTyped
  <2>3. CASE UNCHANGED cipher
    BY <2>1, <2>3 DEF CipherTyped, cipher
  <2> QED
    BY <2>1, <2>2, <2>3
<1>5. CASE Round
  <2>1. NextKey(K, r) \in Words /\ NextState(state, K') \in Words
    BY DEF NextKey, NextState, Mixed, XorAll, Words, Word
  <2> QED
    BY <1>5, <2>1 DEF Round, CipherTyped, buffered, R
<1>6. CASE Compress
  <2>1. [i \in 0..7 |-> XorAll(<<hash[i], state[i], block[i]>>)] \in Words
    BY DEF XorAll, Words, Word
  <2> QED
    BY <1>6, <2>1 DEF Compress, CipherTyped, buffered, cipher
<1>7. CASE Return
  <2>1. /\ hash' = Zeros(0..7) /\ block' = Zeros(0..7) /\ K' = Zeros(0..7) /\ state' = Zeros(0..7)
        /\ r' = 1 /\ after' = "idle" /\ bufferBits' = 0
    BY <1>7 DEF Return
  <2> QED
    BY <2>1, ZeroWords DEF CipherTyped, R
<1> QED
  BY <1>1, <1>2, <1>3, <1>4, <1>5, <1>6, <1>7 DEF Next

LEMMA CipherStarts == Init => CipherTyped
BY ZeroWords DEF Init, CipherTyped, R

(***************************************************************************)
(* The words stay of 64 bits, the length of 32 bytes and the buffer of 64, *)
(* with fewer than 512 bits in it.                                         *)
(***************************************************************************)
THEOREM EverythingIsTyped == Spec => []TypeOK
<1>1. Inv /\ StringInv /\ CipherTyped => TypeOK
  <2> SUFFICES ASSUME Inv, StringInv, CipherTyped PROVE TypeOK
    OBVIOUS
  <2>1. /\ pc \in {"idle", "fetch", "add", "rounds", "finalize", "length", "digest"}
        /\ amx_cstr \in Seq(1..255) /\ sourceBits \in Nat
        /\ buffer \in [0..63 -> Byte] /\ bufferPos \in 0..63
    BY DEF Inv, Typed
  <2>2. message \in Seq(1..255) /\ sourcePos \in Nat /\ bitLength \in [0..31 -> 0..255]
    BY DEF StringInv, Lengths
  <2>3. \A words \in {hash, block, K, state} : DOMAIN words = 0..7 /\ \A i \in 0..7 : words[i] \subseteq 0..63
    BY DEF CipherTyped, Words, Word
  <2>4. DOMAIN buffer = 0..63 /\ \A k \in 0..63 : buffer[k] \subseteq 0..7
    BY <2>1 DEF Byte
  <2> QED
    BY <2>1, <2>2, <2>3, <2>4 DEF CipherTyped, TypeOK
<1>2. Inv /\ StringInv /\ CipherTyped /\ [Next]_vars => Inv' /\ StringInv' /\ CipherTyped'
  BY InvIsKept, StringIsKept, CipherTypedIsKept
<1> QED
  BY <1>1, <1>2, Starts, StringStarts, CipherStarts, PTL DEF Spec

(***************************************************************************)
(* The rounds.  Whether an odd number of nine sets hold a number, is       *)
(* whether an odd number of the first eight do, or else the ninth.         *)
(***************************************************************************)
LEMMA OddOfNine ==
  ASSUME NEW A \in SUBSET (1..9)
  PROVE  (Cardinality(A) % 2 = 1) <=> ((Cardinality({t \in 0..7 : t + 1 \in A}) % 2 = 1) # (9 \in A))
<1> DEFINE B == {t \in 0..7 : t + 1 \in A}
<1>1. IsFiniteSet(A) /\ IsFiniteSet(B)
  <2>1. IsFiniteSet(1..9) /\ IsFiniteSet(0..7)
    <3>1. 0 \in Int /\ 1 \in Int /\ 7 \in Int /\ 9 \in Int
      OBVIOUS
    <3> QED
      BY <3>1, FS_Interval, Zenon
  <2> QED
    BY <2>1, FS_Subset
<1>2. Cardinality(A \ {9}) = Cardinality(B)
  <2> DEFINE f == [t \in B |-> t + 1]
  <2>1. f \in Bijection(B, A \ {9})
    <3>1. f \in [B -> A \ {9}]
      OBVIOUS
    <3>2. \A s, t \in B : f[s] = f[t] => s = t
      OBVIOUS
    <3>3. \A k \in A \ {9} : k - 1 \in B /\ f[k - 1] = k
      OBVIOUS
    <3> HIDE DEF B, f
    <3>4. \A k \in A \ {9} : \E t \in B : f[t] = k
      BY <3>3
    <3> QED
      BY <3>1, <3>2, <3>4 DEF Bijection, Injection, Surjection, IsInjective
  <2>2. ExistsBijection(B, A \ {9})
    BY <2>1 DEF ExistsBijection
  <2> QED
    BY <1>1, <2>2, FS_Bijection
<1>3. Cardinality(A \ {9}) = IF 9 \in A THEN Cardinality(A) - 1 ELSE Cardinality(A)
  BY <1>1, FS_RemoveElement
<1>4. Cardinality(A) \in Nat /\ Cardinality(B) \in Nat
  BY <1>1, FS_CardinalityType
<1> HIDE DEF B
<1>5. (Cardinality(A) % 2 = 1) <=> ((Cardinality(B) % 2 = 1) # (9 \in A))
  BY <1>2, <1>3, <1>4
<1> QED
  BY <1>5 DEF B

LEMMA WithLast ==
  ASSUME NEW F, NEW last
  PROVE  LET w == <<F[0], F[1], F[2], F[3], F[4], F[5], F[6], F[7], last>>
         IN  DOMAIN w = 1..9 /\ w[9] = last /\ \A t \in 0..7 : w[t + 1] = F[t]
<1> DEFINE w == <<F[0], F[1], F[2], F[3], F[4], F[5], F[6], F[7], last>>
<1>1. /\ w[1] = F[0] /\ w[2] = F[1] /\ w[3] = F[2] /\ w[4] = F[3]
      /\ w[5] = F[4] /\ w[6] = F[5] /\ w[7] = F[6] /\ w[8] = F[7] /\ w[9] = last
  OBVIOUS
<1>2. DOMAIN w = 1..9
  OBVIOUS
<1>3. ASSUME NEW t \in 0..7 PROVE w[t + 1] = F[t]
  <2>1. t = 0 \/ t = 1 \/ t = 2 \/ t = 3 \/ t = 4 \/ t = 5 \/ t = 6 \/ t = 7
    OBVIOUS
  <2> HIDE DEF w
  <2> QED
    BY <1>1, <2>1
<1> QED
  BY <1>1, <1>2, <1>3

\* The multiples of a byte are bytes.
LEMMA DoubleIsAByte == \A b : Double(b) \in Byte
BY DEF Double, Byte

LEMMA TwoIsAByte ==
  ASSUME NEW a \in Byte, NEW b \in Byte
  PROVE  XorAll(<<a, b>>) \in Byte
<1> SUFFICES ASSUME NEW n \in XorAll(<<a, b>>) PROVE n \in 0..7
  BY DEF Byte
<1>1. Cardinality({k \in DOMAIN <<a, b>> : n \in <<a, b>>[k]}) % 2 = 1
  BY DEF XorAll
<1>2. ASSUME n \notin 0..7 PROVE FALSE
  <2>1. n \notin a /\ n \notin b
    BY <1>2 DEF Byte
  <2>2. {k \in DOMAIN <<a, b>> : n \in <<a, b>>[k]} = {}
    BY <2>1
  <2>3. Cardinality({k \in DOMAIN <<a, b>> : n \in <<a, b>>[k]}) = 0
    BY <2>2, FS_EmptySet
  <2>4. 0 % 2 # 1
    OBVIOUS
  <2> QED
    BY <1>1, <2>3, <2>4
<1> QED
  BY <1>2

LEMMA TimesIsAByte ==
  ASSUME NEW b \in Byte, NEW k \in 1..8
  PROVE  Times(Coefficient[k], b) \in Byte
<1>1. Coefficient[k] \in {1, 2, 4, 5, 8, 9}
  <2>1. k = 1 \/ k = 2 \/ k = 3 \/ k = 4 \/ k = 5 \/ k = 6 \/ k = 7 \/ k = 8
    OBVIOUS
  <2> QED
    BY <2>1 DEF Coefficient
<1>2. XorAll(<<b, Double(Double(b))>>) \in Byte /\ XorAll(<<b, Double(Double(Double(b)))>>) \in Byte
  BY DoubleIsAByte, TwoIsAByte
<1> QED
  BY <1>1, <1>2, DoubleIsAByte DEF Times

\* Byte j of a table's word is the product of one entry of the matrix.
Part(t, x, j) == Product(Bits(Coefficient[1 + ((j - t) % 8)]), SubByte(x))

LEMMA ByteOfTable ==
  ASSUME NEW t \in 0..7, NEW x \in Byte, NEW j \in 0..7
  PROVE  ByteOf(C(t, x), j) = Part(t, x, j) /\ Part(t, x, j) \in Byte
<1> DEFINE s == Bits(SBox[1 + Number(x)])
           Multiple(q) == Times(Coefficient[1 + ((q - t) % 8)], s)
<1>1. s = SubByte(x) /\ s \in Byte
  BY TablesAssumption, BitsAreAByte
<1>2. 1 + ((j - t) % 8) \in 1..8
  OBVIOUS
<1>3. Multiple(j) = Part(t, x, j)
  BY <1>1, <1>2, TablesAssumption DEF Part
<1>4. Multiple(j) \in Byte
  BY <1>1, <1>2, TimesIsAByte
<1> HIDE DEF s
<1>5. C(t, x) = {n \in 0..63 : n % 8 \in Multiple(7 - n \div 8)}
  BY DEF C, WordOf, s
<1> HIDE DEF Multiple
<1>6. ASSUME NEW i \in 0..7 PROVE 8 * (7 - j) + i \in C(t, x) <=> i \in Multiple(j)
  <2>1. /\ 8 * (7 - j) + i \in 0..63 /\ (8 * (7 - j) + i) % 8 = i
        /\ 7 - ((8 * (7 - j) + i) \div 8) = j
    OBVIOUS
  <2> QED
    BY <1>5, <2>1
<1>7. ByteOf(C(t, x), j) = {i \in 0..7 : i \in Multiple(j)}
  BY <1>6 DEF ByteOf
<1>8. ByteOf(C(t, x), j) = Multiple(j)
  BY <1>4, <1>7 DEF Byte
<1> QED
  BY <1>3, <1>4, <1>8

(* Word i of what Rho makes of the matrix of words, before the key is added *)
Mixture(words, i, j) == XorAll([t \in 0..7 |-> Part(t, ByteOf(words[(i - t) % 8], t), j)])

LEMMA MixtureIsMixRows ==
  ASSUME NEW words, NEW i \in 0..7, NEW j \in 0..7
  PROVE  MixRows(ShiftColumns(SubBytes(Matrix(words))))[i][j] = Mixture(words, i, j)
<1> DEFINE m == ShiftColumns(SubBytes(Matrix(words)))
<1>1. ASSUME NEW t \in 0..7 PROVE m[i][t] = SubByte(ByteOf(words[(i - t) % 8], t))
  <2>1. (i - t) % 8 \in 0..7
    OBVIOUS
  <2>2. m[i][t] = SubBytes(Matrix(words))[(i - t) % 8][t]
    BY DEF ShiftColumns
  <2>3. SubBytes(Matrix(words))[(i - t) % 8][t] = SubByte(Matrix(words)[(i - t) % 8][t])
    BY <2>1 DEF SubBytes
  <2>4. Matrix(words)[(i - t) % 8][t] = ByteOf(words[(i - t) % 8], t)
    BY <2>1 DEF Matrix
  <2> QED
    BY <2>2, <2>3, <2>4
<1> HIDE DEF m
<1>2. MixRows(m)[i][j] = XorAll([t \in 0..7 |-> Product(Bits(Coefficient[1 + ((j - t) % 8)]), m[i][t])])
  BY DEF MixRows
<1>3. [t \in 0..7 |-> Product(Bits(Coefficient[1 + ((j - t) % 8)]), m[i][t])]
        = [t \in 0..7 |-> Part(t, ByteOf(words[(i - t) % 8], t), j)]
  BY <1>1 DEF Part
<1>4. MixRows(m)[i][j] = Mixture(words, i, j)
  BY <1>2, <1>3 DEF Mixture
<1> QED
  BY <1>4 DEF m

\* Eight lookups and the last word: the mixture, and the last word added.
LEMMA LookupsMix ==
  ASSUME NEW words, NEW i \in 0..7, NEW j \in 0..7, NEW last
  PROVE  ByteOf(Mixed(words, i, last), j) = Xor(Mixture(words, i, j), ByteOf(last, j))
<1> DEFINE F == [t \in 0..7 |-> C(t, ByteOf(words[(i - t) % 8], t))]
           w == <<F[0], F[1], F[2], F[3], F[4], F[5], F[6], F[7], last>>
           G == [t \in 0..7 |-> Part(t, ByteOf(words[(i - t) % 8], t), j)]
<1>1. Mixed(words, i, last) = XorAll(w)
  BY DEF Mixed
<1>2. DOMAIN w = 1..9 /\ w[9] = last /\ \A t \in 0..7 : w[t + 1] = F[t]
  <2> HIDE DEF F
  <2> QED
    BY WithLast
<1>3. ASSUME NEW t \in 0..7 PROVE ByteOf(F[t], j) = G[t] /\ G[t] \in Byte
  <2>1. ByteOf(words[(i - t) % 8], t) \in Byte
    BY DEF ByteOf, Byte
  <2> QED
    BY <2>1, ByteOfTable
<1>4. Mixture(words, i, j) = XorAll(G) /\ DOMAIN G = 0..7
  BY DEF Mixture
<1> HIDE DEF F, w, G
<1>5. ASSUME NEW n \in 0..7
      PROVE  8 * (7 - j) + n \in XorAll(w) <=> (n \in XorAll(G)) # (n \in ByteOf(last, j))
  <2> DEFINE N == 8 * (7 - j) + n
             A == {k \in 1..9 : N \in w[k]}
  <2>1. N \in 0..63 /\ n \in 0..63
    OBVIOUS
  <2>2. N \in XorAll(w) <=> Cardinality(A) % 2 = 1
    BY <1>2, <2>1 DEF XorAll
  <2>3. ASSUME NEW t \in 0..7 PROVE t + 1 \in A <=> n \in G[t]
    <3>1. t + 1 \in 1..9
      OBVIOUS
    <3>2. N \in F[t] <=> n \in ByteOf(F[t], j)
      BY DEF ByteOf
    <3> QED
      BY <1>2, <1>3, <3>1, <3>2
  <2>4. 9 \in A <=> n \in ByteOf(last, j)
    BY <1>2 DEF ByteOf
  <2>5. A \in SUBSET (1..9)
    OBVIOUS
  <2> HIDE DEF A
  <2>6. {t \in 0..7 : t + 1 \in A} = {t \in DOMAIN G : n \in G[t]}
    BY <1>4, <2>3
  <2>7. (Cardinality(A) % 2 = 1) <=> ((Cardinality({t \in 0..7 : t + 1 \in A}) % 2 = 1) # (9 \in A))
    BY <2>5, OddOfNine
  <2>8. n \in XorAll(G) <=> Cardinality({t \in DOMAIN G : n \in G[t]}) % 2 = 1
    BY <2>1 DEF XorAll
  <2>9. N \in XorAll(w) <=> ((Cardinality({t \in DOMAIN G : n \in G[t]}) % 2 = 1) # (9 \in A))
    BY <2>2, <2>6, <2>7
  <2> HIDE DEF N
  <2>10. N \in XorAll(w) <=> (n \in XorAll(G)) # (n \in ByteOf(last, j))
    BY <2>4, <2>8, <2>9
  <2> QED
    BY <2>10 DEF N
<1>6. ASSUME NEW n \in 0..63, n \notin 0..7 PROVE n \notin XorAll(G) /\ n \notin ByteOf(last, j)
  <2>1. {t \in DOMAIN G : n \in G[t]} = {}
    BY <1>3, <1>4, <1>6 DEF Byte
  <2>2. Cardinality({t \in DOMAIN G : n \in G[t]}) = 0 /\ 0 % 2 # 1
    BY <2>1, FS_EmptySet
  <2> QED
    BY <1>6, <2>2 DEF XorAll, ByteOf
<1>7. ByteOf(XorAll(w), j) = {n \in 0..7 : 8 * (7 - j) + n \in XorAll(w)}
  BY DEF ByteOf
<1>8. 0..7 \subseteq 0..63
  OBVIOUS
<1>9. ByteOf(XorAll(w), j) = Xor(XorAll(G), ByteOf(last, j))
  BY <1>5, <1>6, <1>7, <1>8 DEF Xor
<1> QED
  BY <1>1, <1>4, <1>9

LEMMA KeyRound ==
  ASSUME NEW words, NEW n \in 1..R
  PROVE  Matrix(NextKey(words, n)) = Rho(Matrix(words), RoundConstant(n))
<1>1. ASSUME NEW i \in 0..7, NEW j \in 0..7
      PROVE  ByteOf(IF i = 0 THEN rc(n) ELSE {}, j) = RoundConstant(n)[i][j]
  <2>1. CASE i = 0
    <3> DEFINE place == 8 * (n - 1) + j
               At(q) == Bits(SBox[1 + 8 * (n - 1) + q])
    <3>1. place \in 0..255
      BY DEF R
    <3>2. RoundConstant(n)[i][j] = SubByte(Bits(place))
      BY <2>1 DEF RoundConstant
    <3>3. Number(Bits(place)) = place /\ Bits(place) \in Byte
      BY <3>1, TablesAssumption, BitsAreAByte
    <3>4. SubByte(Bits(place)) = Bits(SBox[1 + place])
      BY <3>3, TablesAssumption
    <3>5. rc(n) = {k \in 0..63 : k % 8 \in At(7 - k \div 8)}
      BY DEF rc, WordOf
    <3>6. 1 + place = 1 + 8 * (n - 1) + j
      BY DEF R
    <3>7. At(j) = Bits(SBox[1 + place]) /\ At(j) \in Byte
      BY <3>6, BitsAreAByte
    <3> HIDE DEF At, place
    <3>8. ASSUME NEW k \in 0..7 PROVE 8 * (7 - j) + k \in rc(n) <=> k \in At(j)
      <4>1. /\ 8 * (7 - j) + k \in 0..63 /\ (8 * (7 - j) + k) % 8 = k
            /\ 7 - ((8 * (7 - j) + k) \div 8) = j
        OBVIOUS
      <4> QED
        BY <3>5, <4>1
    <3>9. ByteOf(rc(n), j) = {k \in 0..7 : k \in At(j)}
      BY <3>8 DEF ByteOf
    <3>10. ByteOf(rc(n), j) = At(j)
      BY <3>7, <3>9 DEF Byte
    <3> QED
      BY <2>1, <3>2, <3>4, <3>7, <3>10
  <2>2. CASE i # 0
    BY <2>2 DEF RoundConstant, ByteOf
  <2> QED
    BY <2>1, <2>2
<1>2. ASSUME NEW i \in 0..7, NEW j \in 0..7
      PROVE  ByteOf(NextKey(words, n)[i], j)
               = Xor(MixRows(ShiftColumns(SubBytes(Matrix(words))))[i][j], RoundConstant(n)[i][j])
  <2>1. NextKey(words, n)[i] = Mixed(words, i, IF i = 0 THEN rc(n) ELSE {})
    BY DEF NextKey
  <2> QED
    BY <1>1, <2>1, LookupsMix, MixtureIsMixRows
<1> QED
  BY <1>2 DEF Matrix, Rho, AddRoundKey

LEMMA StateRound ==
  ASSUME NEW words, NEW key
  PROVE  Matrix(NextState(words, key)) = Rho(Matrix(words), Matrix(key))
<1>1. ASSUME NEW i \in 0..7, NEW j \in 0..7
      PROVE  ByteOf(NextState(words, key)[i], j)
               = Xor(MixRows(ShiftColumns(SubBytes(Matrix(words))))[i][j], Matrix(key)[i][j])
  <2>1. NextState(words, key)[i] = Mixed(words, i, key[i])
    BY DEF NextState
  <2>2. Matrix(key)[i][j] = ByteOf(key[i], j)
    BY DEF Matrix
  <2> QED
    BY <2>1, <2>2, LookupsMix, MixtureIsMixRows
<1> QED
  BY <1>1 DEF Matrix, Rho, AddRoundKey

(***************************************************************************)
(* Whatever the key and the state are: the table lookups of a round are    *)
(* the substitution, the shift, the product and the addition of the        *)
(* cipher's definition.                                                    *)
(***************************************************************************)
THEOREM EveryRoundIsWhirlpool == Spec => RoundsAreWhirlpool
<1>1. ASSUME CipherTyped, [Next]_vars
      PROVE  [(pc = "rounds" /\ r <= R) =>
                /\ Matrix(K') = Rho(Matrix(K), RoundConstant(r))
                /\ Matrix(state') = Rho(Matrix(state), Matrix(K'))]_vars
  <2> SUFFICES ASSUME pc = "rounds", r <= R, Next
               PROVE  /\ Matrix(K') = Rho(Matrix(K), RoundConstant(r))
                      /\ Matrix(state') = Rho(Matrix(state), Matrix(K'))
    BY <1>1
  <2>1. Round
    <3>1. ~Compress
      BY <1>1 DEF Compress, CipherTyped, R
    <3>2. ~Fetch /\ ~AddByte /\ ~AddRest /\ ~EndMessage /\ ~AppendLength /\ ~Return
      BY DEF Fetch, AddByte, AddRest, EndMessage, AppendLength, Return
    <3>3. \A m : ~WP_Hash(m)
      BY DEF WP_Hash
    <3> QED
      BY <3>1, <3>2, <3>3 DEF Next
  <2>2. K' = NextKey(K, r) /\ state' = NextState(state, K') /\ r \in 1..R
    BY <1>1, <2>1 DEF Round, CipherTyped, R
  <2> QED
    BY <2>2, KeyRound, StateRound
<1>2. Inv /\ StringInv /\ CipherTyped /\ [Next]_vars => Inv' /\ StringInv' /\ CipherTyped'
  BY InvIsKept, StringIsKept, CipherTypedIsKept
<1> QED
  BY <1>1, <1>2, Starts, StringStarts, CipherStarts, PTL DEF Spec, RoundsAreWhirlpool
==================================================================================
