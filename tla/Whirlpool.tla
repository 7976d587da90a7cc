-------------------------------- MODULE Whirlpool --------------------------------
(***************************************************************************)
(* The native WP_Hash of the Whirlpool plugin (src/plugins/Whirlpool/      *)
(* Whirlpool/main.cpp), with which the accounts hash their passwords: a    *)
(* string is fetched in chunks, the bytes of a chunk go to a buffer one    *)
(* after the other, a full buffer is a block that takes ten rounds to      *)
(* process, and the last blocks carry a 1, zeros and the length in bits.   *)
(*                                                                         *)
(* processBuffer reads the buffer before anything else, so that the buffer *)
(* is reset in the step that starts it.  given and blocks only serve the   *)
(* properties.                                                             *)
(***************************************************************************)
EXTENDS WhirlpoolCipher, SequencesExt

CONSTANTS Strings,     \* what scripts hash: sequences of the numbers 1 .. 255
          Chunk,       \* 4096
          Stack        \* what the buffer may hold before it is used

ASSUME WhirlpoolAssumption ==
  /\ Chunk \in 1..4099   \* with its NUL it fits into a buffer of 4100 characters
  /\ \A m \in Strings : m \in Seq(1..255)
  /\ Stack \subseteq [0..63 -> Byte]

VARIABLES
  pc,
  message,       \* the string of the call
  amx_cstr,      \* what is left of it
  source, sourceBits, sourcePos,
  bitLength, buffer, bufferBits, bufferPos, hash,
  block, K, state, r,
  after,         \* where processBuffer returns to
  given,         \* the bytes that NESSIEadd has delivered
  blocks         \* those that were processed

text == <<message, amx_cstr>>
adding == <<source, sourceBits, sourcePos>>
buffered == <<buffer, bufferBits, bufferPos>>
cipher == <<block, K, state, r, after>>
ghosts == <<given, blocks>>
vars == <<pc, text, adding, bitLength, buffered, hash, cipher, ghosts>>

Zeros(S) == [k \in S |-> {}]

(***************************************************************************)
(* processBuffer.                                                          *)
(***************************************************************************)
(* mu(buffer) *)
BlockOf(bytes) == [i \in 0..7 |-> LET At(t) == bytes[8 * i + t] IN WordOf(At)]

processBuffer(bytes, back) ==
  /\ block' = BlockOf(bytes)
  /\ K' = hash
  /\ state' = [i \in 0..7 |-> Xor(block'[i], hash[i])]
  /\ r' = 1
  /\ after' = back /\ pc' = "rounds"
  /\ blocks' = Append(blocks, bytes)

Round ==
  /\ pc = "rounds" /\ r <= R
  /\ K' = NextKey(K, r)
  /\ state' = NextState(state, K')
  /\ r' = r + 1
  /\ UNCHANGED <<pc, text, adding, bitLength, buffered, hash, block, after, ghosts>>

(* The Miyaguchi-Preneel compression *)
Compress ==
  /\ pc = "rounds" /\ r > R
  /\ hash' = [i \in 0..7 |-> XorAll(<<hash[i], state[i], block[i]>>)]
  /\ pc' = after
  /\ UNCHANGED <<text, adding, bitLength, buffered, cipher, ghosts>>

(***************************************************************************)
(* NESSIEadd.                                                              *)
(***************************************************************************)
(* The length of the added data.  The loop ends with the last byte of the  *)
(* value, and then a carry is lost.                                        *)
Tally(length, bits) ==
  LET Add(a, i) ==
        LET sum == a.carry + a.length[i] + (a.value % 256)
        IN  IF a.value = 0 THEN a
            ELSE [length |-> [a.length EXCEPT ![i] = sum % 256],
                  carry |-> sum \div 256, value |-> a.value \div 256]
  IN  FoldLeft(Add, [length |-> length, carry |-> 0, value |-> bits],
               [k \in 1..32 |-> 32 - k]).length

sourceGap == (8 - (sourceBits % 8)) % 8
bufferRem == bufferBits % 8

\* Mutant: the next byte of the buffer is not cleared.
FillDirty(bytes, pos, bits, b, left, back) ==
  LET filled == [bytes EXCEPT ![pos] = @ \cup Shr(b, bufferRem)]
      total == bits + 8 - bufferRem
  IN  IF total = 512
      THEN /\ processBuffer(filled, back)
           /\ buffer' = filled
           /\ bufferPos' = 0 /\ bufferBits' = left
           /\ UNCHANGED hash
      ELSE /\ pc' = back
           /\ buffer' = filled
           /\ bufferPos' = pos + 1 /\ bufferBits' = total + left
           /\ UNCHANGED <<hash, cipher, blocks>>

\* Mutant: the buffer is not reset after a block.
FillOn(bytes, pos, bits, b, left, back) ==
  LET filled == [bytes EXCEPT ![pos] = @ \cup Shr(b, bufferRem)]
      total == bits + 8 - bufferRem
  IN  IF total = 512
      THEN /\ processBuffer(filled, back)
           /\ buffer' = filled
           /\ bufferPos' = pos + 1 /\ bufferBits' = total + left
           /\ UNCHANGED hash
      ELSE /\ pc' = back
           /\ buffer' = [filled EXCEPT ![pos + 1] = Shl(b, 8 - bufferRem)]
           /\ bufferPos' = pos + 1 /\ bufferBits' = total + left
           /\ UNCHANGED <<hash, cipher, blocks>>

(* A byte of data that fills the byte at pos: a block if it is the last,   *)
(* and the first bits of the next byte, of which left are data             *)
Fill(bytes, pos, bits, b, left, back) ==
  LET filled == [bytes EXCEPT ![pos] = @ \cup Shr(b, bufferRem)]
      total == bits + 8 - bufferRem
  IN  IF total = 512
      THEN /\ processBuffer(filled, back)
           /\ buffer' = [filled EXCEPT ![0] = Shl(b, 8 - bufferRem)]
           /\ bufferPos' = 0 /\ bufferBits' = left
           /\ UNCHANGED hash
      ELSE /\ pc' = back
           /\ buffer' = [filled EXCEPT ![pos + 1] = Shl(b, 8 - bufferRem)]
           /\ bufferPos' = pos + 1 /\ bufferBits' = total + left
           /\ UNCHANGED <<hash, cipher, blocks>>

(* The loop, while there is more than the last byte *)
AddByte ==
  LET b == Shl(source[sourcePos], sourceGap) \cup Shr(source[sourcePos + 1], 8 - sourceGap)
  IN  /\ pc = "add" /\ sourceBits > 8
      /\ Fill(buffer, bufferPos, bufferBits, b, bufferRem, "add")
      /\ given' = Append(given, b)
      /\ sourceBits' = sourceBits - 8 /\ sourcePos' = sourcePos + 1
      /\ UNCHANGED <<text, source, bitLength>>

(* What is left: eight bits, or none at all for the empty string *)
AddRest ==
  LET b == Shl(source[sourcePos], sourceGap)
      back == IF amx_cstr = <<>> THEN "finalize" ELSE "fetch"
  IN  /\ pc = "add" /\ sourceBits <= 8
      /\ IF bufferRem + sourceBits < 8
         THEN /\ buffer' = [buffer EXCEPT ![bufferPos] = @ \cup Shr(b, bufferRem)]
              /\ bufferBits' = bufferBits + sourceBits
              /\ pc' = back
              /\ UNCHANGED <<bufferPos, hash, cipher, ghosts>>
         ELSE /\ Fill(buffer, bufferPos, bufferBits, b, sourceBits - (8 - bufferRem), back)
              /\ given' = Append(given, b)
      /\ sourceBits' = 0
      /\ UNCHANGED <<text, source, sourcePos, bitLength>>

(***************************************************************************)
(* n_WP_Hash.                                                              *)
(***************************************************************************)
(* amx_GetString copies size - 1 characters and ends them with a NUL *)
amx_GetString(string, size) ==
  [k \in 0..size - 1 |-> IF k < size - 1 THEN Bits(string[k + 1]) ELSE {}]

(* NESSIEinit clears only the first byte of the buffer *)
WP_Hash(m) ==
  /\ pc = "idle"
  /\ message' = m /\ amx_cstr' = m
  /\ bitLength' = [k \in 0..31 |-> 0]
  /\ bufferBits' = 0 /\ bufferPos' = 0
  /\ buffer' = [buffer EXCEPT ![0] = {}]
  /\ hash' = Zeros(0..7)
  /\ given' = <<>> /\ blocks' = <<>>
  /\ pc' = "fetch"
  /\ UNCHANGED <<adding, cipher>>

\* Mutant: a string that fills a chunk is taken to be followed by another.
FetchEarly ==
  /\ pc = "fetch"
  /\ IF Len(amx_cstr) >= Chunk
     THEN /\ source' = amx_GetString(amx_cstr, Chunk)
          /\ amx_cstr' = SubSeq(amx_cstr, Chunk + 1, Len(amx_cstr))
          /\ sourceBits' = 8 * Chunk
     ELSE /\ source' = amx_GetString(amx_cstr, Len(amx_cstr) + 1)
          /\ amx_cstr' = <<>>
          /\ sourceBits' = 8 * Len(amx_cstr)
  /\ sourcePos' = 0
  /\ bitLength' = Tally(bitLength, sourceBits')
  /\ pc' = "add"
  /\ UNCHANGED <<message, buffered, hash, cipher, ghosts>>

(* A chunk is fetched with room for Chunk characters, the NUL among them:  *)
(* its last character is lost                                              *)
Fetch ==
  /\ pc = "fetch"
  /\ IF Len(amx_cstr) > Chunk
     THEN /\ source' = amx_GetString(amx_cstr, Chunk)
          /\ amx_cstr' = SubSeq(amx_cstr, Chunk + 1, Len(amx_cstr))
          /\ sourceBits' = 8 * Chunk
     ELSE /\ source' = amx_GetString(amx_cstr, Len(amx_cstr) + 1)
          /\ amx_cstr' = <<>>
          /\ sourceBits' = 8 * Len(amx_cstr)
  /\ sourcePos' = 0
  /\ bitLength' = Tally(bitLength, sourceBits')
  /\ pc' = "add"
  /\ UNCHANGED <<message, buffered, hash, cipher, ghosts>>

(***************************************************************************)
(* NESSIEfinalize.                                                         *)
(***************************************************************************)
\* Mutant: a buffer of 32 bytes is taken to have room for one more.
EndMessageLate ==
  LET ended == [buffer EXCEPT ![bufferPos] = @ \cup Shr({7}, bufferRem)]
      zeroed == [k \in 0..63 |-> IF k <= bufferPos THEN ended[k] ELSE {}]
  IN  /\ pc = "finalize"
      /\ IF bufferPos > 32
         THEN /\ processBuffer(zeroed, "length")
              /\ buffer' = zeroed /\ bufferPos' = 0
              /\ UNCHANGED hash
         ELSE /\ pc' = "length"
              /\ buffer' = ended /\ bufferPos' = bufferPos + 1
              /\ UNCHANGED <<hash, cipher, blocks>>
      /\ UNCHANGED <<text, adding, bitLength, bufferBits, given>>

(* The 1, and zeros up to the end of a block that has no room for the      *)
(* length                                                                  *)
EndMessage ==
  LET ended == [buffer EXCEPT ![bufferPos] = @ \cup Shr({7}, bufferRem)]
      zeroed == [k \in 0..63 |-> IF k <= bufferPos THEN ended[k] ELSE {}]
  IN  /\ pc = "finalize"
      /\ IF bufferPos + 1 > 32
         THEN /\ processBuffer(zeroed, "length")
              /\ buffer' = zeroed /\ bufferPos' = 0
              /\ UNCHANGED hash
         ELSE /\ pc' = "length"
              /\ buffer' = ended /\ bufferPos' = bufferPos + 1
              /\ UNCHANGED <<hash, cipher, blocks>>
      /\ UNCHANGED <<text, adding, bitLength, bufferBits, given>>

AppendLength ==
  LET last == [k \in 0..63 |-> IF k < bufferPos THEN buffer[k]
                               ELSE IF k < 32 THEN {}
                               ELSE Bits(bitLength[k - 32])]
  IN  /\ pc = "length"
      /\ processBuffer(last, "digest")
      /\ buffer' = last /\ bufferPos' = 32
      /\ UNCHANGED <<text, adding, bitLength, bufferBits, hash, given>>

(* The script has its digest, of 128 characters: the numbers of its digits *)
digest == [k \in 0..127 |-> (Number(ByteOf(hash[k \div 16], (k % 16) \div 2)) \div 16^(1 - (k % 2))) % 16]

Return ==
  /\ pc = "digest"
  /\ pc' = "idle"
  /\ message' = <<>> /\ amx_cstr' = <<>>
  /\ source' = <<>> /\ sourceBits' = 0 /\ sourcePos' = 0
  /\ block' = Zeros(0..7) /\ K' = Zeros(0..7) /\ state' = Zeros(0..7)
  /\ r' = 1 /\ after' = "idle"
  /\ bufferBits' = 0 /\ bufferPos' = 0
  /\ buffer' \in Stack
  /\ hash' = Zeros(0..7) /\ bitLength' = [k \in 0..31 |-> 0]
  /\ given' = <<>> /\ blocks' = <<>>

Init ==
  /\ pc = "idle"
  /\ message = <<>> /\ amx_cstr = <<>>
  /\ source = <<>> /\ sourceBits = 0 /\ sourcePos = 0
  /\ bitLength = [k \in 0..31 |-> 0] /\ hash = Zeros(0..7)
  /\ buffer \in Stack
  /\ bufferBits = 0 /\ bufferPos = 0
  /\ block = Zeros(0..7) /\ K = Zeros(0..7) /\ state = Zeros(0..7)
  /\ r = 1 /\ after = "idle"
  /\ given = <<>> /\ blocks = <<>>

Next ==
  \/ \E m \in Strings : WP_Hash(m)
  \/ Fetch \/ AddByte \/ AddRest \/ EndMessage \/ AppendLength
  \/ Round \/ Compress \/ Return

Spec == Init /\ [][Next]_vars

(***************************************************************************)
(* Properties.                                                             *)
(***************************************************************************)
TypeOK ==
  /\ pc \in {"idle", "fetch", "add", "rounds", "finalize", "length", "digest"}
  /\ after \in {"idle", "fetch", "add", "finalize", "length", "digest"}
  /\ message \in Seq(1..255) /\ amx_cstr \in Seq(1..255)
  /\ sourceBits \in Nat /\ sourcePos \in Nat
  /\ bitLength \in [0..31 -> 0..255]
  /\ DOMAIN buffer = 0..63 /\ \A k \in 0..63 : buffer[k] \subseteq 0..7
  /\ bufferBits \in 0..511 /\ bufferPos \in 0..63
  /\ \A words \in {hash, block, K, state} :
       DOMAIN words = 0..7 /\ \A i \in 0..7 : words[i] \subseteq 0..63
  /\ r \in 1..R + 1

(* The length is not begun *)
Adding ==
  \/ pc \in {"fetch", "add", "finalize"}
  \/ pc = "rounds" /\ after \in {"fetch", "add", "finalize"}

(* The byte p of the data that has been processed *)
Processed(p) == blocks[1 + ((p - 1) \div 64)][(p - 1) % 64]

(* NESSIEadd "maintains the invariant: bufferBits < 512" (main.cpp:283),    *)
(* and NESSIEfinalize "uses" it (:393): whatever the chunks were, what was *)
(* processed and what is in the buffer are the data so far, and the byte   *)
(* after it is clear, the only one of which NESSIEinit says that it must.  *)
BufferHoldsTheRest ==
  Adding =>
    /\ bufferBits < 512 /\ bufferBits = 8 * bufferPos
    /\ Len(given) = 64 * Len(blocks) + bufferPos
    /\ \A p \in 1..64 * Len(blocks) : Processed(p) = given[p]
    /\ \A k \in 0..bufferPos - 1 : buffer[k] = given[64 * Len(blocks) + k + 1]
    /\ buffer[bufferPos] = {}

(* Every message is ended as the algorithm demands: a 1, then zeros, then  *)
(* the length in the last 32 bytes, with as few blocks as will do; nothing *)
(* of the buffer's earlier contents is left in the last ones.              *)
PaddingIsExact ==
  pc = "digest" =>
    LET n == Len(given)
        total == 64 * Len(blocks)
    IN  /\ n + 33 <= total /\ total < n + 33 + 64
        /\ \A p \in 1..total :
             Processed(p) = CASE p <= n -> given[p]
                              [] p = n + 1 -> {7}
                              [] n + 1 < p /\ p <= total - 32 -> {}
                              [] OTHER -> Bits(bitLength[p - (total - 32) - 1])

Hashed == given = [k \in 1..Len(message) |-> Bits(message[k])]

(* What is hashed of a string that one chunk can take (every password is   *)
(* one) is the string, each character once and in order, up to its very    *)
(* last, and the length that ends it is that of the string.                *)
ShortStringsAreHashed ==
  pc = "finalize" /\ Len(message) <= Chunk =>
    /\ Hashed
    /\ \A k \in 0..31 :
         bitLength[k] = CASE k = 31 -> (8 * Len(message)) % 256
                          [] k = 30 -> (8 * Len(message)) \div 256
                          [] OTHER -> 0

(* So it is with every string: "I doubt they'll EVER be more than 4096,    *)
(* but code it right anyway" (main.cpp:542).  Of a longer one a chunk that *)
(* is followed by another loses its last character, because the NUL that   *)
(* amx_GetString writes counts (main.cpp:550).                             *)
HashesTheString == pc = "finalize" => Hashed

(* The eight table lookups for each word are a round of the cipher, for    *)
(* the key and for the state with the new key.                             *)
RoundsAreWhirlpool ==
  [][(pc = "rounds" /\ r <= R) =>
       /\ Matrix(K') = Rho(Matrix(K), RoundConstant(r))
       /\ Matrix(state') = Rho(Matrix(state), Matrix(K'))]_vars
==================================================================================
