------------------------------- MODULE Sha256 -------------------------------
(***************************************************************************)
(* sha256.c: what the block transformation is given.                       *)
(*                                                                         *)
(* The caller hands Message over in any number of sha256_update() calls,   *)
(* of any lengths, and may finish after any of them.  The transformation   *)
(* itself is a fixed function of the previous state and the block, so      *)
(* ctx->state and the digest are represented by the blocks transformed     *)
(* since sha256_init(): two digests are the same function of the same      *)
(* blocks.  BlockBytes is 64 in the code and LengthBytes is 8.             *)
(***************************************************************************)
EXTENDS Powers, Sequences

CONSTANTS
  BlockBytes,     \* the size of ctx->data
  LengthBytes,    \* the size of the length that ends the padding
  Message,        \* the bytes there are to hash
  UpdateLengths   \* the lengths sha256_update() is called with

Byte == 0..255

ASSUME ShaAssumption ==
  /\ BlockBytes \in Nat /\ LengthBytes \in Nat
  /\ 0 < LengthBytes /\ LengthBytes < BlockBytes
  /\ Message \in Seq(Byte)
  /\ UpdateLengths \subseteq Nat

(* sha256_update() counts up to its size_t len with a 32-bit WORD: a call  *)
(* of 2^32 bytes or more would not end.                                    *)
ASSUME UpdateAssumption == \A len \in UpdateLengths : len \div 65536 < 65536

VARIABLES
  data, datalen, bitlen,   \* of SHA256_CTX
  transformed,             \* the blocks that made ctx->state what it is
  taken,                   \* how many bytes of Message have been read
  left,                    \* what is left of the current sha256_update()
  finished

ctxVars == <<data, datalen, bitlen, transformed>>
shaVars == <<ctxVars, taken, left, finished>>

Room == BlockBytes - LengthBytes       \* 56: where the length begins

sha256_transform(ctx_state, block) == Append(ctx_state, block)

(* data is left as the caller's ctx had it, zeros here: no byte of it is   *)
(* read before it is written.                                              *)
sha256_init ==
  /\ datalen = 0
  /\ bitlen = 0
  /\ transformed = <<>>

ShaInit ==
  /\ sha256_init
  /\ data = [i \in 0..(BlockBytes - 1) |-> 0]
  /\ taken = 0
  /\ left = 0
  /\ finished = FALSE

sha256_update(len) ==
  /\ ~finished /\ left = 0
  /\ taken + len <= Len(Message)
  /\ left' = len
  /\ UNCHANGED <<ctxVars, taken, finished>>

(* One turn of the loop in sha256_update().                                *)
FullEarly(filled) == filled >= BlockBytes - 1    \* mutant: the block is short of a byte
FullLate(filled) == filled > BlockBytes          \* mutant: a byte goes past the buffer
BlockFull(filled) == filled = BlockBytes
UpdateByte ==
  /\ left > 0
  /\ left' = left - 1
  /\ taken' = taken + 1
  /\ data' = [data EXCEPT ![datalen] = Message[taken + 1]]
  /\ IF BlockFull(datalen + 1)
     THEN /\ transformed' = sha256_transform(transformed, data')
          /\ bitlen' = bitlen + 8 * BlockBytes
          /\ datalen' = 0
     ELSE /\ datalen' = datalen + 1
          /\ UNCHANGED <<transformed, bitlen>>
  /\ UNCHANGED finished

(* The buffer with 0x80 after its datalen bytes and zeros behind, and the  *)
(* number of bits in the last LengthBytes bytes, most significant first.   *)
Marked ==
  [i \in 0..(BlockBytes - 1) |->
     IF i < datalen THEN data[i] ELSE IF i = datalen THEN 128 ELSE 0]
LengthByte(bits, i) == (bits \div Pow2[8 * i]) % 256
WithLength(block, bits) ==
  [i \in 0..(BlockBytes - 1) |->
     IF i < Room THEN block[i] ELSE LengthByte(bits, BlockBytes - 1 - i)]
Zeros == [i \in 0..(BlockBytes - 1) |-> 0]

FitsLoosely == datalen <= Room    \* mutant: 0x80 may fall where the length goes
Fits == datalen < Room
sha256_final ==
  /\ ~finished /\ left = 0
  /\ finished' = TRUE
  /\ bitlen' = bitlen + 8 * datalen
  /\ IF Fits
     THEN /\ data' = WithLength(Marked, bitlen')
          /\ transformed' = sha256_transform(transformed, data')
     ELSE /\ data' = WithLength(Zeros, bitlen')
          /\ transformed' = sha256_transform(sha256_transform(transformed, Marked), data')
  /\ UNCHANGED <<datalen, taken, left>>

ShaNext ==
  \/ \E len \in UpdateLengths : sha256_update(len)
  \/ UpdateByte
  \/ sha256_final

ShaSpec == ShaInit /\ [][ShaNext]_shaVars

-----------------------------------------------------------------------------
(* Type invariant: the buffer always has room for a byte.                  *)
ShaTypeOK ==
  /\ data \in [0..(BlockBytes - 1) -> Byte]
  /\ datalen \in 0..(BlockBytes - 1)
  /\ bitlen \in Nat
  /\ transformed \in Seq([0..(BlockBytes - 1) -> Byte])
  /\ taken \in 0..Len(Message)
  /\ left \in 0..(Len(Message) - taken)
  /\ finished \in BOOLEAN

(* However the message is cut into calls, until it is finished the blocks  *)
(* that were transformed and the bytes in the buffer are the bytes taken,  *)
(* in their order, and bitlen counts the blocks (sha256.c:95-106).         *)
NothingLost ==
  ~finished =>
    /\ taken = BlockBytes * Len(transformed) + datalen
    /\ bitlen = 8 * (BlockBytes * Len(transformed))
    /\ \A i \in 0..(datalen - 1) :
         data[i] = Message[BlockBytes * Len(transformed) + i + 1]
    /\ \A b \in DOMAIN transformed : \A i \in 0..(BlockBytes - 1) :
         transformed[b][i] = Message[BlockBytes * (b - 1) + i + 1]

(* The padding of the standard: byte i of the padded message of n bytes,   *)
(* which is the shortest whole number of blocks that holds n bytes, a mark *)
(* and the length of the message in bits.                                  *)
PaddedBlocks(n) == (n + LengthBytes) \div BlockBytes + 1
PaddedByte(n, i) ==
  CASE i < n -> Message[i + 1]
    [] i = n -> 128
    [] n < i /\ i < PaddedBlocks(n) * BlockBytes - LengthBytes -> 0
    [] n < i /\ i >= PaddedBlocks(n) * BlockBytes - LengthBytes ->
         LengthByte(8 * n, PaddedBlocks(n) * BlockBytes - 1 - i)

(* What sha256_final() has had transformed is the padded message, also at  *)
(* the lengths where the mark or the length need a block of their own      *)
(* (sha256.c:108-157).                                                     *)
DigestOfPaddedMessage ==
  finished =>
    /\ Len(transformed) = PaddedBlocks(taken)
    /\ \A b \in DOMAIN transformed : \A i \in 0..(BlockBytes - 1) :
         transformed[b][i] = PaddedByte(taken, BlockBytes * (b - 1) + i)

=============================================================================
