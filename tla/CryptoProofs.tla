---------------------------- MODULE CryptoProofs ----------------------------
(***************************************************************************)
(* Proofs about Sha256, Ecdsa and CryptoTest.                              *)
(*                                                                         *)
(* Sha256, for every size of block and length field, every message and     *)
(* every way to cut it into calls: NothingLost and ShaTypeOK are inductive *)
(* together; the padding follows from them in the one step that finishes.  *)
(*                                                                         *)
(* Ecdsa, for everything that a generator or a caller gives: the invariant *)
(* EcInv with one lemma per step; from the ladder of EccProofs what        *)
(* verification and decompression compute, and with that the invariant     *)
(* CurveInv, which says whose points there are; and that calls return.     *)
(* Last the program, which uses both libraries.                            *)
(***************************************************************************)
EXTENDS CryptoTest, EccProofs, TLAPS

-----------------------------------------------------------------------------
(* Byte i of block b of a message comes after the b-1 blocks before it.    *)
LEMMA BlockStart ==
  ASSUME NEW B \in Nat, NEW t \in Nat, NEW b \in 1..t, NEW i \in 0..(B - 1)
  PROVE  /\ B * (b - 1) + i \in Nat
         /\ B * (b - 1) + i < B * t
  <1>1. PICK m \in Nat : t = b + m
    BY SMT
  <1>2. B * t = B * (b - 1) + B + B * m
    BY <1>1, SMT
  <1>3. B * m \in Nat /\ B * (b - 1) \in Nat
    BY <1>1, SMT
  <1> QED
    BY <1>2, <1>3, SMT

(* The block after t blocks.                                               *)
LEMMA NextBlock ==
  ASSUME NEW B \in Nat, NEW t \in Nat
  PROVE  /\ B * (t + 1) = B * t + B
         /\ B * ((t + 1) - 1) = B * t
         /\ B * (t + 1) \in Nat /\ B * t \in Nat
  BY SMT

(* What division makes of t blocks and a rest.                             *)
LEMMA Quotient ==
  ASSUME NEW B \in Nat, NEW t \in Nat, NEW rest \in 0..(B - 1)
  PROVE  (B * t + rest) \div B = t
  BY SMT

(* The number of padded blocks of a message that ends in a block with rest *)
(* bytes: one more than were full, if the length fits.                     *)
LEMMA BlocksWhenFits ==
  ASSUME NEW t \in Nat, NEW rest \in 0..(BlockBytes - 1), rest < Room
  PROVE  PaddedBlocks(BlockBytes * t + rest) = t + 1
  <1>1. BlockBytes \in Nat /\ LengthBytes \in Nat /\ rest + LengthBytes \in 0..(BlockBytes - 1)
    BY ShaAssumption, SMT DEF Room
  <1>2. BlockBytes * t + rest + LengthBytes = BlockBytes * t + (rest + LengthBytes)
    BY <1>1, SMT
  <1> QED
    BY <1>1, <1>2, Quotient DEF PaddedBlocks

(* One more if the length does not fit into the last of them.              *)
LEMMA BlocksWhenFull ==
  ASSUME NEW t \in Nat, NEW rest \in 0..(BlockBytes - 1), ~(rest < Room)
  PROVE  PaddedBlocks(BlockBytes * t + rest) = t + 2
  <1>1. BlockBytes \in Nat /\ LengthBytes \in Nat
        /\ rest + LengthBytes - BlockBytes \in 0..(BlockBytes - 1)
    BY ShaAssumption, SMT DEF Room
  <1>2. BlockBytes * t + rest + LengthBytes = BlockBytes * (t + 1) + (rest + LengthBytes - BlockBytes)
    BY <1>1, NextBlock, SMT
  <1>3. (BlockBytes * t + rest + LengthBytes) \div BlockBytes = t + 1
    BY <1>1, <1>2, Quotient
  <1> QED
    BY <1>3, SMT DEF PaddedBlocks

-----------------------------------------------------------------------------
(* The types of what sha256_final() writes.                                *)
LEMMA LengthByteType ==
  ASSUME NEW bits \in Nat, NEW i \in 0..(LengthBytes - 1)
  PROVE  LengthByte(bits, i) \in Byte
  <1> DEFINE w == Pow2[8 * i]
  <1>1. w \in Nat \ {0}
    <2>1. 8 * i \in Nat
      BY ShaAssumption
    <2> QED BY <2>1, Pow2Defined
  <1> HIDE DEF w
  <1>2. (bits \div w) % 256 \in 0..255
    BY <1>1, SMT
  <1> QED
    BY <1>2 DEF LengthByte, Byte, w

(* The block with the mark behind the message.                             *)
LEMMA MarkedType ==
  ASSUME ShaTypeOK
  PROVE  Marked \in [0..(BlockBytes - 1) -> Byte]
  BY SMT DEF ShaTypeOK, Marked, Byte

(* A block with the length at its end.                                     *)
LEMMA WithLengthType ==
  ASSUME NEW block \in [0..(BlockBytes - 1) -> Byte], NEW bits \in Nat
  PROVE  WithLength(block, bits) \in [0..(BlockBytes - 1) -> Byte]
  <1>1. ASSUME NEW i \in 0..(BlockBytes - 1), ~(i < Room)
        PROVE  BlockBytes - 1 - i \in 0..(LengthBytes - 1)
    BY <1>1, ShaAssumption, SMT DEF Room
  <1> QED
    BY <1>1, LengthByteType DEF WithLength

(* A block of zeros.                                                       *)
LEMMA ZerosType == Zeros \in [0..(BlockBytes - 1) -> Byte]
  BY SMT DEF Zeros, Byte

-----------------------------------------------------------------------------
(* The invariant of the hash: the two are inductive together.              *)
IInv == ShaTypeOK /\ NothingLost

(* It holds when the hash begins.                                          *)
LEMMA InitIInv == ShaInit => IInv
  <1> SUFFICES ASSUME ShaInit PROVE IInv
    OBVIOUS
  <1> USE DEF ShaInit, sha256_init
  <1>1. ShaTypeOK
    BY ShaAssumption, SMT DEF ShaTypeOK, Byte
  <1>2. NothingLost
    BY ShaAssumption, SMT DEF NothingLost
  <1> QED
    BY <1>1, <1>2 DEF IInv

(* A byte that does not fill the block.                                    *)
LEMMA ByteBuffered ==
  ASSUME IInv, UpdateByte, ~BlockFull(datalen + 1)
  PROVE  IInv'
  <1>0. ShaTypeOK /\ NothingLost
    BY DEF IInv
  <1>1. /\ datalen' = datalen + 1 /\ taken' = taken + 1 /\ left' = left - 1
        /\ UNCHANGED <<transformed, bitlen, finished>>
        /\ data' = [data EXCEPT ![datalen] = Message[taken + 1]]
    BY DEF UpdateByte, BlockFull
  <1>2. datalen \in 0..(BlockBytes - 1) /\ datalen + 1 # BlockBytes /\ BlockBytes \in Nat /\ left > 0
    BY <1>0, ShaAssumption DEF ShaTypeOK, BlockFull, UpdateByte
  <1>3. taken + 1 \in DOMAIN Message /\ Message[taken + 1] \in Byte
    BY <1>0, ShaAssumption, SMT DEF ShaTypeOK, UpdateByte
  <1>4. ShaTypeOK'
    BY <1>0, <1>1, <1>2, <1>3, ShaAssumption, SMT DEF ShaTypeOK
  <1>5. NothingLost'
    <2> SUFFICES ASSUME ~finished
                 PROVE  NothingLost'
      BY <1>1 DEF NothingLost
    <2> DEFINE start == BlockBytes * Len(transformed)
    <2>1. /\ start \in Nat
          /\ taken = start + datalen
          /\ bitlen = 8 * start
          /\ \A i \in 0..(datalen - 1) : data[i] = Message[start + i + 1]
          /\ \A b \in DOMAIN transformed : \A i \in 0..(BlockBytes - 1) :
               transformed[b][i] = Message[BlockBytes * (b - 1) + i + 1]
      <3>1. start \in Nat
        BY <1>0, ShaAssumption, NextBlock, SMT DEF ShaTypeOK
      <3> QED
        BY <3>1, <1>0 DEF NothingLost
    <2>2. BlockBytes * Len(transformed') = start
      BY <1>1
    <2> HIDE DEF start
    <2>3. taken' = start + datalen' /\ bitlen' = 8 * start
      BY <1>1, <1>2, <2>1, SMT
    <2>5. ASSUME NEW i \in 0..(BlockBytes - 1)
          PROVE  data'[i] = IF i = datalen THEN Message[taken + 1] ELSE data[i]
      BY <1>0, <1>1, Zenon DEF ShaTypeOK
    <2>4. ASSUME NEW i \in 0..(datalen' - 1)
          PROVE  data'[i] = Message[start + i + 1]
      <3>1. i \in 0..(BlockBytes - 1)
        BY <1>1, <1>2, SMT
      <3>2. CASE i = datalen
        <4>1. data'[i] = Message[taken + 1]
          BY <3>1, <3>2, <2>5, Zenon
        <4> QED
          BY <3>2, <4>1, <2>1
      <3>3. CASE i # datalen
        <4>1. data'[i] = data[i]
          BY <3>1, <3>3, <2>5, Zenon
        <4>2. i \in 0..(datalen - 1)
          BY <3>3, <1>1, <1>2, SMT
        <4> QED
          BY <4>1, <4>2, <2>1
      <3> QED
        BY <3>2, <3>3
    <2> QED
      BY <2>1, <2>2, <2>3, <2>4, <1>1, Zenon DEF NothingLost
  <1> QED
    BY <1>4, <1>5 DEF IInv

(* A byte that fills the block, which is then transformed.                 *)
LEMMA ByteFills ==
  ASSUME IInv, UpdateByte, BlockFull(datalen + 1)
  PROVE  IInv'
  <1> USE DEF IInv, UpdateByte, BlockFull
  <1>1. /\ datalen' = 0 /\ taken' = taken + 1 /\ left' = left - 1
        /\ transformed' = Append(transformed, data')
        /\ bitlen' = bitlen + 8 * BlockBytes
        /\ data' = [data EXCEPT ![datalen] = Message[taken + 1]]
        /\ UNCHANGED finished
    BY DEF sha256_transform
  <1>2. datalen \in 0..(BlockBytes - 1) /\ datalen + 1 = BlockBytes /\ BlockBytes \in Nat
    BY ShaAssumption DEF ShaTypeOK
  <1>3. taken + 1 \in DOMAIN Message /\ Message[taken + 1] \in Byte
    BY ShaAssumption, SMT DEF ShaTypeOK
  <1>4. data' \in [0..(BlockBytes - 1) -> Byte]
    BY <1>1, <1>2, <1>3, SMT DEF ShaTypeOK
  <1>5. ShaTypeOK'
    BY <1>1, <1>2, <1>3, <1>4, ShaAssumption, SMT DEF ShaTypeOK
  <1> DEFINE t == Len(transformed)
  <1>6. /\ t \in Nat /\ Len(transformed') = t + 1
        /\ \A b \in 1..t : transformed'[b] = transformed[b]
        /\ transformed'[t + 1] = data'
        /\ DOMAIN transformed = 1..t /\ DOMAIN transformed' = 1..(t + 1)
    BY <1>1, <1>4, SMT DEF ShaTypeOK
  <1>7. NothingLost'
    <2> SUFFICES ASSUME ~finished
                 PROVE  NothingLost'
      BY <1>1 DEF NothingLost
    <2>1. /\ BlockBytes * (t + 1) = BlockBytes * t + BlockBytes
          /\ BlockBytes * ((t + 1) - 1) = BlockBytes * t
          /\ BlockBytes * t \in Nat
      BY <1>2, <1>6, NextBlock
    <2>0. /\ taken = BlockBytes * t + datalen
          /\ bitlen = 8 * (BlockBytes * t)
          /\ \A i \in 0..(datalen - 1) : data[i] = Message[BlockBytes * t + i + 1]
          /\ \A b \in 1..t : \A i \in 0..(BlockBytes - 1) :
               transformed[b][i] = Message[BlockBytes * (b - 1) + i + 1]
      BY <1>6 DEF NothingLost
    <2>2. taken' = BlockBytes * Len(transformed') + datalen'
          /\ bitlen' = 8 * (BlockBytes * Len(transformed'))
      BY <1>1, <1>2, <1>6, <2>1, <2>0, SMT
    <2>3. ASSUME NEW i \in 0..(BlockBytes - 1)
          PROVE  data'[i] = Message[BlockBytes * t + i + 1]
      <3>1. CASE i = datalen
        BY <3>1, <1>1, <1>2, <2>1, <2>0, SMT DEF ShaTypeOK
      <3>2. CASE i < datalen
        BY <3>2, <1>1, <1>2, <2>1, <2>0, SMT DEF ShaTypeOK
      <3> QED
        BY <3>1, <3>2, <1>2, SMT
    <2>4. ASSUME NEW b \in DOMAIN transformed', NEW i \in 0..(BlockBytes - 1)
          PROVE  transformed'[b][i] = Message[BlockBytes * (b - 1) + i + 1]
      <3>1. CASE b = t + 1
        <4>1. transformed'[b] = data'
          BY <3>1, <1>6
        <4>2. BlockBytes * (b - 1) + i + 1 = BlockBytes * t + i + 1
          BY <3>1, <2>1
        <4> QED
          BY <4>1, <4>2, <2>3, Zenon
      <3>2. CASE b \in 1..t
        <4>1. transformed'[b] = transformed[b]
          BY <3>2, <1>6
        <4>2. transformed[b][i] = Message[BlockBytes * (b - 1) + i + 1]
          BY <3>2, <2>0
        <4> QED
          BY <4>1, <4>2, Zenon
      <3> QED
        BY <3>1, <3>2, <1>6, SMT
    <2>5. 0..(datalen' - 1) = {}
      BY <1>1, SMT
    <2> QED
      BY <2>2, <2>4, <2>5, <1>1 DEF NothingLost
  <1> QED
    BY <1>5, <1>7

(* The types when the message is finished; NothingLost then says nothing.  *)
LEMMA Finishes ==
  ASSUME IInv, sha256_final
  PROVE  IInv'
  <1> USE DEF IInv, sha256_final
  <1>1. bitlen' \in Nat /\ UNCHANGED <<datalen, taken, left>> /\ finished'
    BY SMT DEF ShaTypeOK
  <1>2. data' \in [0..(BlockBytes - 1) -> Byte]
    BY <1>1, MarkedType, ZerosType, WithLengthType
  <1>3. transformed' \in Seq([0..(BlockBytes - 1) -> Byte])
    <2> DEFINE Blocks == [0..(BlockBytes - 1) -> Byte]
    <2>1. transformed \in Seq(Blocks) /\ Marked \in Blocks /\ data' \in Blocks
      BY <1>2, MarkedType DEF ShaTypeOK
    <2> HIDE DEF Blocks
    <2>2. \A blocks \in Seq(Blocks), block \in Blocks : Append(blocks, block) \in Seq(Blocks)
      BY SMT
    <2>3. transformed' \in {Append(transformed, data'), Append(Append(transformed, Marked), data')}
      BY DEF sha256_transform
    <2>4. transformed' \in Seq(Blocks)
      BY <2>1, <2>2, <2>3
    <2> QED
      BY <2>4 DEF Blocks
  <1> QED
    BY <1>1, <1>2, <1>3 DEF ShaTypeOK, NothingLost

(* And every step keeps it.                                                *)
LEMMA StepIInv == IInv /\ [ShaNext]_shaVars => IInv'
  <1> SUFFICES ASSUME IInv, [ShaNext]_shaVars
               PROVE  IInv'
    OBVIOUS
  <1>1. ASSUME NEW len \in UpdateLengths, sha256_update(len)
        PROVE  IInv'
    <2>1. ShaTypeOK'
      BY <1>1, ShaAssumption, SMT DEF sha256_update, ctxVars, IInv, ShaTypeOK
    <2>2. NothingLost'
      BY <1>1 DEF sha256_update, ctxVars, IInv, NothingLost
    <2> QED
      BY <2>1, <2>2 DEF IInv
  <1>2. CASE UpdateByte
    BY <1>2, ByteBuffered, ByteFills
  <1>3. CASE sha256_final
    BY <1>3, Finishes
  <1>4. CASE UNCHANGED shaVars
    BY <1>4 DEF shaVars, ctxVars, IInv, ShaTypeOK, NothingLost
  <1> QED
    BY <1>1, <1>2, <1>3, <1>4 DEF ShaNext

(* sha256_update() keeps the buffer within its bounds, and the counts      *)
(* within theirs, however it is called (sha256.c:99-112).                  *)
THEOREM ShaTypeCorrect == ShaSpec => []ShaTypeOK
  <1>1. IInv => ShaTypeOK
    BY DEF IInv
  <1> QED
    BY <1>1, InitIInv, StepIInv, PTL DEF ShaSpec

(* However the message is cut into calls, no byte of it is lost, taken     *)
(* twice or moved (sha256.c:99-112).                                       *)
THEOREM NothingLostHolds == ShaSpec => []NothingLost
  <1>1. IInv => NothingLost
    BY DEF IInv
  <1> QED
    BY <1>1, InitIInv, StepIInv, PTL DEF ShaSpec

-----------------------------------------------------------------------------
(* The four cases of the padding, with its end as a number.                *)
LEMMA PaddedByteCases ==
  ASSUME NEW n \in Nat, NEW i \in Nat, NEW blocks \in Nat, PaddedBlocks(n) = blocks
  PROVE  /\ i < n => PaddedByte(n, i) = Message[i + 1]
         /\ i = n => PaddedByte(n, i) = 128
         /\ n < i /\ i < blocks * BlockBytes - LengthBytes => PaddedByte(n, i) = 0
         /\ n < i /\ i >= blocks * BlockBytes - LengthBytes =>
              PaddedByte(n, i) = LengthByte(8 * n, blocks * BlockBytes - 1 - i)
  <1> DEFINE end == blocks * BlockBytes - LengthBytes
  <1>1. end \in Int
    BY ShaAssumption, SMT
  <1>2. ~(i < n /\ i = n) /\ ~(i < n /\ n < i) /\ ~(i = n /\ n < i)
    BY SMT
  <1>3. i < end <=> ~(i >= end)
    BY <1>1, SMT
  <1>4. PaddedByte(n, i) =
          CASE i < n -> Message[i + 1]
            [] i = n -> 128
            [] n < i /\ i < end -> 0
            [] n < i /\ i >= end -> LengthByte(8 * n, blocks * BlockBytes - 1 - i)
    BY DEF PaddedByte
  <1> HIDE DEF end
  <1>5. /\ i < n => PaddedByte(n, i) = Message[i + 1]
        /\ i = n => PaddedByte(n, i) = 128
        /\ n < i /\ i < end => PaddedByte(n, i) = 0
        /\ n < i /\ i >= end =>
              PaddedByte(n, i) = LengthByte(8 * n, blocks * BlockBytes - 1 - i)
    BY <1>2, <1>3, <1>4, Zenon
  <1> QED
    BY <1>5 DEF end

(* What is known of the message when sha256_final() is called with t full  *)
(* blocks behind it.                                                       *)
LEMMA AtFinal ==
  ASSUME IInv, sha256_final, NEW t, t = Len(transformed)
  PROVE  /\ t \in Nat /\ BlockBytes * t \in Nat /\ taken \in Nat
         /\ datalen \in 0..(BlockBytes - 1)
         /\ taken = BlockBytes * t + datalen
         /\ bitlen' = 8 * taken
         /\ taken' = taken
         /\ \A i \in 0..(datalen - 1) : data[i] = Message[BlockBytes * t + i + 1]
         /\ DOMAIN transformed = 1..t
         /\ \A b \in 1..t : \A i \in 0..(BlockBytes - 1) :
              transformed[b][i] = PaddedByte(taken, BlockBytes * (b - 1) + i)
  <1>1. /\ BlockBytes \in Nat /\ LengthBytes \in Nat
        /\ t \in Nat /\ datalen \in 0..(BlockBytes - 1) /\ taken \in Nat
        /\ DOMAIN transformed = 1..t
    BY ShaAssumption, SMT DEF IInv, ShaTypeOK
  <1>2. BlockBytes * t \in Nat
    BY <1>1, NextBlock
  <1>3. /\ taken = BlockBytes * t + datalen
        /\ bitlen = 8 * (BlockBytes * t)
        /\ \A i \in 0..(datalen - 1) : data[i] = Message[BlockBytes * t + i + 1]
        /\ \A b \in 1..t : \A i \in 0..(BlockBytes - 1) :
             transformed[b][i] = Message[BlockBytes * (b - 1) + i + 1]
    BY <1>1 DEF IInv, NothingLost, sha256_final
  <1>4. bitlen' = 8 * taken /\ taken' = taken
    BY <1>1, <1>2, <1>3, SMT DEF sha256_final
  <1>5. ASSUME NEW b \in 1..t, NEW i \in 0..(BlockBytes - 1)
        PROVE  transformed[b][i] = PaddedByte(taken, BlockBytes * (b - 1) + i)
    <2> DEFINE at == BlockBytes * (b - 1) + i
    <2>1. at \in Nat /\ at < taken
      <3>1. at \in Nat /\ at < BlockBytes * t
        BY <1>1, BlockStart, Zenon
      <3> HIDE DEF at
      <3> QED
        BY <3>1, <1>1, <1>2, <1>3, SMT
    <2>2. PaddedBlocks(taken) \in Nat
      <3>1. t + 1 \in Nat /\ t + 2 \in Nat
        BY <1>1, SMT
      <3>2. PaddedBlocks(BlockBytes * t + datalen) \in {t + 1, t + 2}
        BY <1>1, BlocksWhenFits, BlocksWhenFull, Zenon
      <3> QED
        BY <3>1, <3>2, <1>3, Zenon
    <2>3. PaddedByte(taken, at) = Message[at + 1]
      BY <1>1, <2>1, <2>2, PaddedByteCases
    <2> QED
      BY <2>3, <1>3
  <1> QED
    BY <1>1, <1>2, <1>3, <1>4, <1>5

(* The block that holds the mark and the length.                           *)
LEMMA LastBlockFits ==
  ASSUME IInv, sha256_final, Fits, NEW t, t = Len(transformed),
         NEW i \in 0..(BlockBytes - 1)
  PROVE  /\ PaddedBlocks(taken) = t + 1
         /\ WithLength(Marked, bitlen')[i] = PaddedByte(taken, BlockBytes * t + i)
  <1> DEFINE start == BlockBytes * t
             at == start + i
  <1>1. /\ BlockBytes \in Nat /\ LengthBytes \in Nat
        /\ t \in Nat /\ start \in Nat /\ taken \in Nat
        /\ datalen \in 0..(BlockBytes - 1) /\ datalen < Room
        /\ taken = start + datalen
        /\ bitlen' = 8 * taken
        /\ \A j \in 0..(datalen - 1) : data[j] = Message[start + j + 1]
    BY ShaAssumption, AtFinal DEF Fits
  <1>2. PaddedBlocks(taken) = t + 1 /\ t + 1 \in Nat
    <2>1. PaddedBlocks(BlockBytes * t + datalen) = t + 1
      BY <1>1, BlocksWhenFits, Zenon
    <2> QED
      BY <1>1, <2>1, SMT
  <1>3. (t + 1) * BlockBytes = start + BlockBytes
    BY <1>1, NextBlock, SMT
  <1> HIDE DEF start
  <1>4. at \in Nat
    BY <1>1, SMT
  <1>5. /\ at < taken => PaddedByte(taken, at) = Message[at + 1]
        /\ at = taken => PaddedByte(taken, at) = 128
        /\ taken < at /\ at < (t + 1) * BlockBytes - LengthBytes => PaddedByte(taken, at) = 0
        /\ taken < at /\ at >= (t + 1) * BlockBytes - LengthBytes =>
             PaddedByte(taken, at) = LengthByte(8 * taken, (t + 1) * BlockBytes - 1 - at)
    <2> DEFINE blocks == t + 1
    <2>1. blocks \in Nat /\ PaddedBlocks(taken) = blocks
      BY <1>2
    <2> HIDE DEF blocks, at
    <2>2. /\ at < taken => PaddedByte(taken, at) = Message[at + 1]
          /\ at = taken => PaddedByte(taken, at) = 128
          /\ taken < at /\ at < blocks * BlockBytes - LengthBytes => PaddedByte(taken, at) = 0
          /\ taken < at /\ at >= blocks * BlockBytes - LengthBytes =>
               PaddedByte(taken, at) = LengthByte(8 * taken, blocks * BlockBytes - 1 - at)
      BY <1>1, <1>4, <2>1, PaddedByteCases
    <2> QED
      BY <2>2 DEF blocks
  <1>6. CASE i < datalen
    <2>1. WithLength(Marked, bitlen')[i] = data[i]
      <3>1. i < Room
        BY <1>1, <1>6, ShaAssumption, SMT DEF Room
      <3>2. WithLength(Marked, bitlen')[i] = Marked[i]
        BY <3>1 DEF WithLength
      <3>3. Marked[i] = data[i]
        BY <1>6 DEF Marked
      <3> QED
        BY <3>2, <3>3
    <2>2. PaddedByte(taken, at) = Message[start + i + 1]
      BY <1>1, <1>5, <1>6, SMT
    <2>3. data[i] = Message[start + i + 1]
      BY <1>1, <1>6, SMT
    <2> QED
      BY <1>2, <2>1, <2>2, <2>3 DEF start
  <1>7. CASE i = datalen
    <2>1. WithLength(Marked, bitlen')[i] = 128
      BY <1>1, <1>7, SMT DEF WithLength, Marked
    <2>2. PaddedByte(taken, at) = 128
      BY <1>1, <1>5, <1>7, SMT
    <2> QED
      BY <1>2, <2>1, <2>2 DEF start
  <1>8. CASE datalen < i /\ i < Room
    <2>1. WithLength(Marked, bitlen')[i] = 0
      BY <1>1, <1>8, SMT DEF WithLength, Marked
    <2>2. taken < at /\ at < (t + 1) * BlockBytes - LengthBytes
      BY <1>1, <1>3, <1>8, SMT DEF Room
    <2> QED
      BY <1>2, <1>5, <2>1, <2>2 DEF start
  <1>9. CASE ~(i < Room)
    <2>1. WithLength(Marked, bitlen')[i] = LengthByte(8 * taken, BlockBytes - 1 - i)
      BY <1>1, <1>9 DEF WithLength
    <2>2. taken < at /\ at >= (t + 1) * BlockBytes - LengthBytes
      BY <1>1, <1>3, <1>9, SMT DEF Room
    <2>3. (t + 1) * BlockBytes - 1 - at = BlockBytes - 1 - i
      BY <1>1, <1>3, SMT
    <2> QED
      BY <1>2, <1>5, <2>1, <2>2, <2>3, Zenon DEF start
  <1> QED
    BY <1>1, <1>6, <1>7, <1>8, <1>9, SMT

(* The two blocks, when only the mark fits into the first.                 *)
LEMMA LastBlocksFull ==
  ASSUME IInv, sha256_final, ~Fits, NEW t, t = Len(transformed),
         NEW i \in 0..(BlockBytes - 1)
  PROVE  /\ PaddedBlocks(taken) = t + 2
         /\ Marked[i] = PaddedByte(taken, BlockBytes * t + i)
         /\ WithLength(Zeros, bitlen')[i] = PaddedByte(taken, BlockBytes * (t + 1) + i)
  <1> DEFINE start == BlockBytes * t
             next == BlockBytes * (t + 1)
  <1>1. /\ BlockBytes \in Nat /\ LengthBytes \in Nat /\ LengthBytes < BlockBytes
        /\ t \in Nat /\ start \in Nat /\ taken \in Nat
        /\ datalen \in 0..(BlockBytes - 1) /\ ~(datalen < Room)
        /\ taken = start + datalen
        /\ bitlen' = 8 * taken
        /\ \A j \in 0..(datalen - 1) : data[j] = Message[start + j + 1]
    BY ShaAssumption, AtFinal DEF Fits
  <1>2. PaddedBlocks(taken) = t + 2 /\ t + 2 \in Nat
    <2>1. PaddedBlocks(BlockBytes * t + datalen) = t + 2
      BY <1>1, BlocksWhenFull, Zenon
    <2> QED
      BY <1>1, <2>1, SMT
  <1>3. next = start + BlockBytes /\ (t + 2) * BlockBytes = start + BlockBytes + BlockBytes
    <2>1. BlockBytes * (t + 1) = BlockBytes * t + BlockBytes
      BY <1>1, NextBlock
    <2>2. (t + 2) * BlockBytes = BlockBytes * t + BlockBytes + BlockBytes
      BY <1>1, SMT
    <2> QED
      BY <2>1, <2>2
  <1> HIDE DEF start, next
  <1>4. ASSUME NEW at \in Nat
        PROVE  /\ at < taken => PaddedByte(taken, at) = Message[at + 1]
               /\ at = taken => PaddedByte(taken, at) = 128
               /\ taken < at /\ at < (t + 2) * BlockBytes - LengthBytes =>
                    PaddedByte(taken, at) = 0
               /\ taken < at /\ at >= (t + 2) * BlockBytes - LengthBytes =>
                    PaddedByte(taken, at) = LengthByte(8 * taken, (t + 2) * BlockBytes - 1 - at)
    <2> DEFINE blocks == t + 2
    <2>1. blocks \in Nat /\ PaddedBlocks(taken) = blocks
      BY <1>2
    <2> HIDE DEF blocks
    <2>2. /\ at < taken => PaddedByte(taken, at) = Message[at + 1]
          /\ at = taken => PaddedByte(taken, at) = 128
          /\ taken < at /\ at < blocks * BlockBytes - LengthBytes => PaddedByte(taken, at) = 0
          /\ taken < at /\ at >= blocks * BlockBytes - LengthBytes =>
               PaddedByte(taken, at) = LengthByte(8 * taken, blocks * BlockBytes - 1 - at)
      BY <1>1, <1>4, <2>1, PaddedByteCases
    <2> QED
      BY <2>2 DEF blocks
  <1>5. start + i \in Nat /\ next + i \in Nat
    BY <1>1, <1>3, SMT
  <1>6. Marked[i] = PaddedByte(taken, start + i)
    <2>1. CASE i < datalen
      <3>1. Marked[i] = data[i] /\ data[i] = Message[start + i + 1]
        BY <1>1, <2>1, SMT DEF Marked
      <3>2. start + i < taken
        BY <1>1, <2>1, SMT
      <3> QED
        BY <1>4, <1>5, <3>1, <3>2, Zenon
    <2>2. CASE i = datalen
      <3>1. Marked[i] = 128 /\ start + i = taken
        BY <1>1, <2>2, SMT DEF Marked
      <3> QED
        BY <1>4, <1>5, <3>1, Zenon
    <2>3. CASE datalen < i
      <3>1. Marked[i] = 0
        BY <1>1, <2>3, SMT DEF Marked
      <3>2. taken < start + i /\ start + i < (t + 2) * BlockBytes - LengthBytes
        BY <1>1, <1>3, <2>3, SMT
      <3> QED
        BY <1>4, <1>5, <3>1, <3>2, Zenon
    <2> QED
      BY <1>1, <2>1, <2>2, <2>3, SMT
  <1>7. taken < next + i
    BY <1>1, <1>3, SMT
  <1>8. WithLength(Zeros, bitlen')[i] = PaddedByte(taken, next + i)
    <2>1. CASE i < Room
      <3>1. WithLength(Zeros, bitlen')[i] = 0
        BY <2>1 DEF WithLength, Zeros
      <3>2. next + i < (t + 2) * BlockBytes - LengthBytes
        BY <1>1, <1>3, <2>1, SMT DEF Room
      <3> QED
        BY <1>4, <1>5, <1>7, <3>1, <3>2, Zenon
    <2>2. CASE ~(i < Room)
      <3>1. WithLength(Zeros, bitlen')[i] = LengthByte(8 * taken, BlockBytes - 1 - i)
        BY <1>1, <2>2 DEF WithLength
      <3>2. next + i >= (t + 2) * BlockBytes - LengthBytes
        BY <1>1, <1>3, <2>2, SMT DEF Room
      <3>3. (t + 2) * BlockBytes - 1 - (next + i) = BlockBytes - 1 - i
        BY <1>1, <1>3, SMT
      <3> QED
        BY <1>4, <1>5, <1>7, <3>1, <3>2, <3>3, Zenon
    <2> QED
      BY <2>1, <2>2
  <1> QED
    BY <1>2, <1>6, <1>8 DEF start, next

(* sha256_final() in either case.                                          *)
LEMMA FinalPads ==
  ASSUME IInv, sha256_final
  PROVE  DigestOfPaddedMessage'
  <1> DEFINE t == Len(transformed)
             Blocks == [0..(BlockBytes - 1) -> Byte]
  <1>1. transformed \in Seq(Blocks) /\ Marked \in Blocks
    BY MarkedType DEF IInv, ShaTypeOK
  <1>2. data' \in Blocks
    BY Finishes DEF IInv, ShaTypeOK
  <1>3. /\ t \in Nat /\ taken' = taken /\ DOMAIN transformed = 1..t
        /\ \A b \in 1..t : \A i \in 0..(BlockBytes - 1) :
             transformed[b][i] = PaddedByte(taken, BlockBytes * (b - 1) + i)
    BY AtFinal
  <1>4. (t + 1) - 1 = t /\ (t + 2) - 1 = t + 1
    BY <1>3, SMT
  <1>5. CASE Fits
    <2>1. /\ Len(transformed') = t + 1 /\ DOMAIN transformed' = 1..(t + 1)
          /\ \A b \in 1..t : transformed'[b] = transformed[b]
          /\ transformed'[t + 1] = data'
      <3> HIDE DEF Blocks
      <3> QED
        BY <1>1, <1>2, <1>5, SMT DEF sha256_final, sha256_transform
    <2>2. data' = WithLength(Marked, bitlen')
      BY <1>5 DEF sha256_final
    <2>3. PaddedBlocks(taken) = t + 1
      <3>1. 0 \in 0..(BlockBytes - 1)
        BY ShaAssumption, SMT
      <3> QED
        BY <1>5, <3>1, LastBlockFits
    <2>4. ASSUME NEW b \in DOMAIN transformed', NEW i \in 0..(BlockBytes - 1)
          PROVE  transformed'[b][i] = PaddedByte(taken, BlockBytes * (b - 1) + i)
      <3>1. CASE b = t + 1
        <4>1. data'[i] = PaddedByte(taken, BlockBytes * t + i)
          BY <1>5, <2>2, LastBlockFits
        <4> HIDE DEF t
        <4> QED
          BY <3>1, <4>1, <2>1, <1>4, Zenon
      <3>2. CASE b \in 1..t
        BY <3>2, <2>1, <1>3, Zenon
      <3>3. b = t + 1 \/ b \in 1..t
        BY <2>1, <1>3, SMT
      <3> QED
        BY <3>1, <3>2, <3>3
    <2> QED
      BY <2>1, <2>3, <2>4, <1>3 DEF DigestOfPaddedMessage
  <1>6. CASE ~Fits
    <2>1. /\ Len(transformed') = t + 2 /\ DOMAIN transformed' = 1..(t + 2)
          /\ \A b \in 1..t : transformed'[b] = transformed[b]
          /\ transformed'[t + 1] = Marked
          /\ transformed'[t + 2] = data'
      <3>1. transformed' = Append(Append(transformed, Marked), data')
        BY <1>6 DEF sha256_final, sha256_transform
      <3> HIDE DEF Blocks
      <3>2. /\ Append(transformed, Marked) \in Seq(Blocks)
            /\ Len(Append(transformed, Marked)) = t + 1
            /\ \A b \in 1..t : Append(transformed, Marked)[b] = transformed[b]
            /\ Append(transformed, Marked)[t + 1] = Marked
        BY <1>1, SMT
      <3> QED
        BY <1>1, <1>2, <3>1, <3>2, SMT
    <2>2. data' = WithLength(Zeros, bitlen')
      BY <1>6 DEF sha256_final
    <2>3. PaddedBlocks(taken) = t + 2
      <3>1. 0 \in 0..(BlockBytes - 1)
        BY ShaAssumption, SMT
      <3> QED
        BY <1>6, <3>1, LastBlocksFull
    <2>4. ASSUME NEW b \in DOMAIN transformed', NEW i \in 0..(BlockBytes - 1)
          PROVE  transformed'[b][i] = PaddedByte(taken, BlockBytes * (b - 1) + i)
      <3>1. /\ Marked[i] = PaddedByte(taken, BlockBytes * t + i)
            /\ data'[i] = PaddedByte(taken, BlockBytes * (t + 1) + i)
        BY <1>6, <2>2, LastBlocksFull
      <3>2. b = t + 2 \/ b = t + 1 \/ b \in 1..t
        BY <2>1, <1>3, SMT
      <3> HIDE DEF t
      <3>3. CASE b = t + 2
        BY <3>1, <3>3, <2>1, <1>4, Zenon
      <3>4. CASE b = t + 1
        BY <3>1, <3>4, <2>1, <1>4, Zenon
      <3>5. CASE b \in 1..t
        BY <3>5, <2>1, <1>3, Zenon
      <3> QED
        BY <3>2, <3>3, <3>4, <3>5
    <2> QED
      BY <2>1, <2>3, <2>4, <1>3 DEF DigestOfPaddedMessage
  <1> QED
    BY <1>5, <1>6

(* Nothing more happens to a finished context.                             *)
FInv == IInv /\ (finished => left = 0) /\ DigestOfPaddedMessage

(* Every step keeps it.                                                    *)
LEMMA StepFInv == FInv /\ [ShaNext]_shaVars => FInv'
  <1> SUFFICES ASSUME FInv, [ShaNext]_shaVars
               PROVE  FInv'
    OBVIOUS
  <1>1. IInv'
    BY StepIInv DEF FInv
  <1>2. ASSUME NEW len \in UpdateLengths, sha256_update(len)
        PROVE  FInv'
    BY <1>1, <1>2 DEF sha256_update, FInv, DigestOfPaddedMessage
  <1>3. CASE UpdateByte
    <2>1. ~finished
      BY <1>3, SMT DEF UpdateByte, FInv
    <2> QED
      BY <1>1, <1>3, <2>1 DEF UpdateByte, FInv, DigestOfPaddedMessage
  <1>4. CASE sha256_final
    <2>1. DigestOfPaddedMessage'
      BY <1>4, FinalPads DEF FInv
    <2> QED
      BY <1>1, <1>4, <2>1 DEF sha256_final, FInv
  <1>5. CASE UNCHANGED shaVars
    BY <1>1, <1>5 DEF shaVars, ctxVars, FInv, DigestOfPaddedMessage
  <1> QED
    BY <1>2, <1>3, <1>4, <1>5 DEF ShaNext

(* The blocks behind a digest are those of the padded message, also where  *)
(* the length needs a block of its own (sha256.c:114-144).                 *)
THEOREM DigestOfPaddedMessageHolds == ShaSpec => []DigestOfPaddedMessage
  <1>1. ShaInit => FInv
    BY InitIInv DEF ShaInit, FInv, DigestOfPaddedMessage
  <1>2. FInv => DigestOfPaddedMessage
    BY DEF FInv
  <1> QED
    BY <1>1, <1>2, StepFInv, PTL DEF ShaSpec

-----------------------------------------------------------------------------
(* What uECC_generate_random_int() returns is in 1..top-1, and so is the   *)
(* mask that stands in for it where there is no generator.                 *)
LEMMA TopFacts ==
  ASSUME NEW c \in Curves, NEW top \in {c.p, c.n}
  PROVE  /\ top \in 1..(BaseTo(c.num_words) - 1)
         /\ ToWords(top, c) \in VlisOf(c) /\ Value(ToWords(top, c)) = top
<1>1. /\ c.p \in Nat \ {0} /\ c.p < BaseTo(c.num_words)
      /\ c.n \in Nat \ {0} /\ c.n < BaseTo(c.num_words) /\ BaseTo(c.num_words) \in Nat
  BY CurveFacts
<1>2. top \in 1..(BaseTo(c.num_words) - 1)
  BY <1>1
<1>3. top \in 0..(BaseTo(c.num_words) - 1) /\ top \in Int
  BY <1>1, <1>2
<1> QED BY <1>2, <1>3, InWordsExact

(* A number masked to the bits of top fits in the words of the curve.      *)
LEMMA MaskedFits ==
  ASSUME NEW c \in Curves, NEW top \in {c.p, c.n}, NEW raw \in Nat
  PROVE  raw % Pow2[vli_numBits(ToWords(top, c))] \in 0..(BaseTo(c.num_words) - 1)
<1> DEFINE nw == c.num_words
           v == ToWords(top, c)
           bits == vli_numBits(v)
           digits == vli_numDigits(v)
           all == nw * WordBits
<1>1. nw \in Nat /\ WordBits \in Nat /\ BaseTo(nw) = Pow2[all]
  BY CurveFacts, BaseFacts
<1>2. v \in Vlis(nw) /\ 0 < Value(v)
  <2>1. v \in VlisOf(c) /\ Value(v) = top /\ top \in 1..(BaseTo(nw) - 1)
    BY TopFacts
  <2>2. BaseTo(nw) \in Nat
    BY CurveFacts
  <2> QED BY <2>1, <2>2 DEF VlisOf
<1>3. digits \in 1..nw /\ bits \in Nat /\ bits <= digits * WordBits
  BY <1>1, <1>2, NumBitsExact
<1> HIDE DEF nw, v, bits, digits
<1>4. digits * WordBits <= all /\ digits * WordBits \in Nat /\ all \in Nat
  <2> DEFINE m == nw - digits
  <2>1. m \in Nat /\ nw = digits + m
    BY <1>1, <1>3
  <2> HIDE DEF m
  <2>2. all = digits * WordBits + m * WordBits
    <3>1. \A i, j, w \in Nat : (i + j) * w = i * w + j * w
      OBVIOUS
    <3>2. (digits + m) * WordBits = digits * WordBits + m * WordBits
      BY <1>1, <1>3, <2>1, <3>1
    <3> QED BY <2>1, <3>2
  <2>3. m * WordBits \in Nat /\ digits * WordBits \in Nat
    BY <1>1, <1>3, <2>1
  <2> HIDE DEF all
  <2> QED BY <2>2, <2>3
<1> HIDE DEF all
<1>5. Pow2[bits] <= Pow2[all] /\ Pow2[bits] \in Nat \ {0} /\ Pow2[all] \in Nat \ {0}
  <2>1. Pow2[bits] \in Nat \ {0} /\ Pow2[all] \in Nat \ {0}
    BY <1>3, <1>4, Pow2Defined
  <2>2. bits <= all
    BY <1>3, <1>4
  <2>3. CASE bits = all
    BY <2>1, <2>3
  <2>4. CASE bits < all
    <3>1. 2 * Pow2[bits] <= Pow2[all]
      BY <1>3, <1>4, <2>4, Pow2Less
    <3> QED BY <2>1, <3>1
  <2> QED BY <1>3, <1>4, <2>1, <2>2, <2>3, <2>4
<1>6. raw % Pow2[bits] \in 0..(Pow2[bits] - 1)
  <2>1. raw \in Int
    OBVIOUS
  <2> QED BY <1>5, <2>1, Division
<1> QED BY <1>1, <1>5, <1>6 DEF bits, v, nw

(* An accepted draw is in 1..top-1, and its words stand for it.            *)
LEMMA DrawnExact ==
  ASSUME curve \in Curves, drawing \in DOMAIN Draws, NEW x \in Drawn
  PROVE  /\ x \in 1..(Top - 1) /\ x \in 0..(BaseTo(curve.num_words) - 1)
         /\ InWords(x) \in VlisOf(curve) /\ Value(InWords(x)) = x
<1>1. Top \in {curve.p, curve.n}
  BY DEF Top
<1>2. PICK raw \in Draws[drawing] : x = Masked(raw) /\ Accepted(x)
  BY DEF Drawn, Candidates
<1>3. raw \in Nat
  BY CallerAssumption
<1>4. x \in 0..(BaseTo(curve.num_words) - 1) /\ BaseTo(curve.num_words) \in Nat
  BY <1>1, <1>2, <1>3, MaskedFits, CurveFacts DEF Masked, InWords
<1>5. x \in Int
  BY <1>4
<1>6. InWords(x) \in VlisOf(curve) /\ Value(InWords(x)) = x
  BY <1>4, <1>5, InWordsExact DEF InWords
<1>7. /\ InWords(Top) \in VlisOf(curve) /\ Value(InWords(Top)) = Top
      /\ Top \in 1..(BaseTo(curve.num_words) - 1)
  BY <1>1, TopFacts DEF InWords
<1>8. x # 0 /\ x < Top
  <2>1. curve.num_words \in Nat /\ ~vli_isZero(InWords(x)) /\ vli_cmp(InWords(Top), InWords(x)) = 1
    BY <1>2, CurveFacts DEF Accepted
  <2> QED BY <1>6, <1>7, <2>1, ZeroExact, CmpExact DEF VlisOf
<1>9. x \in 1..(Top - 1)
  BY <1>4, <1>7, <1>8
<1> QED BY <1>4, <1>6, <1>9

(* And a factor to hide the nonce behind is in 1..n-1.                     *)
LEMMA MasksExact ==
  ASSUME curve \in Curves, drawing \in {"Z", "blind"}, NEW z \in Masks
  PROVE  /\ z \in Int
         /\ drawing = "blind" =>
              InWords(z) \in VlisOf(curve) /\ Value(InWords(z)) \in 1..(curve.n - 1)
<1>1. /\ drawing \in DOMAIN Draws /\ curve.n \in Nat /\ 2 < curve.n
      /\ curve.n < BaseTo(curve.num_words) /\ BaseTo(curve.num_words) \in Nat
  BY CallerAssumption, CurveFacts
<1>2. CASE g_rng
  <2>1. z \in Drawn
    BY <1>2 DEF Masks
  <2>2. /\ z \in 1..(Top - 1) /\ z \in 0..(BaseTo(curve.num_words) - 1)
        /\ InWords(z) \in VlisOf(curve) /\ Value(InWords(z)) = z
    BY <1>1, <2>1, DrawnExact
  <2>3. drawing = "blind" => Top = curve.n
    BY DEF Top
  <2> QED BY <2>2, <2>3, <1>1
<1>3. CASE ~g_rng
  <2>1. z = 1
    BY <1>3 DEF Masks
  <2>2. 1 \in 0..(BaseTo(curve.num_words) - 1) /\ 1 \in Int /\ 1 \in 1..(curve.n - 1)
    BY <1>1
  <2>3. InWords(1) \in VlisOf(curve) /\ Value(InWords(1)) = 1
    BY <2>2, InWordsExact DEF InWords
  <2> QED BY <2>1, <2>2, <2>3
<1> QED BY <1>2, <1>3

-----------------------------------------------------------------------------
(* The invariant.  Control: what each function waits for, and what it may  *)
(* only be called after.                                                   *)
Waits ==
  [none |-> {"none"}, make_key |-> {"key", "Z"}, compute_public_key |-> {"Z"},
   shared_secret |-> {"Z"}, sign |-> {"nonce", "Z", "blind"},
   sign_deterministic |-> {"T", "Z", "blind"}, sign_with_k |-> {"Z", "blind"}]
Control ==
  /\ drawing \in Waits[op]
  /\ op \in {"make_key", "compute_public_key"} => result.of = "none"
  /\ op \in Signing \cup {"shared_secret"} => HasKey

(* A private key is in range before its public key is computed, and is     *)
(* not touched once it has one.                                            *)
KeyKept ==
  /\ op \in {"make_key", "compute_public_key"} /\ drawing = "Z" => d \in 1..(curve.n - 1)
  /\ Q # Infinity => d \in 1..(curve.n - 1) /\ result.of # "none"
  /\ HasKey => Q # Infinity

(* A nonce is in range from when there is one until it is done with.       *)
NonceKept ==
  /\ k # NoNonce => k \in VlisOf(curve) /\ Value(k) \in 1..(curve.n - 1)
  /\ op \in Signing => arg \in Hashes /\ (drawing \in {"Z", "blind"} => k # NoNonce)

EcInv == EcTypeOK /\ Control /\ KeyKept /\ NonceKept /\ SignatureEquation

(* SignatureEquation as it reads of a result, a key and a curve.           *)
Signed(res, key, c) ==
  res.of \in Signing /\ res.ok =>
    /\ res.nonce \in 1..(c.n - 1)
    /\ Value(res.s) < c.n
    /\ (Value(res.s) * res.nonce - Value(bits2int(res.hash, c)) - Value(res.r) * key) % c.n = 0

(* The two are the same.                                                   *)
LEMMA EquationSigned ==
  /\ SignatureEquation <=> Signed(result, d, curve)
  /\ SignatureEquation' <=> Signed(result', d', curve')
BY DEF SignatureEquation, Signed

(* Nothing that the equation is about has changed, or there is no          *)
(* signature for it to be about.                                           *)
LEMMA EquationKept ==
  ASSUME SignatureEquation, UNCHANGED <<result, curve>>, d' = d \/ result.of = "none"
  PROVE  SignatureEquation'
BY EquationSigned DEF Signed, Signing

-----------------------------------------------------------------------------
(* The initial state, and a step that leaves these variables alone.        *)
LEMMA InitEcInv == EcInit => EcInv
<1> SUFFICES ASSUME EcInit PROVE EcInv
  OBVIOUS
<1>1. /\ curve \in Curves /\ op = "none" /\ drawing = "none" /\ tries = 0 /\ attempts = 0
      /\ d = 0 /\ Q = Infinity /\ k = NoNonce /\ P = Infinity
      /\ result.of = "none" /\ result.ok = FALSE
  BY DEF EcInit, Returned
<1>2. /\ uECC_RNG_MAX_TRIES \in Nat \ {0} /\ BaseTo(curve.num_words) \in Nat \ {0}
      /\ curve.p \in Nat \ {0}
  BY <1>1, CallerAssumption, CurveFacts
<1>3. EcTypeOK
  <2>1. Infinity \in Points(curve)
    BY <1>2 DEF Points, Infinity
  <2>2. 0 \in 0..(uECC_RNG_MAX_TRIES - 1) /\ 0 \in 0..(BaseTo(curve.num_words) - 1)
    BY <1>2
  <2> QED BY <1>1, <2>1, <2>2, CallerAssumption DEF EcTypeOK
<1>4. Control /\ KeyKept /\ NonceKept
  BY <1>1 DEF Control, Waits, KeyKept, NonceKept, HasKey, Signing
<1>5. SignatureEquation
  BY <1>1, EquationSigned DEF Signed, Signing
<1> QED BY <1>3, <1>4, <1>5 DEF EcInv

(* Nothing has changed.                                                    *)
LEMMA StutterEcInv ==
  ASSUME EcInv, UNCHANGED ecVars
  PROVE  EcInv'
<1>1. SignatureEquation'
  BY EquationKept DEF EcInv, ecVars
<1> QED
  BY <1>1 DEF EcInv, ecVars, EcTypeOK, Control, KeyKept, NonceKept, HasKey

(* A function that returns.                                                *)
LEMMA ReturnsInv ==
  ASSUME EcInv, NEW res, Returns(res), res.ok \in BOOLEAN,
         d' \in 0..(BaseTo(curve.num_words) - 1), Q' \in Points(curve),
         Q' # Infinity => d' \in 1..(curve.n - 1) /\ res.of # "none",
         res.ok /\ res.of \in {"make_key", "compute_public_key"} => Q' # Infinity,
         Signed(res, d', curve)
  PROVE  EcInv'
<1>1. /\ op' = "none" /\ drawing' = "none" /\ tries' = 0 /\ attempts' = 0
      /\ k' = NoNonce /\ P' = Infinity /\ result' = res /\ curve' = curve
  BY DEF Returns
<1>2. /\ curve \in Curves /\ uECC_RNG_MAX_TRIES \in Nat \ {0} /\ curve.p \in Nat \ {0}
  BY CallerAssumption, CurveFacts DEF EcInv, EcTypeOK
<1>3. EcTypeOK'
  <2>1. Infinity \in Points(curve)
    BY <1>2 DEF Points, Infinity
  <2>2. 0 \in 0..(uECC_RNG_MAX_TRIES - 1)
    BY <1>2
  <2> QED BY <1>1, <1>2, <2>1, <2>2, CallerAssumption DEF EcTypeOK
<1>4. Control' /\ KeyKept' /\ NonceKept'
  BY <1>1 DEF Control, Waits, KeyKept, NonceKept, HasKey, Signing
<1>5. SignatureEquation'
  BY <1>1, EquationSigned
<1> QED BY <1>3, <1>4, <1>5 DEF EcInv

(* An attempt that fails is followed by another or the function returns,   *)
(* and either way nothing is left of the nonce.                            *)
LEMMA AttemptFailsInv ==
  ASSUME EcInv, op # "none", AttemptFails
  PROVE  EcInv'
<1>1. UNCHANGED <<d, Q>>
  BY DEF AttemptFails
<1>2. /\ curve \in Curves /\ d \in 0..(BaseTo(curve.num_words) - 1) /\ Q \in Points(curve)
      /\ curve.p \in Nat \ {0} /\ curve.n \in Nat \ {0}
      /\ attempts \in 0..(uECC_RNG_MAX_TRIES - 1) /\ uECC_RNG_MAX_TRIES \in Nat \ {0}
  BY CurveFacts, CallerAssumption DEF EcInv, EcTypeOK
<1>3. CASE op \in DOMAIN Looping /\ attempts + 1 < uECC_RNG_MAX_TRIES
  <2>1. /\ Goes(Looping[op]) /\ attempts' = attempts + 1
        /\ k' = NoNonce /\ P' = Infinity
    BY <1>3 DEF AttemptFails
  <2>2. op \in {"make_key", "sign", "sign_deterministic"}
    BY <1>3 DEF Looping
  <2>3. /\ drawing' = Looping[op] /\ tries' = 0
        /\ curve' = curve /\ op' = op /\ arg' = arg /\ result' = result
    BY <2>1 DEF Goes
  <2>4. /\ op = "make_key" => drawing' = "key"
        /\ op = "sign" => drawing' = "nonce"
        /\ op = "sign_deterministic" => drawing' = "T"
    BY <2>3 DEF Looping
  <2>5. EcTypeOK'
    <3>1. drawing' \in DOMAIN Draws \cup {"none", "T"}
      BY <2>2, <2>4, CallerAssumption
    <3>2. attempts' \in 0..(uECC_RNG_MAX_TRIES - 1) /\ tries' \in 0..(uECC_RNG_MAX_TRIES - 1)
      BY <1>2, <1>3, <2>1, <2>3
    <3>3. P' \in Points(curve)
      BY <1>2, <2>1 DEF Points, Infinity
    <3> QED BY <1>1, <1>2, <2>1, <2>3, <3>1, <3>2, <3>3 DEF EcInv, EcTypeOK
  <2>6. Control'
    BY <2>2, <2>3, <2>4 DEF EcInv, Control, Waits, HasKey, Signing
  <2>7. KeyKept' /\ NonceKept'
    BY <1>1, <2>1, <2>2, <2>3, <2>4 DEF EcInv, KeyKept, NonceKept, HasKey, Signing
  <2>8. SignatureEquation'
    BY <1>1, <2>3, EquationKept DEF EcInv
  <2> QED BY <2>5, <2>6, <2>7, <2>8 DEF EcInv
<1>4. CASE ~(op \in DOMAIN Looping /\ attempts + 1 < uECC_RNG_MAX_TRIES)
  <2> DEFINE res == Returned(op, FALSE)
  <2>1. Returns(res)
    BY <1>4 DEF AttemptFails
  <2>2. res.of = op /\ res.ok = FALSE
    BY DEF Returned
  <2>3. Signed(res, d', curve)
    BY <2>2 DEF Signed
  <2>4. Q' # Infinity => d' \in 1..(curve.n - 1)
    BY <1>1 DEF EcInv, KeyKept
  <2> HIDE DEF res
  <2> QED BY <1>1, <1>2, <2>1, <2>2, <2>3, <2>4, ReturnsInv
<1> QED BY <1>3, <1>4

-----------------------------------------------------------------------------
(* One lemma per step.  DrawsAgain, and the key of uECC_make_key().        *)
LEMMA DrawsAgainInv == ASSUME EcInv, DrawsAgain PROVE EcInv'
<1>1. /\ tries' = tries + 1 /\ tries + 1 < uECC_RNG_MAX_TRIES
      /\ UNCHANGED <<curve, g_rng, op, drawing, attempts, d, Q, k, P, arg, result>>
  BY DEF DrawsAgain
<1>2. tries' \in 0..(uECC_RNG_MAX_TRIES - 1)
  BY <1>1, CallerAssumption DEF EcInv, EcTypeOK
<1>3. SignatureEquation'
  BY <1>1, EquationKept DEF EcInv
<1> QED
  BY <1>1, <1>2, <1>3 DEF EcInv, EcTypeOK, Control, KeyKept, NonceKept, HasKey

(* Which function waits for a draw.                                        *)
LEMMA WhoWaits ==
  ASSUME EcInv
  PROVE  /\ op = "none" <=> drawing = "none"
         /\ drawing = "key" => op = "make_key"
         /\ drawing = "nonce" => op = "sign"
         /\ drawing = "T" => op = "sign_deterministic"
         /\ drawing = "blind" => op \in Signing
         /\ op \in Signing => drawing \in {"nonce", "T", "Z", "blind"}
BY DEF EcInv, Control, Waits, EcTypeOK, Signing

(* The private key of uECC_make_key() is drawn.                            *)
LEMMA KeyDrawnInv == ASSUME EcInv, KeyDrawn PROVE EcInv'
<1>1. /\ drawing = "key" /\ op = "make_key" /\ result.of = "none" /\ curve \in Curves
      /\ ~HasKey
  BY WhoWaits DEF EcInv, EcTypeOK, Control, KeyDrawn, HasKey
<1>2. /\ drawing' = "Z" /\ tries' = 0 /\ UNCHANGED <<curve, g_rng, op, arg, result, attempts, Q, k, P>>
      /\ d' \in Drawn
  BY DEF KeyDrawn, Goes
<1>3. Q = Infinity
  BY <1>1 DEF EcInv, KeyKept
<1>4. d' \in 1..(curve.n - 1) /\ d' \in 0..(BaseTo(curve.num_words) - 1)
  <2>1. "key" \in DOMAIN Draws /\ Top = curve.n
    BY <1>1, CallerAssumption DEF Top
  <2> QED BY <1>1, <1>2, <2>1, DrawnExact
<1>5. EcTypeOK'
  BY <1>2, <1>4, CallerAssumption DEF EcInv, EcTypeOK
<1>6. SignatureEquation'
  BY <1>1, <1>2, EquationKept DEF EcInv
<1>7. Control'
  BY <1>1, <1>2 DEF EcInv, Control, Waits, Signing
<1>8. KeyKept' /\ NonceKept'
  BY <1>1, <1>2, <1>3, <1>4 DEF EcInv, KeyKept, NonceKept, HasKey, Signing
<1> QED BY <1>5, <1>6, <1>7, <1>8 DEF EcInv

(* A function that fails, and leaves the keys alone.                       *)
LEMMA RefusesInv ==
  ASSUME EcInv, NEW of, of # "none", Returns(Returned(of, FALSE)), UNCHANGED <<d, Q>>
  PROVE  EcInv'
<1> DEFINE res == Returned(of, FALSE)
<1>1. res.of = of /\ res.ok = FALSE
  BY DEF Returned
<1>2. Signed(res, d', curve)
  BY <1>1 DEF Signed
<1>3. /\ d' \in 0..(BaseTo(curve.num_words) - 1) /\ Q' \in Points(curve)
      /\ Q' # Infinity => d' \in 1..(curve.n - 1)
  BY DEF EcInv, EcTypeOK, KeyKept
<1> HIDE DEF res
<1>4. Returns(res)
  BY DEF res
<1> QED BY <1>1, <1>2, <1>3, <1>4, ReturnsInv

(* Or it is not.                                                           *)
LEMMA KeyNotDrawnInv == ASSUME EcInv, KeyNotDrawn PROVE EcInv'
<1>1. op # "none"
  BY WhoWaits DEF KeyNotDrawn
<1> QED BY <1>1, RefusesInv DEF KeyNotDrawn

(* uECC_compute_public_key().                                              *)
LEMMA compute_public_keyInv ==
  ASSUME EcInv, NEW private \in GivenKeys, compute_public_key(private)
  PROVE  EcInv'
<1>1. /\ op = "none" /\ result.of = "none" /\ d' = private /\ curve \in Curves
      /\ ~HasKey
  BY DEF compute_public_key, HasKey, EcInv, EcTypeOK
<1>2. Q = Infinity /\ Q \in Points(curve)
  BY <1>1 DEF EcInv, EcTypeOK, KeyKept
<1>3. /\ private \in 0..(BaseTo(curve.num_words) - 1) /\ private \in Int
      /\ BaseTo(curve.num_words) \in Nat
  BY <1>1, CallerAssumption, CurveFacts
<1>4. CASE vli_isZero(InWords(private)) \/ vli_cmp(order, InWords(private)) # 1
  <2> DEFINE res == Returned("compute_public_key", FALSE)
  <2>1. Returns(res) /\ Q' = Q
    BY <1>4 DEF compute_public_key
  <2>2. res.of = "compute_public_key" /\ res.ok = FALSE
    BY DEF Returned
  <2>3. Signed(res, d', curve)
    BY <2>2 DEF Signed
  <2> HIDE DEF res
  <2> QED BY <1>1, <1>2, <1>3, <2>1, <2>2, <2>3, ReturnsInv
<1>5. CASE ~(vli_isZero(InWords(private)) \/ vli_cmp(order, InWords(private)) # 1)
  <2>1. /\ op' = "compute_public_key" /\ drawing' = "Z"
        /\ UNCHANGED <<curve, g_rng, tries, attempts, Q, k, P, arg, result>>
    BY <1>5 DEF compute_public_key
  <2>2. private \in 1..(curve.n - 1)
    <3>1. InWords(private) \in VlisOf(curve) /\ Value(InWords(private)) = private
      BY <1>1, <1>3, InWordsExact DEF InWords
    <3>2. order \in VlisOf(curve) /\ Value(order) = curve.n
      BY <1>1, TopFacts DEF order, InWords
    <3>3. curve.num_words \in Nat /\ curve.n \in Nat
      BY <1>1, CurveFacts
    <3>4. private # 0 /\ private < curve.n
      BY <1>5, <3>1, <3>2, <3>3, ZeroExact, CmpExact DEF VlisOf
    <3> QED BY <1>3, <3>3, <3>4
  <2>3. EcTypeOK'
    <3>1. drawing' \in DOMAIN Draws
      BY <2>1, CallerAssumption
    <3> QED BY <1>1, <1>3, <2>1, <3>1 DEF EcInv, EcTypeOK
  <2>4. Control'
    BY <1>1, <2>1 DEF EcInv, Control, Waits, Signing
  <2>5. KeyKept' /\ NonceKept'
    BY <1>1, <1>2, <2>1, <2>2 DEF EcInv, KeyKept, NonceKept, HasKey, Signing
  <2>6. SignatureEquation'
    BY <1>1, <2>1, EquationKept DEF EcInv
  <2> QED BY <2>3, <2>4, <2>5, <2>6 DEF EcInv
<1> QED BY <1>4, <1>5

(* A call that begins by waiting, and has touched nothing else.            *)
LEMMA BeginsInv ==
  ASSUME EcInv, op = "none", drawing' \in Waits[op'], drawing' \in DOMAIN Draws \cup {"T"},
         op' \in {"make_key", "shared_secret", "sign", "sign_deterministic"},
         op' = "make_key" => result.of = "none" /\ drawing' = "key",
         op' # "make_key" => HasKey,
         op' \in Signing => arg' \in Hashes /\ drawing' \notin {"Z", "blind"},
         UNCHANGED <<curve, g_rng, tries, attempts, d, Q, k, P, result>>
  PROVE  EcInv'
<1>1. EcTypeOK'
  BY DEF EcInv, EcTypeOK, Signing
<1>2. Control' /\ KeyKept' /\ NonceKept'
  BY DEF EcInv, Control, KeyKept, NonceKept, HasKey, Signing
<1>3. SignatureEquation'
  BY EquationKept DEF EcInv
<1> QED BY <1>1, <1>2, <1>3 DEF EcInv

(* The call of uECC_make_key().                                            *)
LEMMA make_keyInv == ASSUME EcInv, make_key PROVE EcInv'
<1>1. /\ op = "none" /\ result.of = "none" /\ op' = "make_key" /\ drawing' = "key"
      /\ UNCHANGED <<curve, g_rng, tries, attempts, d, Q, k, P, arg, result>>
  BY DEF make_key
<1>2. "key" \in Waits["make_key"] /\ "key" \in DOMAIN Draws
  BY CallerAssumption DEF Waits
<1> QED BY <1>1, <1>2, BeginsInv DEF Signing

(* The call of uECC_shared_secret().                                       *)
LEMMA shared_secretInv == ASSUME EcInv, NEW private, shared_secret(private) PROVE EcInv'
<1>1. /\ op = "none" /\ HasKey /\ op' = "shared_secret" /\ drawing' = "Z"
      /\ UNCHANGED <<curve, g_rng, tries, attempts, d, Q, k, P, result>>
  BY DEF shared_secret
<1>2. "Z" \in Waits["shared_secret"] /\ "Z" \in DOMAIN Draws
  BY CallerAssumption DEF Waits
<1> QED BY <1>1, <1>2, BeginsInv DEF Signing

(* The calls of uECC_sign() and uECC_sign_deterministic().                 *)
LEMMA signInv ==
  ASSUME EcInv, NEW message_hash \in Hashes, NEW how \in {"sign", "sign_deterministic"},
         sign(how, message_hash)
  PROVE  EcInv'
<1>1. /\ op = "none" /\ HasKey /\ op' = how /\ drawing' = Looping[how] /\ arg' = message_hash
      /\ UNCHANGED <<curve, g_rng, tries, attempts, d, Q, k, P, result>>
  BY DEF sign
<1>2. /\ Looping[how] \in Waits[how] /\ Looping[how] \in DOMAIN Draws \cup {"T"}
      /\ Looping[how] \notin {"Z", "blind"}
  BY CallerAssumption DEF Waits, Looping
<1> QED BY <1>1, <1>2, BeginsInv DEF Signing

-----------------------------------------------------------------------------
(* The public key, for both functions that compute one.                    *)
LEMMA PublicKeyComputedInv == ASSUME EcInv, PublicKeyComputed PROVE EcInv'
<1>1. /\ op \in {"make_key", "compute_public_key"} /\ drawing = "Z" /\ curve \in Curves
      /\ d \in 1..(curve.n - 1) /\ d \in 0..(BaseTo(curve.num_words) - 1)
  BY DEF PublicKeyComputed, EcInv, EcTypeOK, KeyKept
<1>2. PICK z \in Masks :
        LET public == RegularMult(curve.G, InWords(d), z, curve)
        IN IF EccPoint_isZero(public) THEN AttemptFails
           ELSE Q' = public /\ Returns(Returned(op, TRUE)) /\ UNCHANGED d
  BY DEF PublicKeyComputed
<1> DEFINE public == RegularMult(curve.G, InWords(d), z, curve)
           res == Returned(op, TRUE)
<1>3. CASE EccPoint_isZero(public)
  BY <1>1, <1>2, <1>3, AttemptFailsInv
<1>4. CASE ~EccPoint_isZero(public)
  <2>1. Q' = public /\ Returns(res) /\ d' = d
    BY <1>2, <1>4
  <2>2. z \in Int
    BY <1>1, MasksExact
  <2>3. public \in Points(curve) /\ public # Infinity
    <3>1. curve.G \in Ints2
      BY <1>1, CurveFacts DEF Points, Ints2
    <3> QED BY <1>1, <1>4, <2>2, <3>1, RegularMultPoint DEF EccPoint_isZero
  <2>4. res.of = op /\ res.ok = TRUE
    BY DEF Returned
  <2>5. Signed(res, d', curve)
    BY <1>1, <2>4 DEF Signed, Signing
  <2> HIDE DEF public, res
  <2> QED BY <1>1, <2>1, <2>3, <2>4, <2>5, ReturnsInv
<1> QED BY <1>3, <1>4

(* No Z could be drawn for it.                                             *)
LEMMA PublicKeyUnmaskedInv == ASSUME EcInv, PublicKeyUnmasked PROVE EcInv'
BY AttemptFailsInv DEF PublicKeyUnmasked

(* A shared secret.                                                        *)
LEMMA SecretComputedInv == ASSUME EcInv, SecretComputed PROVE EcInv'
<1>1. op = "shared_secret" /\ UNCHANGED <<d, Q>>
  BY DEF SecretComputed
<1>2. PICK z \in Masks :
        LET point == RegularMult(PublicOf(arg), InWords(d), z, curve)
        IN Returns([of |-> op, ok |-> ~EccPoint_isZero(point), with |-> arg, secret |-> point[1]])
  BY DEF SecretComputed
<1> DEFINE point == RegularMult(PublicOf(arg), InWords(d), z, curve)
           ok == ~EccPoint_isZero(point)
           res == [of |-> op, ok |-> ok, with |-> arg, secret |-> point[1]]
<1>3. Returns(res)
  BY <1>2
<1>4. res.of = op /\ res.ok \in BOOLEAN
  OBVIOUS
<1>5. Signed(res, d', curve)
  BY <1>1, <1>4 DEF Signed, Signing
<1>6. /\ d' \in 0..(BaseTo(curve.num_words) - 1) /\ Q' \in Points(curve)
      /\ Q' # Infinity => d' \in 1..(curve.n - 1)
  BY <1>1 DEF EcInv, EcTypeOK, KeyKept
<1> HIDE DEF res
<1> QED BY <1>1, <1>3, <1>4, <1>5, <1>6, ReturnsInv

(* No Z could be drawn for it.                                             *)
LEMMA SecretUnmaskedInv == ASSUME EcInv, SecretUnmasked PROVE EcInv'
BY AttemptFailsInv DEF SecretUnmasked

-----------------------------------------------------------------------------
(* A vli is not mistaken for no nonce.                                     *)
LEMMA VliIsNonce ==
  ASSUME NEW n \in Nat \ {0}, NEW v \in [1..n -> Word]
  PROVE  v # NoNonce
<1>1. Len(v) = n
  BY LenOfVli
<1>2. Len(NoNonce) = 0
  BY DEF NoNonce
<1> QED BY <1>1, <1>2

(* The nonce: k' is in range, and the point comes next.                    *)
LEMMA NonceGoesInv ==
  ASSUME EcInv, op \in Signing, drawing \in {"nonce", "T"},
         Goes("Z"), k' \in VlisOf(curve), Value(k') \in 1..(curve.n - 1),
         UNCHANGED <<attempts, d, Q, P>>
  PROVE  EcInv'
<1>1. drawing' = "Z" /\ tries' = 0 /\ UNCHANGED <<curve, g_rng, op, arg, result>>
  BY DEF Goes
<1>2. k' \in [1..curve.num_words -> Word] /\ k' # NoNonce
  <2>1. curve.num_words \in Nat \ {0}
    BY CurveFacts DEF EcInv, EcTypeOK
  <2>2. k' \in [1..curve.num_words -> Word]
    BY DEF VlisOf, Vlis
  <2> QED BY <2>1, <2>2, VliIsNonce
<1>3. EcTypeOK'
  <2>1. drawing' \in DOMAIN Draws /\ 0 \in 0..(uECC_RNG_MAX_TRIES - 1)
    BY <1>1, CallerAssumption
  <2> QED BY <1>1, <1>2, <2>1 DEF EcInv, EcTypeOK
<1>4. Control'
  BY <1>1 DEF EcInv, Control, Waits, HasKey, Signing
<1>5. KeyKept' /\ NonceKept'
  <2>1. KeyKept'
    BY <1>1 DEF EcInv, KeyKept, HasKey, Signing
  <2>2. Value(k)' = Value(k')
    OBVIOUS
  <2>3. NonceKept'
    BY <1>1, <1>2, <2>2 DEF EcInv, NonceKept
  <2> QED BY <2>1, <2>3
<1>6. SignatureEquation'
  BY <1>1, EquationKept DEF EcInv
<1> QED BY <1>3, <1>4, <1>5, <1>6 DEF EcInv

(* The nonce of uECC_sign().                                               *)
LEMMA NonceDrawnInv == ASSUME EcInv, NonceDrawn PROVE EcInv'
<1>1. /\ drawing = "nonce" /\ op \in Signing /\ curve \in Curves /\ Top = curve.n
      /\ "nonce" \in DOMAIN Draws
  BY WhoWaits, CallerAssumption DEF NonceDrawn, Signing, EcInv, EcTypeOK, Top
<1>2. PICK v \in Drawn : k' = InWords(v)
  BY DEF NonceDrawn
<1>3. InWords(v) \in VlisOf(curve) /\ Value(InWords(v)) \in 1..(curve.n - 1)
  BY <1>1, DrawnExact
<1> QED BY <1>1, <1>2, <1>3, NonceGoesInv DEF NonceDrawn

(* It could not be drawn.                                                  *)
LEMMA NonceNotDrawnInv == ASSUME EcInv, NonceNotDrawn PROVE EcInv'
<1>1. op # "none"
  BY WhoWaits DEF NonceNotDrawn
<1> QED BY <1>1, RefusesInv DEF NonceNotDrawn

(* The nonce of uECC_sign_deterministic().                                 *)
LEMMA NonceFromChainInv == ASSUME EcInv, NonceFromChain PROVE EcInv'
<1>1. drawing = "T" /\ op \in Signing /\ op # "none" /\ curve \in Curves
  BY WhoWaits DEF NonceFromChain, Signing, EcInv, EcTypeOK
<1>2. PICK raw \in Draws["nonce"] :
        LET T == InWords(raw % Pow2[curve.num_n_bits])
        IN IF InRange(T, curve)
           THEN k' = T /\ Goes("Z") /\ UNCHANGED <<attempts, d, Q, P>>
           ELSE AttemptFails
  BY DEF NonceFromChain
<1> DEFINE T == InWords(raw % Pow2[curve.num_n_bits])
<1>3. T \in VlisOf(curve)
  <2>1. raw \in Int /\ Pow2[curve.num_n_bits] \in Nat \ {0}
    <3>1. raw \in Nat
      BY CallerAssumption
    <3>2. curve.num_n_bits \in Nat
      BY <1>1, CurveFacts
    <3> QED BY <3>1, <3>2, Pow2Defined
  <2> DEFINE e == Pow2[curve.num_n_bits]
  <2> HIDE DEF e
  <2>2. raw % e \in Int
    BY <2>1, Division DEF e
  <2> QED BY <1>1, <2>2, InWordsExact DEF InWords, e
<1> HIDE DEF T
<1>4. CASE InRange(T, curve)
  <2>1. Value(T) \in 1..(curve.n - 1)
    BY <1>1, <1>3, <1>4, InRangeExact
  <2>2. k' = T /\ Goes("Z") /\ UNCHANGED <<attempts, d, Q, P>>
    BY <1>2, <1>4 DEF T
  <2> QED BY <1>1, <1>3, <2>1, <2>2, NonceGoesInv
<1>5. CASE ~InRange(T, curve)
  <2>1. AttemptFails
    BY <1>2, <1>5 DEF T
  <2> QED BY <1>1, <2>1, AttemptFailsInv
<1> QED BY <1>4, <1>5

(* The nonce that uECC_sign_with_k() is given.                             *)
LEMMA sign_with_kInv ==
  ASSUME EcInv, NEW message_hash \in Hashes, NEW given \in GivenNonces,
         sign_with_k(message_hash, given)
  PROVE  EcInv'
<1> DEFINE k2 == bits2int(nativeToBytes(n_bytes(curve), InWords(given)), curve)
<1>1. op = "none" /\ HasKey /\ curve \in Curves
  BY DEF sign_with_k, EcInv, EcTypeOK
<1>2. k2 \in VlisOf(curve)
  <2>1. given \in Int
    <3>1. given \in 0..(BaseTo(curve.num_words) - 1)
      BY <1>1, CallerAssumption
    <3> QED BY <3>1
  <2>2. InWords(given) \in VlisOf(curve)
    BY <1>1, <2>1, InWordsExact DEF InWords
  <2> QED BY <1>1, <2>2, NativeToBytesTyped, Bits2intTyped
<1>3. \/ /\ InRange(k2, curve) /\ op' = "sign_with_k" /\ drawing' = "Z" /\ k' = k2
         /\ arg' = message_hash
         /\ UNCHANGED <<curve, g_rng, tries, attempts, d, Q, P, result>>
      \/ Returns(Returned("sign_with_k", FALSE)) /\ UNCHANGED <<d, Q>>
  BY DEF sign_with_k
<1> HIDE DEF k2
<1>4. CASE /\ InRange(k2, curve) /\ op' = "sign_with_k" /\ drawing' = "Z" /\ k' = k2
           /\ arg' = message_hash
           /\ UNCHANGED <<curve, g_rng, tries, attempts, d, Q, P, result>>
  <2>1. Value(k2) \in 1..(curve.n - 1)
    BY <1>1, <1>2, <1>4, InRangeExact
  <2>2. k' \in [1..curve.num_words -> Word] /\ k' # NoNonce
    <3>1. curve.num_words \in Nat \ {0}
      BY <1>1, CurveFacts
    <3>2. k' \in [1..curve.num_words -> Word]
      BY <1>2, <1>4 DEF VlisOf, Vlis
    <3> QED BY <3>1, <3>2, VliIsNonce
  <2>3. EcTypeOK'
    <3>1. drawing' \in DOMAIN Draws
      BY <1>4, CallerAssumption
    <3> QED BY <1>4, <2>2, <3>1 DEF EcInv, EcTypeOK, Signing
  <2>4. Control'
    BY <1>1, <1>4 DEF EcInv, Control, Waits, HasKey, Signing
  <2>5. KeyKept'
    BY <1>1, <1>4 DEF EcInv, KeyKept, HasKey, Signing
  <2>6. NonceKept'
    <3>1. Value(k)' = Value(k')
      OBVIOUS
    <3> QED BY <1>2, <1>4, <2>1, <2>2, <3>1 DEF NonceKept
  <2>7. SignatureEquation'
    BY <1>4, EquationKept DEF EcInv
  <2> QED BY <2>3, <2>4, <2>5, <2>6, <2>7 DEF EcInv
<1>5. CASE Returns(Returned("sign_with_k", FALSE)) /\ UNCHANGED <<d, Q>>
  BY <1>5, RefusesInv
<1> QED BY <1>3, <1>4, <1>5

-----------------------------------------------------------------------------
(* uECC_sign_with_k_internal().                                            *)
LEMMA PointComputedInv == ASSUME EcInv, PointComputed PROVE EcInv'
<1>1. /\ op \in Signing /\ op # "none" /\ drawing = "Z" /\ curve \in Curves
      /\ k # NoNonce
  BY DEF PointComputed, Signing, EcInv, EcTypeOK, NonceKept
<1>2. PICK z \in Masks :
        LET point == RegularMult(curve.G, k, z, curve)
        IN IF point[1] = 0 THEN AttemptFails
           ELSE P' = point /\ Goes("blind") /\ UNCHANGED <<attempts, d, Q, k>>
  BY DEF PointComputed
<1> DEFINE point == RegularMult(curve.G, k, z, curve)
<1>3. point \in Points(curve)
  <2>1. z \in Int /\ curve.G \in Ints2
    BY <1>1, MasksExact, CurveFacts DEF Points, Ints2
  <2> QED BY <1>1, <2>1, RegularMultPoint
<1> HIDE DEF point
<1>4. CASE point[1] = 0
  BY <1>1, <1>2, <1>4, AttemptFailsInv DEF point
<1>5. CASE point[1] # 0
  <2>1. P' = point /\ Goes("blind") /\ UNCHANGED <<attempts, d, Q, k>>
    BY <1>2, <1>5 DEF point
  <2>2. drawing' = "blind" /\ tries' = 0 /\ UNCHANGED <<curve, g_rng, op, arg, result>>
    BY <2>1 DEF Goes
  <2>3. EcTypeOK'
    <3>1. drawing' \in DOMAIN Draws /\ 0 \in 0..(uECC_RNG_MAX_TRIES - 1)
      BY <2>2, CallerAssumption
    <3> QED BY <1>3, <2>1, <2>2, <3>1 DEF EcInv, EcTypeOK
  <2>4. Control'
    BY <1>1, <2>2 DEF EcInv, Control, Waits, HasKey, Signing
  <2>5. KeyKept' /\ NonceKept'
    BY <1>1, <2>1, <2>2 DEF EcInv, KeyKept, NonceKept, HasKey, Signing
  <2>6. SignatureEquation'
    BY <2>1, <2>2, EquationKept DEF EcInv
  <2> QED BY <2>3, <2>4, <2>5, <2>6 DEF EcInv
<1> QED BY <1>4, <1>5

(* The signature, by SignatureExact.                                       *)
LEMMA SignatureComputedInv == ASSUME EcInv, SignatureComputed PROVE EcInv'
<1>1. /\ drawing = "blind" /\ op \in Signing /\ op # "none" /\ curve \in Curves
      /\ k \in VlisOf(curve) /\ Value(k) \in 1..(curve.n - 1) /\ arg \in Hashes
      /\ d \in 0..(BaseTo(curve.num_words) - 1) /\ Q \in Points(curve) /\ P \in Points(curve)
      /\ Q # Infinity => d \in 1..(curve.n - 1)
  <2>1. drawing = "blind" /\ op \in Signing /\ op # "none"
    BY WhoWaits DEF SignatureComputed, Signing
  <2> QED BY <2>1 DEF EcInv, EcTypeOK, KeyKept, NonceKept
<1> DEFINE rd == vli_modMult(InWords(d), InWords(P[1]), order)
           e == bits2int(arg, curve)
           sum == vli_modAdd(e, rd, order)
           s(blind) == vli_modMult(sum, Inverted(blind), order)
           res(blind) == [of |-> op, ok |-> TRUE, hash |-> arg, r |-> InWords(P[1]),
                          s |-> s(blind), nonce |-> Value(k)]
<1>2. PICK blind \in Masks :
        IF vli_numBits(s(blind)) > num_bytes(curve) * ByteBits THEN AttemptFails
        ELSE Returns(res(blind)) /\ UNCHANGED <<d, Q>>
  BY DEF SignatureComputed
<1>3. CASE vli_numBits(s(blind)) > num_bytes(curve) * ByteBits
  BY <1>1, <1>2, <1>3, AttemptFailsInv
<1>4. CASE ~(vli_numBits(s(blind)) > num_bytes(curve) * ByteBits)
  <2>1. Returns(res(blind)) /\ d' = d /\ Q' = Q
    BY <1>2, <1>4
  <2>2. /\ res(blind).of = op /\ res(blind).ok = TRUE /\ res(blind).hash = arg
        /\ res(blind).r = InWords(P[1]) /\ res(blind).s = s(blind)
        /\ res(blind).nonce = Value(k)
    OBVIOUS
  <2>3. InWords(blind) \in VlisOf(curve) /\ Value(InWords(blind)) \in 1..(curve.n - 1)
    BY <1>1, MasksExact
  <2>4. InWords(d) \in VlisOf(curve) /\ Value(InWords(d)) = d
    <3>1. d \in Int
      BY <1>1
    <3> QED BY <1>1, <3>1, InWordsExact DEF InWords
  <2>5. InWords(P[1]) \in VlisOf(curve)
    <3>1. P[1] \in Int
      BY <1>1 DEF Points
    <3> QED BY <1>1, <3>1, InWordsExact DEF InWords
  <2>6. e \in VlisOf(curve)
    <3>1. arg \in Seq(Bytes)
      BY <1>1, CallerAssumption DEF Bytes
    <3> QED BY <1>1, <3>1, Bits2intTyped
  <2>7. order = Modulus(curve.n, curve)
    BY DEF order, InWords, Modulus
  <2>8. /\ Value(s(blind)) < curve.n
        /\ (Value(s(blind)) * Value(k) - Value(e) - Value(InWords(P[1])) * d) % curve.n = 0
    <3> DEFINE inv == Inverted(blind)
               t == s(blind)
               x == InWords(P[1])
               private == InWords(d)
               w == InWords(blind)
               mod == order
    <3>1. inv = vli_modMult(vli_modInv(vli_modMult(k, w, mod), mod), w, mod)
      BY DEF Inverted
    <3>2. t = vli_modMult(vli_modAdd(e, vli_modMult(private, x, mod), mod), inv, mod)
      OBVIOUS
    <3>3. /\ mod = Modulus(curve.n, curve) /\ private \in VlisOf(curve) /\ x \in VlisOf(curve)
          /\ e \in VlisOf(curve) /\ w \in VlisOf(curve) /\ Value(w) \in 1..(curve.n - 1)
      BY <2>3, <2>4, <2>5, <2>6, <2>7
    <3> HIDE DEF inv, t, e, x, private, w, mod
    <3>4. /\ Value(t) < curve.n
          /\ (Value(t) * Value(k) - Value(e) - Value(x) * Value(private)) % curve.n = 0
      <4>1. curve \in Curves /\ k \in VlisOf(curve) /\ Value(k) \in 1..(curve.n - 1)
        BY <1>1
      <4> QED BY <4>1, <3>1, <3>2, <3>3, SignatureExact, SMTT(60)
    <3> QED BY <2>4, <3>4 DEF t, x, private
  <2> HIDE DEF res, s, e
  <2>9. Signed(res(blind), d', curve)
    BY <1>1, <2>1, <2>2, <2>8 DEF Signed, e
  <2> QED BY <1>1, <2>1, <2>2, <2>9, ReturnsInv DEF Signing
<1> QED BY <1>3, <1>4

(* No Z or no factor could be drawn.                                       *)
LEMMA SignatureUnmaskedInv == ASSUME EcInv, SignatureUnmasked PROVE EcInv'
<1>1. op # "none" /\ AttemptFails
  BY DEF SignatureUnmasked, Signing
<1> QED BY <1>1, AttemptFailsInv

(* uECC_verify() changes nothing but what was returned last.               *)
LEMMA VerifyBoolean ==
  ASSUME NEW key, NEW e, NEW r, NEW s, NEW c
  PROVE  uECC_verify(key, e, r, s, c) \in BOOLEAN
BY DEF uECC_verify

(* A verification, by VerifyBoolean.                                       *)
LEMMA verifyInv == ASSUME EcInv, verify PROVE EcInv'
<1>1. /\ op = "none" /\ curve \in Curves /\ ~HasKey
      /\ UNCHANGED <<curve, g_rng, op, drawing, tries, attempts, d, Q, k, P, arg>>
  BY DEF verify, Signing, HasKey, EcInv, EcTypeOK
<1>2. PICK o \in Offered :
        result' = [of |-> "verify", offered |-> o,
                   own |-> o.Q = Q /\ o.hash = result.hash /\ o.r = result.r /\ o.s = result.s,
                   ok |-> uECC_verify(o.Q, bits2int(o.hash, curve), o.r, o.s, curve)]
  BY DEF verify
<1>3. result'.of = "verify" /\ result'.ok \in BOOLEAN
  BY <1>2, VerifyBoolean
<1>4. EcTypeOK'
  BY <1>1, <1>3 DEF EcInv, EcTypeOK
<1>5. Control' /\ KeyKept' /\ NonceKept'
  BY <1>1, <1>3 DEF EcInv, Control, KeyKept, NonceKept, HasKey, Signing
<1>6. SignatureEquation'
  BY <1>3, EquationSigned DEF Signed, Signing
<1> QED BY <1>4, <1>5, <1>6 DEF EcInv

-----------------------------------------------------------------------------
(* Every step of micro-ecc keeps the invariant.                            *)
LEMMA StepEcInv == EcInv /\ [EcNext]_ecVars => EcInv'
<1> SUFFICES ASSUME EcInv, [EcNext]_ecVars PROVE EcInv'
  OBVIOUS
<1>1. CASE EcStep
  BY <1>1, DrawsAgainInv, KeyDrawnInv, KeyNotDrawnInv, PublicKeyComputedInv,
     PublicKeyUnmaskedInv, SecretComputedInv, SecretUnmaskedInv, NonceDrawnInv,
     NonceNotDrawnInv, NonceFromChainInv, PointComputedInv, SignatureComputedInv,
     SignatureUnmaskedInv DEF EcStep
<1>2. CASE Calls
  BY <1>2, make_keyInv, compute_public_keyInv, shared_secretInv, verifyInv DEF Calls
<1>3. CASE Signs
  BY <1>3, signInv, sign_with_kInv DEF Signs
<1>4. CASE UNCHANGED ecVars
  BY <1>4, StutterEcInv
<1> QED BY <1>1, <1>2, <1>3, <1>4 DEF EcNext

(* micro-ecc keeps its variables within their types: no count passes the   *)
(* tries, and no coordinate, key or nonce the words of its curve           *)
(* (uECC.c:936-946, 1033-1048, 1211-1361).                                 *)
THEOREM EcTypeCorrect == EcSpec => []EcTypeOK
<1>1. EcInv => EcTypeOK
  BY DEF EcInv
<1> QED BY <1>1, InitEcInv, StepEcInv, PTL DEF EcSpec

(* Every signature that is returned satisfies s nonce = e + r d modulo n,  *)
(* for every curve, key, nonce, hash and blinding factor: through the      *)
(* words, carries and borrows of vli_modMult, vli_modAdd and vli_modInv    *)
(* (uECC.c:1211-1330).                                                     *)
THEOREM SignatureEquationHolds == EcSpec => []SignatureEquation
<1>1. EcInv => SignatureEquation
  BY DEF EcInv
<1> QED BY <1>1, InitEcInv, StepEcInv, PTL DEF EcSpec

(* A private key that is in use is one of 1..n-1 (uECC.c:936-946,          *)
(* 1033-1048, 1428-1449).                                                  *)
KeyInRange == HasKey \/ op \in Signing => d \in 1..(curve.n - 1)
(* Whoever signs or computes a secret does so with such a key.             *)
THEOREM KeyInRangeHolds == EcSpec => []KeyInRange
<1>1. EcInv => KeyInRange
  BY DEF EcInv, Control, KeyKept, KeyInRange
<1> QED BY <1>1, InitEcInv, StepEcInv, PTL DEF EcSpec

-----------------------------------------------------------------------------
(* Shamir's trick: J stands for x G.                                       *)

(* <<rx, ry, z>> is x G, or z is 0.                                        *)
Stands(J, x, c) ==
  /\ J \in Ints3 /\ J[3] \in 0..(c.p - 1)
  /\ J[3] # 0 => ~Congruent(x, 0, c.n) /\ Scaled(<<J[1], J[2]>>, Mul(x, c), J[3], c)

(* A reduced coordinate is 0 modulo p only if it is 0.                     *)
LEMMA CoordinateNotZero ==
  ASSUME NEW c \in Curves, NEW z \in 0..(c.p - 1)
  PROVE  Congruent(z, 0, c.p) <=> z = 0
<1> DEFINE none == 0
<1>1. c.p \in Nat \ {0} /\ none \in 0..(c.p - 1) /\ z \in Int /\ none \in Int
  BY FieldFacts
<1> HIDE DEF none
<1>2. Congruent(z, none, c.p) => z = none
  BY <1>1, SameRemainder
<1>3. Congruent(none, none, c.p)
  BY <1>1, Reckoning
<1> QED BY <1>2, <1>3 DEF none

(* Doubling x G gives 2x G; a z of 0 stays 0.                              *)
LEMMA DoubleStands ==
  ASSUME NEW c \in Curves, NEW J, NEW x \in Int, Stands(J, x, c)
  PROVE  Stands(double_jacobian(J, c), 2 * x, c)
<1> DEFINE twice == double_jacobian(J, c)
<1>1. J \in Ints3 /\ J[3] \in 0..(c.p - 1)
  BY DEF Stands
<1>2. CASE J[3] = 0
  <2>1. twice = J
    BY <1>2 DEF double_jacobian
  <2> QED BY <1>1, <1>2, <2>1 DEF Stands
<1>3. CASE J[3] # 0
  <2>1. ~Congruent(x, 0, c.n) /\ Scaled(<<J[1], J[2]>>, Mul(x, c), J[3], c)
    BY <1>3 DEF Stands
  <2>2. ~Congruent(J[3], 0, c.p)
    BY <1>1, <1>3, CoordinateNotZero
  <2>3. /\ twice \in Ints3
        /\ Scaled(<<twice[1], twice[2]>>, Mul(2 * x, c), twice[3], c)
        /\ twice[3] \in 1..(c.p - 1)
    BY <1>1, <2>1, <2>2, MulDouble
  <2> HIDE DEF twice
  <2>4. ~Congruent(2 * x, 0, c.n)
    BY <2>1, OrderNotZero, OrderSmall
  <2>5. twice[3] \in 0..(c.p - 1)
    BY <2>3
  <2> QED BY <2>3, <2>4, <2>5 DEF Stands, twice
<1> QED BY <1>2, <1>3

(* Adding t G to x G gives (x + t) G, or a z of 0 if the two have the same *)
(* x.                                                                      *)
LEMMA AddStands ==
  ASSUME NEW c \in Curves, NEW J, NEW x \in Int, Stands(J, x, c), NEW t \in Int, ~Congruent(t, 0, c.n)
  PROVE  Stands(AddJacobian(J, Mul(t, c), c), x + t, c)
<1> DEFINE T == Mul(t, c)
           t0 == apply_z(T, J[3], c)
           j0 == <<J[1], J[2]>>
           e == J[1] - t0[1]
           tz == e % c.p
           r == XYcZ_add(t0, j0, c).sum
           z == (J[3] * tz) % c.p
           sum == AddJacobian(J, T, c)
<1>1. J \in Ints3 /\ J[3] \in 0..(c.p - 1) /\ J[1] \in Int /\ J[2] \in Int /\ J[3] \in Int
      /\ c.p \in Nat \ {0} /\ j0 \in Ints2 /\ j0[1] = J[1] /\ j0[2] = J[2]
  BY FieldFacts DEF Stands, Ints2, Ints3
<1>2. sum = <<r[1], r[2], z>>
  BY DEF AddJacobian
<1>3. T \in Ints2 /\ T \in Points(c)
  BY MulFacts
<1>4. Scaled(t0, T, J[3], c) /\ t0 \in Points(c) /\ t0 \in Ints2
  <2>1. Scaled(t0, T, J[3], c) /\ t0 \in Points(c)
    <3> HIDE DEF T
    <3> QED BY <1>1, <1>3, ApplyZScaled
  <2> HIDE DEF t0
  <2> QED BY <2>1, Coordinates
<1> HIDE DEF t0, j0
<1>5. r \in Points(c) /\ r[1] \in Int /\ r[2] \in Int
  <2>1. r \in Points(c)
    BY <1>1, <1>4, AddPoints
  <2> HIDE DEF r
  <2> QED BY <2>1, Coordinates
<1>6. e \in Int /\ t0[1] \in Int
  BY <1>1, <1>4 DEF Ints2
<1>7. tz \in 0..(c.p - 1) /\ tz \in Int /\ Congruent(tz, e, c.p)
  <2> HIDE DEF e
  <2> QED BY <1>1, <1>6, Reckoning
<1> HIDE DEF tz
<1>8. z \in 0..(c.p - 1) /\ z \in Int /\ Congruent(z, J[3] * e, c.p) /\ J[3] * e \in Int
  <2> DEFINE m == J[3] * tz
  <2>1. m \in Int /\ J[3] * e \in Int
    <3> HIDE DEF e
    <3> QED BY <1>1, <1>6, <1>7
  <2>2. m % c.p \in 0..(c.p - 1) /\ m % c.p \in Int /\ Congruent(m % c.p, m, c.p)
    <3> HIDE DEF m
    <3> QED BY <1>1, <2>1, Reckoning
  <2>3. Congruent(J[3], J[3], c.p)
    BY <1>1, Reckoning
  <2>4. Congruent(m % c.p, J[3] * e, c.p)
    <3> HIDE DEF e
    <3> QED BY <1>1, <1>6, <1>7, <2>3, Product
  <2> QED BY <2>1, <2>2, <2>4
<1>9. sum \in Ints3 /\ sum[3] = z /\ sum[1] = r[1] /\ sum[2] = r[2]
  BY <1>2, <1>5, <1>8 DEF Ints3
<1> HIDE DEF z, sum, r
<1>10. ASSUME z # 0
       PROVE  ~Congruent(x + t, 0, c.n) /\ Scaled(<<sum[1], sum[2]>>, Mul(x + t, c), z, c)
  <2>1. ~Congruent(z, 0, c.p)
    BY <1>8, <1>10, CoordinateNotZero
  <2>2. ~Congruent(J[3] * e, 0, c.p)
    <3> DEFINE m == J[3] * e
               none == 0
    <3>1. m \in Int /\ none \in Int /\ Congruent(z, m, c.p)
      BY <1>8
    <3> HIDE DEF m, none
    <3>2. ASSUME Congruent(m, none, c.p) PROVE Congruent(z, none, c.p)
      BY <1>1, <1>8, <3>1, <3>2, Reckoning
    <3> QED BY <2>1, <3>2 DEF m, none
  <2>3. ~Congruent(J[3], 0, c.p) /\ ~Congruent(e, 0, c.p)
    <3> HIDE DEF e
    <3> QED BY <1>1, <1>6, <2>2, NotZero
  <2>4. J[3] # 0
    BY <1>1, <2>3, CoordinateNotZero
  <2>5. ~Congruent(x, 0, c.n) /\ Scaled(j0, Mul(x, c), J[3], c)
    BY <2>4 DEF Stands, j0
  <2>6. Mul(x, c) \in Points(c)
    BY MulFacts
  <2>7. T[1] # Mul(x, c)[1]
    <3> HIDE DEF T
    <3>1. Congruent(j0[1] - t0[1], 0, c.p) <=> T[1] = Mul(x, c)[1]
      BY <1>1, <1>3, <1>4, <2>3, <2>5, <2>6, ScaledX
    <3> QED BY <1>1, <2>3, <3>1
  <2>8. ~Congruent(t - x, 0, c.n) /\ ~Congruent(t + x, 0, c.n)
    BY <2>5, <2>7, MulDistinct
  <2>9. Scaled(r, Mul(t + x, c), J[3] * (j0[1] - t0[1]), c)
    <3>1. Scaled(t0, Mul(t, c), J[3], c)
      BY <1>4
    <3> HIDE DEF T
    <3>2. LET q == XYcZ_add(t0, j0, c) IN Scaled(q.sum, Mul(t + x, c), J[3] * (j0[1] - t0[1]), c)
      BY <1>1, <1>4, <2>3, <2>5, <2>8, <3>1, MulAdd
    <3> QED BY <3>2 DEF r
  <2>10. Scaled(r, Mul(t + x, c), J[3] * e, c)
    BY <1>1, <2>9
  <2>11. t + x = x + t
    OBVIOUS
  <2> DEFINE S == Mul(x + t, c)
             m == J[3] * e
  <2>12. S \in Ints2 /\ S[1] \in Int /\ S[2] \in Int
    <3>1. S \in Ints2
      BY MulFacts
    <3> HIDE DEF S
    <3> QED BY <3>1 DEF Ints2
  <2>13. Scaled(r, S, z, c)
    <3>1. m \in Int /\ Congruent(z, m, c.p) /\ Scaled(r, S, m, c)
      BY <1>8, <2>10, <2>11
    <3>2. Congruent(m, z, c.p)
      <4> HIDE DEF m
      <4> QED BY <1>1, <1>8, <3>1, Reckoning
    <3>3. Congruent(S[1], S[1], c.p) /\ Congruent(S[2], S[2], c.p)
      BY <1>1, <2>12, Reckoning
    <3>4. r \in Ints2
      BY <1>5, Coordinates
    <3> HIDE DEF m, S
    <3> QED BY <1>8, <2>12, <3>1, <3>2, <3>3, <3>4, ScaledSame
  <2>14. <<sum[1], sum[2]>> = r
    BY <1>5, <1>9, Coordinates
  <2> QED BY <2>8, <2>11, <2>13, <2>14
<1> QED BY <1>8, <1>9, <1>10 DEF Stands, sum, T

(* The sum of G and Q, for a Q whose x is not that of G.                   *)
LEMMA GPlusExact ==
  ASSUME NEW c \in Curves, NEW q \in Int, ~Congruent(q, 0, c.n), Mul(q, c)[1] # c.G[1]
  PROVE  GPlus(Mul(q, c), c) = Mul(1 + q, c) /\ ~Congruent(1 + q, 0, c.n)
<1> DEFINE A == Mul(q, c)
           G == c.G
           r == XYcZ_add(G, A, c).sum
           e == A[1] - G[1]
           i == modInv(e % c.p, c.p, c)
           S == Mul(1 + q, c)
           one == 1
           f == one * e
<1>1. /\ c.p \in Nat \ {0} /\ A \in Ints2 /\ A \in Points(c) /\ G = Mul(one, c) /\ G \in Ints2 /\ G \in Points(c)
      /\ A[1] \in Int /\ A[2] \in Int /\ G[1] \in Int /\ G[2] \in Int /\ S \in Points(c)
  <2>1. /\ c.p \in Nat \ {0} /\ A \in Ints2 /\ A \in Points(c) /\ G = Mul(one, c) /\ G \in Ints2 /\ G \in Points(c)
        /\ S \in Points(c)
    BY MulFacts, FieldFacts
  <2> HIDE DEF A, G
  <2> QED BY <2>1 DEF Ints2
<1>2. ~Congruent(one, 0, c.n) /\ ~Congruent(one, 0, c.p) /\ one \in Int
  <2>1. ~Congruent(one, 0, c.p)
    <3>1. one \in 0..(c.p - 1) /\ one # 0
      BY FieldFacts
    <3> QED BY <3>1, CoordinateNotZero
  <2> QED BY <2>1, OrderSmall
<1>3. ~Congruent(one - q, 0, c.n) /\ ~Congruent(one + q, 0, c.n)
  BY <1>1, <1>2, MulDistinct
<1>4. Scaled(G, Mul(one, c), one, c) /\ Scaled(A, Mul(q, c), one, c)
  <2>1. \A B \in Ints2 : Scaled(B, B, one, c)
    <3>1. TAKE B \in Ints2
    <3> DEFINE x == B[1]
               y == B[2]
    <3>2. x \in Int /\ y \in Int
      BY DEF Ints2
    <3> HIDE DEF x, y
    <3>3. x * (one * one) = x /\ y * (one * one * one) = y
      BY <3>2
    <3>4. Congruent(x, x, c.p) /\ Congruent(y, y, c.p)
      BY <1>1, <3>2, Reckoning
    <3>5. Congruent(x, x * (one * one), c.p) /\ Congruent(y, y * (one * one * one), c.p)
      BY <3>3, <3>4
    <3> QED BY <3>5 DEF Scaled, x, y
  <2> QED BY <1>1, <2>1
<1> HIDE DEF one
<1>5. /\ f \in Int /\ ~Congruent(f, 0, c.p) /\ r \in Points(c) /\ Scaled(r, Mul(one + q, c), f, c)
  <2>1. LET s == XYcZ_add(G, A, c)
            g == one * (A[1] - G[1])
        IN /\ g \in Int /\ ~Congruent(g, 0, c.p)
           /\ s.sum \in Points(c) /\ Scaled(s.sum, Mul(one + q, c), g, c)
    BY <1>1, <1>2, <1>3, <1>4, MulAdd
  <2> QED BY <2>1
<1>6. e \in Int /\ f = e
  BY <1>1 DEF one
<1> HIDE DEF r, e, f
<1>7. e % c.p \in 0..(c.p - 1) /\ Congruent(e % c.p, e, c.p) /\ e % c.p \in Int
  BY <1>1, <1>6, Reckoning
<1> DEFINE m == e % c.p
<1>8. i \in Int /\ Congruent(i * m, 1, c.p)
  <2>1. m # 0
    <3>1. CASE m = 0
      <4>1. Congruent(m, 0, c.p) /\ Congruent(e, m, c.p)
        BY <1>1, <1>6, <1>7, <3>1, Reckoning
      <4> DEFINE none == 0
      <4>2. none \in Int /\ m \in Int /\ Congruent(m, none, c.p)
        BY <1>7, <4>1
      <4> HIDE DEF m, none
      <4>3. Congruent(e, none, c.p)
        BY <1>1, <1>6, <4>1, <4>2, Reckoning
      <4> QED BY <1>5, <1>6, <4>3 DEF none
    <3> QED BY <3>1
  <2> HIDE DEF m
  <2> QED BY <1>7, <2>1, FieldInverse DEF m
<1> HIDE DEF i
<1>9. Congruent(i * f, 1, c.p)
  <2> DEFINE un == 1
             t1 == i * e
             t2 == i * m
  <2>1. Congruent(i, i, c.p) /\ Congruent(e, m, c.p)
    BY <1>1, <1>6, <1>7, <1>8, Reckoning
  <2>2. t1 \in Int /\ t2 \in Int /\ un \in Int /\ Congruent(t2, un, c.p)
    BY <1>6, <1>7, <1>8
  <2>3. Congruent(t1, t2, c.p)
    <3> HIDE DEF m
    <3>1. m \in Int
      BY <1>7 DEF m
    <3> QED BY <1>1, <1>6, <1>8, <2>1, <3>1, Product
  <2> HIDE DEF t1, t2, un
  <2>4. Congruent(t1, un, c.p)
    BY <1>1, <2>2, <2>3, Reckoning
  <2> QED BY <1>6, <2>4 DEF t1, un
<1>10. r \in Ints2 /\ S = Mul(one + q, c)
  BY <1>5, Coordinates DEF one
<1>11. apply_z(r, i, c) = S
  <2> HIDE DEF S
  <2> QED BY <1>1, <1>5, <1>8, <1>9, <1>10, ApplyZBack
<1>12. GPlus(A, c) = apply_z(r, i, c)
  BY DEF GPlus, r, i, e
<1> QED BY <1>3, <1>11, <1>12 DEF one

(* The types of such an addition.                                          *)
LEMMA AddJacobianInts ==
  ASSUME NEW c \in Curves, NEW J \in Ints3, NEW T \in Ints2
  PROVE  AddJacobian(J, T, c) \in Ints3
<1> DEFINE t0 == apply_z(T, J[3], c)
           j0 == <<J[1], J[2]>>
           tz == (J[1] - t0[1]) % c.p
           r == XYcZ_add(t0, j0, c).sum
           z == (J[3] * tz) % c.p
<1>1. J[1] \in Int /\ J[2] \in Int /\ J[3] \in Int /\ j0 \in Ints2 /\ c.p \in Nat \ {0}
  BY FieldFacts DEF Ints2, Ints3
<1>2. t0 \in Ints2 /\ t0[1] \in Int
  <2>1. t0 \in Points(c)
    BY <1>1, ApplyZPoint
  <2> HIDE DEF t0
  <2> QED BY <2>1, Coordinates
<1> HIDE DEF t0, j0
<1>3. r[1] \in Int /\ r[2] \in Int
  <2>1. r \in Points(c)
    BY <1>1, <1>2, AddPoints
  <2> HIDE DEF r
  <2> QED BY <2>1, Coordinates
<1>4. tz \in Int
  <2>1. J[1] - t0[1] \in Int
    BY <1>1, <1>2
  <2> QED BY <1>1, <2>1, Reckoning
<1> HIDE DEF tz, r
<1>5. z \in Int
  <2>1. J[3] * tz \in Int
    BY <1>1, <1>4
  <2> QED BY <1>1, <2>1, Reckoning
<1> HIDE DEF z
<1>6. AddJacobian(J, T, c) = <<r[1], r[2], z>>
  BY DEF AddJacobian, r, z, tz, t0, j0
<1> QED BY <1>3, <1>5, <1>6 DEF Ints3

(* The bits of a vli, one of 0 included.                                   *)
LEMMA NumBitsBound ==
  ASSUME NEW n \in Nat, NEW v \in Vlis(n)
  PROVE  /\ vli_numBits(v) \in 0..(n * WordBits) /\ Value(v) < Pow2[vli_numBits(v)]
         /\ vli_numBits(v) # 0 => Pow2[vli_numBits(v) - 1] <= Value(v)
<1>1. Value(v) \in Int /\ 0 <= Value(v) /\ WordBits \in Nat \ {0}
  BY ValueBound, BaseFacts
<1>2. CASE Value(v) = 0
  <2>1. \A i \in 1..n : v[i] = 0
    <3>1. vli_isZero(v)
      BY <1>2, ZeroExact
    <3>2. DOMAIN v = 1..n
      BY DEF Vlis
    <3> QED BY <3>1, <3>2 DEF vli_isZero
  <2>2. vli_numDigits(v) = 0
    BY <2>1, NumDigitsDefined
  <2>3. vli_numBits(v) = 0
    BY <2>2 DEF vli_numBits
  <2>4. 0 \in 0..(n * WordBits)
    <3> DEFINE m == n * WordBits
    <3>1. m \in Nat
      BY <1>1
    <3> HIDE DEF m
    <3>2. 0 \in 0..m
      BY <3>1
    <3> QED BY <3>2 DEF m
  <2> QED BY <1>2, <2>3, <2>4, Pow2Defined
<1>3. CASE Value(v) # 0
  <2> DEFINE b == vli_numBits(v)
             digits == vli_numDigits(v)
  <2>1. digits \in 1..n /\ b \in Nat \ {0} /\ b <= digits * WordBits
        /\ Pow2[b - 1] <= Value(v) /\ Value(v) < Pow2[b]
    BY <1>1, <1>3, NumBitsExact
  <2> HIDE DEF b, digits
  <2>2. digits * WordBits <= n * WordBits
    BY <1>1, <2>1
  <2>3. b \in 0..(n * WordBits)
    <3> DEFINE m == n * WordBits
               l == digits * WordBits
    <3>1. m \in Nat /\ l \in Nat /\ l <= m /\ b <= l
      BY <1>1, <2>1, <2>2
    <3> HIDE DEF m, l
    <3>2. b \in 0..m
      BY <2>1, <3>1
    <3> QED BY <3>2 DEF m
  <2> QED BY <2>1, <2>3 DEF b
<1> QED BY <1>2, <1>3

(* A number shifted down, bit for bit.                                     *)
LEMMA TopBits ==
  ASSUME NEW K \in Nat
  PROVE  /\ Leading(K, 0) = K
         /\ \A i \in Nat : /\ Leading(K, i) = 2 * Leading(K, i + 1) + Bit(K, i)
                           /\ Bit(K, i) \in {0, 1} /\ Leading(K, i) \in Nat
                           /\ K < Pow2[i] => Leading(K, i) = 0
                           /\ Pow2[i] <= K => Leading(K, i) # 0
<1>1. Leading(K, 0) = K
  BY Pow2Defined DEF Leading
<1>2. ASSUME NEW i \in Nat
      PROVE  /\ Leading(K, i) = 2 * Leading(K, i + 1) + Bit(K, i)
             /\ Bit(K, i) \in {0, 1} /\ Leading(K, i) \in Nat
             /\ K < Pow2[i] => Leading(K, i) = 0
             /\ Pow2[i] <= K => Leading(K, i) # 0
  <2> DEFINE b == Pow2[i]
             k0 == K \div b
             r == K % b
             two == 2
  <2>1. b \in Nat \ {0} /\ Pow2[i + 1] = b * two /\ two \in Nat \ {0}
    <3>1. b \in Nat \ {0} /\ Pow2[i + 1] = 2 * b
      BY Pow2Defined
    <3> HIDE DEF b
    <3> QED BY <3>1
  <2> HIDE DEF b, two
  <2>2. k0 \in Int /\ r \in 0..(b - 1) /\ K = k0 * b + r /\ k0 \in Nat
    <3>1. K \in Int
      OBVIOUS
    <3> QED BY <2>1, <3>1, Division
  <2>3. K \div (b * two) = k0 \div two
    <3>1. K \in Int
      OBVIOUS
    <3> QED BY <2>1, <3>1, DivideTwice
  <2> HIDE DEF k0, r
  <2>4. k0 = (k0 \div two) * two + (k0 % two) /\ k0 \div two \in Int /\ k0 % two \in 0..(two - 1)
    BY <2>1, <2>2, Division
  <2>5. Leading(K, i) = k0 /\ Leading(K, i + 1) = k0 \div two /\ Bit(K, i) = k0 % two
    BY <2>1, <2>3 DEF k0, Leading, Bit, b, two
  <2>6. ASSUME K < b, k0 # 0 PROVE FALSE
    <3>1. 1 * b <= k0 * b
      BY <2>1, <2>2, <2>6
    <3> QED BY <2>1, <2>2, <2>6, <3>1
  <2>7. ASSUME b <= K, k0 = 0 PROVE FALSE
    <3>1. k0 * b = 0
      BY <2>1, <2>7
    <3> QED BY <2>1, <2>2, <2>7, <3>1
  <2>8. k0 = 2 * (k0 \div two) + (k0 % two) /\ k0 % two \in {0, 1}
    <3> DEFINE s == k0 \div two
               e == k0 % two
    <3>1. k0 = s * two + e /\ s \in Int /\ e \in 0..(two - 1)
      BY <2>4
    <3> HIDE DEF s, e
    <3>2. k0 = 2 * s + e /\ e \in {0, 1}
      BY <3>1 DEF two
    <3> QED BY <3>2 DEF s, e
  <2> QED BY <2>2, <2>5, <2>6, <2>7, <2>8 DEF b
<1> QED BY <1>1, <1>2

(* The point that a bit of u1 and u2 selects, and whether there is one.    *)
LEMMA SelectedExact ==
  ASSUME NEW c \in Curves, NEW q \in Int, ~Congruent(q, 0, c.n), ~Congruent(1 + q, 0, c.n),
         NEW u1 \in VlisOf(c), NEW u2 \in VlisOf(c), NEW i \in 0..(c.num_words * WordBits - 1)
  PROVE  LET x == Bit(Value(u1), i) + Bit(Value(u2), i) * q
             some == vli_testBit(u1, i) \/ vli_testBit(u2, i)
         IN /\ x \in Int
            /\ Selected(u1, u2, i, Mul(q, c), Mul(1 + q, c), c) = Mul(x, c)
            /\ some <=> Bit(Value(u1), i) # 0 \/ Bit(Value(u2), i) # 0
            /\ some => ~Congruent(x, 0, c.n)
            /\ ~some => x = 0
<1> DEFINE b1 == vli_testBit(u1, i)
           b2 == vli_testBit(u2, i)
           d1 == Bit(Value(u1), i)
           d2 == Bit(Value(u2), i)
           T == Selected(u1, u2, i, Mul(q, c), Mul(1 + q, c), c)
<1>1. c.num_words \in Nat /\ u1 \in Vlis(c.num_words) /\ u2 \in Vlis(c.num_words)
  BY CurveFacts DEF VlisOf
<1>2. (b1 <=> d1 = 1) /\ (b2 <=> d2 = 1) /\ b1 \in BOOLEAN /\ b2 \in BOOLEAN
  <2>1. (b1 <=> d1 = 1) /\ (b2 <=> d2 = 1)
    BY <1>1, TestBitExact DEF Bit
  <2>2. b1 \in BOOLEAN /\ b2 \in BOOLEAN
    BY DEF vli_testBit
  <2> QED BY <2>1, <2>2
<1>3. d1 \in {0, 1} /\ d2 \in {0, 1}
  <2>1. Value(u1) \in Nat /\ Value(u2) \in Nat
    <3> DEFINE y1 == Value(u1)
               y2 == Value(u2)
    <3>1. y1 \in Int /\ 0 <= y1 /\ y2 \in Int /\ 0 <= y2
      BY <1>1, ValueBound
    <3> HIDE DEF y1, y2
    <3>2. y1 \in Nat /\ y2 \in Nat
      BY <3>1
    <3> QED BY <3>2 DEF y1, y2
  <2>2. i \in Nat
    OBVIOUS
  <2> QED BY <2>1, <2>2, TopBits
<1>4. T = CASE ~b1 /\ ~b2 -> Infinity
            [] b1 /\ ~b2 -> c.G
            [] ~b1 /\ b2 -> Mul(q, c)
            [] b1 /\ b2 -> Mul(1 + q, c)
  BY DEF Selected
<1> HIDE DEF b1, b2, d1, d2, T
<1>5. c.G = Mul(1, c) /\ Mul(0, c) = Infinity /\ ~Congruent(1, 0, c.n)
  <2>1. c.n \in Nat \ {0}
    BY CurveFacts
  <2> DEFINE none == 0
  <2>2. none \in Int
    OBVIOUS
  <2>3. Congruent(none, none, c.n)
    <3> HIDE DEF none
    <3> QED BY <2>1, <2>2, Reckoning
  <2>4. Mul(none, c) = Zero
    BY <2>2, <2>3, MulFacts
  <2> QED BY <2>4, MulFacts, OrderSmall DEF Zero, Infinity
<1>6. CASE d1 = 0 /\ d2 = 0
  <2>1. ~b1 /\ ~b2 /\ d1 + d2 * q = 0
    BY <1>2, <1>6
  <2> QED BY <1>3, <1>4, <1>5, <1>6, <2>1 DEF b1, b2, d1, d2, T
<1>7. CASE d1 = 1 /\ d2 = 0
  <2>1. b1 /\ ~b2 /\ d1 + d2 * q = 1
    BY <1>2, <1>7
  <2> QED BY <1>3, <1>4, <1>5, <1>7, <2>1 DEF b1, b2, d1, d2, T
<1>8. CASE d1 = 0 /\ d2 = 1
  <2>1. ~b1 /\ b2 /\ d1 + d2 * q = q
    BY <1>2, <1>8
  <2> QED BY <1>3, <1>4, <1>5, <1>8, <2>1 DEF b1, b2, d1, d2, T
<1>9. CASE d1 = 1 /\ d2 = 1
  <2>1. b1 /\ b2 /\ d1 + d2 * q = 1 + q
    BY <1>2, <1>9
  <2>2. 1 + q \in Int
    OBVIOUS
  <2> QED BY <1>3, <1>4, <1>5, <1>9, <2>1, <2>2 DEF b1, b2, d1, d2, T
<1> QED BY <1>3, <1>6, <1>7, <1>8, <1>9

(* One turn of the loop of uECC_verify().                                  *)
ShamirTurn(was, u1, u2, i, A, sum, c) ==
  IF vli_testBit(u1, i) \/ vli_testBit(u2, i)
  THEN AddJacobian(double_jacobian(was, c), Selected(u1, u2, i, A, sum, c), c)
  ELSE double_jacobian(was, c)
(* The types of a turn.                                                    *)
LEMMA ShamirTurnInts ==
  ASSUME NEW c \in Curves, NEW was \in Ints3, NEW u1, NEW u2, NEW i, NEW A \in Ints2, NEW sum \in Ints2
  PROVE  Selected(u1, u2, i, A, sum, c) \in Ints2 /\ ShamirTurn(was, u1, u2, i, A, sum, c) \in Ints3
<1> DEFINE T == Selected(u1, u2, i, A, sum, c)
           b1 == vli_testBit(u1, i)
           b2 == vli_testBit(u2, i)
<1>1. b1 \in BOOLEAN /\ b2 \in BOOLEAN
  BY DEF vli_testBit
<1>2. Infinity \in Ints2 /\ c.G \in Ints2
  BY MulFacts DEF Infinity, Ints2
<1>3. T = CASE ~b1 /\ ~b2 -> Infinity
            [] b1 /\ ~b2 -> c.G
            [] ~b1 /\ b2 -> A
            [] b1 /\ b2 -> sum
  BY DEF Selected
<1> HIDE DEF b1, b2, T
<1>4. T \in Ints2
  BY <1>1, <1>2, <1>3
<1>5. double_jacobian(was, c) \in Ints3
  BY DoubleInts
<1>6. AddJacobian(double_jacobian(was, c), T, c) \in Ints3
  BY <1>4, <1>5, AddJacobianInts
<1> QED BY <1>4, <1>5, <1>6 DEF ShamirTurn, T

(* The loop: the recursion has a solution.                                 *)
ShamirLoop(after, u1, u2, N, A, sum, c) ==
  LET first == Selected(u1, u2, N, A, sum, c)
  IN /\ ShamirSum(u1, u2, N + 1, A, sum, c) = after[0]
     /\ after[N] = <<first[1], first[2], 1>>
     /\ \A i \in 0..(N - 1) : after[i] = ShamirTurn(after[i + 1], u1, u2, i, A, sum, c)
(* The loop of Shamir's trick has a solution.                              *)
LEMMA ShamirDefined ==
  ASSUME NEW c \in Curves, NEW u1, NEW u2, NEW N \in Nat, NEW A \in Ints2, NEW sum \in Ints2
  PROVE  \E after : ShamirLoop(after, u1, u2, N, A, sum, c)
<1> DEFINE first == Selected(u1, u2, N, A, sum, c)
           a == <<first[1], first[2], 1>>
           turn(s, i) == ShamirTurn(s, u1, u2, i, A, sum, c)
           step == [j \in 1..((N + 1) - 1) |-> [s \in Ints3 |-> turn(s, j - 1)]]
           F(g) == [i \in 0..N |-> IF i = N THEN a ELSE turn(g[i + 1], i)]
           after == CHOOSE g : g = F(g)
<1>1. ShamirSum(u1, u2, N + 1, A, sum, c) = after[0]
  <2>1. (N + 1) - 1 = N
    OBVIOUS
  <2> QED BY <2>1 DEF ShamirSum, ShamirTurn
<1>2. a \in Ints3
  <2>1. first \in Ints2
    <3>1. <<0, 0, 0>> \in Ints3
      BY DEF Ints3
    <3> QED BY <3>1, ShamirTurnInts
  <2> HIDE DEF first
  <2> QED BY <2>1 DEF Ints2, Ints3
<1>3. step \in [1..((N + 1) - 1) -> [Ints3 -> Ints3]]
  <2>1. \A s \in Ints3 : \A i : turn(s, i) \in Ints3
    BY ShamirTurnInts
  <2> HIDE DEF turn
  <2> QED BY <2>1
<1>4. N + 1 \in Nat /\ (N + 1) - 1 = N
  OBVIOUS
<1>5. PICK f : FollowsDown(f, N + 1, Ints3, a, step)
  <2> HIDE DEF a, step
  <2> QED BY <1>2, <1>3, <1>4, DescendingRecursionExists
<1> DEFINE g == [i \in 0..N |-> f[i + 1]]
<1>6. g = F(g)
  <2>1. ASSUME NEW i \in 0..N PROVE f[i + 1] = IF i = N THEN a ELSE turn(g[i + 1], i)
    <3>1. i + 1 \in 1..(N + 1) /\ (i + 1 = N + 1 <=> i = N)
      OBVIOUS
    <3>2. f[i + 1] = IF i + 1 = N + 1 THEN a ELSE step[i + 1][f[(i + 1) + 1]]
      <4> HIDE DEF a, step
      <4> QED BY <1>5, <3>1 DEF FollowsDown
    <3>3. CASE i = N
      BY <3>1, <3>2, <3>3
    <3>4. CASE i # N
      <4>1. i + 1 \in 0..N /\ i + 1 \in 1..((N + 1) - 1) /\ (i + 1) + 1 \in 1..(N + 1) /\ (i + 1) - 1 = i
        BY <3>4
      <4>2. f[(i + 1) + 1] \in Ints3
        BY <1>5, <4>1 DEF FollowsDown
      <4>3. step[i + 1][f[(i + 1) + 1]] = turn(f[(i + 1) + 1], (i + 1) - 1)
        <5> HIDE DEF turn
        <5> QED BY <4>1, <4>2
      <4>4. g[i + 1] = f[(i + 1) + 1]
        BY <4>1
      <4> HIDE DEF turn, step, g
      <4> QED BY <3>1, <3>2, <3>4, <4>1, <4>3, <4>4
    <3> QED BY <3>3, <3>4
  <2> HIDE DEF turn, a
  <2> QED BY <2>1
<1>7. after = F(after)
  <2> HIDE DEF F, g
  <2> QED BY <1>6
<1> HIDE DEF after, a, turn
<1>8. \A i \in 0..N : after[i] = IF i = N THEN a ELSE turn(after[i + 1], i)
  BY <1>7
<1>9. after[N] = a /\ \A i \in 0..(N - 1) : after[i] = turn(after[i + 1], i)
  <2>1. N \in 0..N /\ \A i \in 0..(N - 1) : i \in 0..N /\ i # N
    OBVIOUS
  <2> QED BY <1>8, <2>1
<1>10. ShamirLoop(after, u1, u2, N, A, sum, c)
  BY <1>1, <1>9 DEF a, turn, ShamirLoop
<1> QED BY <1>10

(* The first bit there is, of either number.                               *)
LEMMA FirstBit ==
  ASSUME NEW n \in Nat, NEW u \in Vlis(n), NEW N \in Nat, vli_numBits(u) <= N + 1
  PROVE  /\ Leading(Value(u), N + 1) = 0 /\ Leading(Value(u), N) = Bit(Value(u), N)
         /\ vli_numBits(u) = N + 1 => Bit(Value(u), N) # 0
<1> DEFINE K == Value(u)
           b == vli_numBits(u)
<1>1. K \in Nat
  <2>1. K \in Int /\ 0 <= K
    BY ValueBound
  <2> HIDE DEF K
  <2> QED BY <2>1
<1>2. b \in Nat /\ K < Pow2[b] /\ (b # 0 => Pow2[b - 1] <= K)
  <2>1. b \in 0..(n * WordBits) /\ K < Pow2[b] /\ (b # 0 => Pow2[b - 1] <= K)
    BY NumBitsBound
  <2> HIDE DEF b, K
  <2> QED BY <2>1
<1> HIDE DEF K, b
<1>3. K < Pow2[N + 1]
  <2>0. b \in Nat /\ b <= N + 1 /\ N + 1 \in Nat
    BY <1>2 DEF b
  <2>1. CASE b = N + 1
    BY <1>2, <2>1
  <2>2. CASE b < N + 1
    <3>1. 2 * Pow2[b] <= Pow2[N + 1]
      BY <2>0, <2>2, Pow2Less
    <3>2. Pow2[b] \in Nat \ {0} /\ Pow2[N + 1] \in Nat \ {0}
      BY <2>0, Pow2Defined
    <3> QED BY <1>1, <1>2, <3>1, <3>2
  <2> QED BY <2>0, <2>1, <2>2
<1>4. /\ Leading(K, N) = 2 * Leading(K, N + 1) + Bit(K, N) /\ Bit(K, N) \in {0, 1}
      /\ K < Pow2[N + 1] => Leading(K, N + 1) = 0
      /\ Pow2[N] <= K => Leading(K, N) # 0
  <2>1. N + 1 \in Nat
    OBVIOUS
  <2> QED BY <1>1, <2>1, TopBits
<1>5. b = N + 1 => Pow2[N] <= K
  <2>1. b = N + 1 => b # 0 /\ b - 1 = N
    BY <1>2
  <2> QED BY <1>2, <2>1
<1> QED BY <1>3, <1>4, <1>5 DEF b, K

(* Shamir's trick: what the loop ends with stands for u1 G + u2 Q, unless  *)
(* it is 0.                                                                *)
THEOREM ShamirExact ==
  ASSUME NEW c \in Curves, NEW q \in Int, ~Congruent(q, 0, c.n), ~Congruent(1 + q, 0, c.n),
         NEW u1 \in VlisOf(c), NEW u2 \in VlisOf(c), Value(u1) # 0 \/ Value(u2) # 0
  PROVE  Stands(TwoMultiples(u1, u2, Mul(q, c), Mul(1 + q, c), c), Value(u1) + Value(u2) * q, c)
<1> DEFINE K1 == Value(u1)
           K2 == Value(u2)
           b1 == vli_numBits(u1)
           b2 == vli_numBits(u2)
           m == c.num_words
           N == smax(b1, b2) - 1
           A == Mul(q, c)
           sum == Mul(1 + q, c)
           X(i) == Leading(K1, i) + Leading(K2, i) * q
           x(i) == Bit(K1, i) + Bit(K2, i) * q
           some(i) == vli_testBit(u1, i) \/ vli_testBit(u2, i)
           T(i) == Selected(u1, u2, i, A, sum, c)
<1>1. m \in Nat /\ WordBits \in Nat /\ u1 \in Vlis(m) /\ u2 \in Vlis(m)
  BY CurveFacts, BaseFacts DEF VlisOf
<1>2. K1 \in Nat /\ K2 \in Nat /\ (K1 # 0 \/ K2 # 0)
  <2>1. K1 \in Int /\ 0 <= K1 /\ K2 \in Int /\ 0 <= K2
    BY <1>1, ValueBound
  <2>2. K1 # 0 \/ K2 # 0
    OBVIOUS
  <2> HIDE DEF K1, K2
  <2> QED BY <2>1, <2>2
<1>3. /\ b1 \in 0..(m * WordBits) /\ K1 < Pow2[b1]
      /\ b2 \in 0..(m * WordBits) /\ K2 < Pow2[b2]
  BY <1>1, NumBitsBound
<1>4. smax(b1, b2) = N + 1 /\ N \in Nat /\ N \in 0..(m * WordBits - 1)
      /\ b1 <= N + 1 /\ b2 <= N + 1 /\ (b1 = N + 1 \/ b2 = N + 1)
  <2> DEFINE l == m * WordBits
  <2>1. l \in Nat /\ b1 \in 0..l /\ b2 \in 0..l
    BY <1>1, <1>3
  <2>2. b1 # 0 \/ b2 # 0
    BY <1>2, <1>3, Pow2Defined
  <2> HIDE DEF l, b1, b2
  <2> QED BY <2>1, <2>2 DEF smax, l
<1> HIDE DEF N
<1>5. A \in Ints2 /\ sum \in Ints2 /\ 1 + q \in Int
  BY MulFacts
<1>6. PICK after : /\ ShamirSum(u1, u2, N + 1, A, sum, c) = after[0]
                   /\ after[N] = <<T(N)[1], T(N)[2], 1>>
                   /\ \A i \in 0..(N - 1) : after[i] = ShamirTurn(after[i + 1], u1, u2, i, A, sum, c)
  <2>1. \E after : ShamirLoop(after, u1, u2, N, A, sum, c)
    <3> HIDE DEF A, sum
    <3> QED BY <1>4, <1>5, ShamirDefined
  <2> QED BY <2>1 DEF ShamirLoop
<1>7. \A i \in 0..N : /\ x(i) \in Int /\ T(i) = Mul(x(i), c)
                      /\ some(i) <=> Bit(K1, i) # 0 \/ Bit(K2, i) # 0
                      /\ some(i) => ~Congruent(x(i), 0, c.n)
                      /\ ~some(i) => x(i) = 0
  <2>1. TAKE i \in 0..N
  <2>2. i \in 0..(c.num_words * WordBits - 1)
    <3> DEFINE l == m * WordBits
    <3>1. l \in Nat /\ N \in 0..(l - 1) /\ N \in Nat
      BY <1>1, <1>4
    <3> HIDE DEF l
    <3>2. i \in 0..(l - 1)
      BY <3>1
    <3> QED BY <3>2 DEF l
  <2> QED BY <2>2, SelectedExact
<1>8. /\ X(N + 1) = 0 /\ X(N) = x(N) /\ some(N)
  <2>1. /\ Leading(K1, N + 1) = 0 /\ Leading(K1, N) = Bit(K1, N) /\ (b1 = N + 1 => Bit(K1, N) # 0)
        /\ Leading(K2, N + 1) = 0 /\ Leading(K2, N) = Bit(K2, N) /\ (b2 = N + 1 => Bit(K2, N) # 0)
    BY <1>1, <1>4, FirstBit
  <2>2. N \in 0..N
    BY <1>4
  <2>3. some(N)
    <3> HIDE DEF some
    <3> QED BY <1>4, <1>7, <2>1, <2>2
  <2>4. 0 + 0 * q = 0
    OBVIOUS
  <2> HIDE DEF K1, K2
  <2> QED BY <2>1, <2>3, <2>4
<1>9. \A i \in 0..(N - 1) : X(i) = 2 * X(i + 1) + x(i) /\ X(i + 1) \in Int /\ X(i) \in Int
  <2>1. TAKE i \in 0..(N - 1)
  <2> DEFINE h1 == Leading(K1, i + 1)
             h2 == Leading(K2, i + 1)
             e1 == Bit(K1, i)
             e2 == Bit(K2, i)
  <2>2. /\ Leading(K1, i) = 2 * h1 + e1 /\ Leading(K2, i) = 2 * h2 + e2
        /\ h1 \in Int /\ h2 \in Int /\ e1 \in Int /\ e2 \in Int
    <3>1. i \in Nat /\ i + 1 \in Nat
      BY <1>4
    <3>2. \A K \in Nat : /\ Leading(K, i) = 2 * Leading(K, i + 1) + Bit(K, i)
                         /\ Bit(K, i) \in {0, 1} /\ Leading(K, i) \in Nat /\ Leading(K, i + 1) \in Nat
      BY <3>1, TopBits
    <3>3. \A y \in {0, 1} : y \in Int
      OBVIOUS
    <3> HIDE DEF K1, K2
    <3> QED BY <1>2, <3>2, <3>3
  <2>3. \A s1, s2, t1, t2 \in Int :
          /\ (2 * s1 + t1) + (2 * s2 + t2) * q = 2 * (s1 + s2 * q) + (t1 + t2 * q)
          /\ s1 + s2 * q \in Int /\ (2 * s1 + t1) + (2 * s2 + t2) * q \in Int
    OBVIOUS
  <2> HIDE DEF h1, h2, e1, e2, K1, K2
  <2>4. /\ (2 * h1 + e1) + (2 * h2 + e2) * q = 2 * (h1 + h2 * q) + (e1 + e2 * q)
        /\ h1 + h2 * q \in Int /\ (2 * h1 + e1) + (2 * h2 + e2) * q \in Int
    BY <2>2, <2>3
  <2> QED BY <2>2, <2>4 DEF h1, h2, e1, e2
<1> HIDE DEF X, x, some, T
<1> DEFINE S == {j \in 0..N : Stands(after[N - j], X(N - j), c)}
<1>10. 0 \in S
  <2> DEFINE t == x(N)
             one == 1
             J == <<Mul(t, c)[1], Mul(t, c)[2], one>>
  <2>1. N \in 0..N /\ N - 0 = N /\ 0 \in 0..N
    BY <1>4
  <2>2. t \in Int /\ T(N) = Mul(t, c) /\ ~Congruent(t, 0, c.n) /\ X(N) = t
    BY <1>7, <1>8, <2>1
  <2> HIDE DEF t
  <2> DEFINE M == Mul(t, c)
  <2>3. M \in Ints2 /\ M = <<M[1], M[2]>> /\ M[1] \in Int /\ M[2] \in Int /\ c.p \in Nat \ {0} /\ 2 < c.p
    <3>1. M \in Ints2
      BY <2>2, MulFacts
    <3> HIDE DEF M
    <3> QED BY <3>1, FieldFacts DEF Ints2
  <2> HIDE DEF M
  <2>4. Scaled(M, M, one, c)
    <3> DEFINE v == M[1]
               y == M[2]
    <3>2. v \in Int /\ y \in Int
      BY <2>3
    <3> HIDE DEF v, y
    <3>3. v * (one * one) = v /\ y * (one * one * one) = y
      BY <3>2
    <3>4. Congruent(v, v, c.p) /\ Congruent(y, y, c.p)
      BY <2>3, <3>2, Reckoning
    <3>5. Congruent(v, v * (one * one), c.p) /\ Congruent(y, y * (one * one * one), c.p)
      BY <3>3, <3>4
    <3> QED BY <3>5 DEF Scaled, v, y
  <2>5. Stands(<<M[1], M[2], one>>, t, c)
    <3>1. <<M[1], M[2], one>> \in Ints3 /\ one \in 0..(c.p - 1)
      BY <2>3 DEF Ints3
    <3>2. Scaled(<<M[1], M[2]>>, Mul(t, c), one, c)
      BY <2>3, <2>4 DEF M
    <3> QED BY <2>2, <3>1, <3>2 DEF Stands
  <2>6. after[N] = <<M[1], M[2], one>>
    BY <1>6, <2>2 DEF M
  <2> QED BY <2>1, <2>2, <2>5, <2>6
<1>11. ASSUME NEW j \in 0..(N - 1), j \in S PROVE j + 1 \in S
  <2> DEFINE i == N - (j + 1)
             twice == double_jacobian(after[i + 1], c)
  <2>1. i \in 0..(N - 1) /\ i \in 0..N /\ i + 1 = N - j /\ j + 1 \in 0..N
    BY <1>4
  <2>2. Stands(after[i + 1], X(i + 1), c) /\ X(i + 1) \in Int /\ X(i) = 2 * X(i + 1) + x(i) /\ x(i) \in Int
    BY <1>7, <1>9, <1>11, <2>1
  <2>3. after[i] = ShamirTurn(after[i + 1], u1, u2, i, A, sum, c)
    BY <1>6, <2>1
  <2>4. /\ T(i) = Mul(x(i), c)
        /\ some(i) => ~Congruent(x(i), 0, c.n)
        /\ ~some(i) => x(i) = 0
    BY <1>7, <2>1
  <2> HIDE DEF i
  <2>5. Stands(twice, 2 * X(i + 1), c)
    BY <2>2, DoubleStands
  <2>6. Stands(after[i], X(i), c)
    <3>1. CASE some(i)
      <4>1. after[i] = AddJacobian(twice, T(i), c)
        BY <2>3, <3>1 DEF ShamirTurn, T, some
      <4> DEFINE y == 2 * X(i + 1)
                 t == x(i)
      <4>2. y \in Int /\ t \in Int /\ Stands(twice, y, c) /\ ~Congruent(t, 0, c.n) /\ X(i) = y + t
        BY <2>2, <2>4, <2>5, <3>1
      <4> HIDE DEF twice, y, t
      <4>3. Stands(AddJacobian(twice, Mul(t, c), c), y + t, c)
        BY <4>2, AddStands
      <4> QED BY <2>4, <4>1, <4>2, <4>3 DEF t
    <3>2. CASE ~some(i)
      <4>1. after[i] = twice
        BY <2>3, <3>2 DEF ShamirTurn, some
      <4>2. X(i) = 2 * X(i + 1)
        BY <2>2, <2>4, <3>2
      <4> QED BY <2>5, <4>1, <4>2
    <3> QED BY <3>1, <3>2
  <2> QED BY <2>1, <2>6 DEF i
<1>12. N \in S
  <2> HIDE DEF S
  <2>1. 0..N \subseteq S
    BY <1>4, <1>10, <1>11, IntervalInduction
  <2> QED BY <1>4, <2>1
<1>13. Stands(after[0], X(0), c)
  <2>1. N - N = 0
    BY <1>4
  <2> QED BY <1>12, <2>1
<1>14. X(0) = K1 + K2 * q
  <2> HIDE DEF K1, K2
  <2>1. Leading(K1, 0) = K1 /\ Leading(K2, 0) = K2
    BY <1>2, TopBits
  <2> QED BY <2>1 DEF X
<1>15. TwoMultiples(u1, u2, A, sum, c) = after[0]
  BY <1>4, <1>6 DEF TwoMultiples
<1> QED BY <1>13, <1>14, <1>15

-----------------------------------------------------------------------------
(* Verification, against the textbook.                                     *)

(* What is subtracted from a coordinate, once, is what n goes into it.     *)
LEMMA OnceExact ==
  ASSUME NEW c \in Curves, NEW v \in VlisOf(c), Value(v) < c.p
  PROVE  /\ Once(v, Modulus(c.n, c)) \in VlisOf(c)
         /\ Value(Once(v, Modulus(c.n, c))) = Value(v) % c.n
<1> DEFINE n == c.n
           x == Value(v)
           N == Modulus(c.n, c)
           m == c.num_words
           o == Once(v, N)
<1>1. /\ n \in Nat \ {0} /\ c.p < 2 * n /\ m \in Nat /\ c.p \in Nat
      /\ N \in Vlis(m) /\ Value(N) = n /\ v \in Vlis(m)
  BY CurveFacts, CurveAssumption, OrderExact DEF VlisOf
<1>2. x \in Int /\ 0 <= x
  BY <1>1, ValueBound
<1>3. o \in VlisOf(c)
  BY OnceTyped
<1>4. CASE x < n
  <2>1. vli_cmp_unsafe(N, v) = 1
    BY <1>1, <1>4, CmpUnsafeExact
  <2>2. o = v
    BY <2>1 DEF Once
  <2>3. x % n = x
    <3>1. x \in 0..(n - 1)
      BY <1>1, <1>2, <1>4
    <3> HIDE DEF x, n
    <3> QED BY <1>1, <1>2, <3>1, SameRemainder
  <2> QED BY <1>3, <2>2, <2>3
<1>5. CASE ~(x < n)
  <2>1. vli_cmp_unsafe(N, v) # 1
    BY <1>1, <1>5, CmpUnsafeExact
  <2>2. o = vli_sub(v, N).words
    BY <2>1 DEF Once
  <2>3. n <= x
    BY <1>1, <1>2, <1>5
  <2>4. Value(o) = x - n
    BY <1>1, <2>2, <2>3, SubCases
  <2>5. x % n = x - n
    <3> DEFINE y == x - n
               one == 1
    <3>1. y \in 0..(n - 1) /\ one \in Int /\ x = one * n + y
      BY <1>1, <1>2, <2>3
    <3> HIDE DEF x, y, n, one
    <3>2. (one * n + y) % n = y
      BY <1>1, <3>1, DivisionUnique
    <3> QED BY <3>1, <3>2 DEF y
  <2> QED BY <1>3, <2>4, <2>5
<1> QED BY <1>4, <1>5

(* The x that uECC_verify() compares with r, when its sum stands for one.  *)
LEMMA AffineExact ==
  ASSUME NEW c \in Curves, NEW x \in Int, NEW J, Stands(J, x, c)
  PROVE  /\ AffineX(J, c) \in VlisOf(c) /\ Value(AffineX(J, c)) < c.p
         /\ J[3] = 0 => Value(AffineX(J, c)) = 0
         /\ J[3] # 0 => Value(AffineX(J, c)) = Mul(x, c)[1]
<1> DEFINE i == modInv(J[3], c.p, c)
           j0 == <<J[1], J[2]>>
           A == apply_z(j0, i, c)
           M == Mul(x, c)
<1>1. J \in Ints3 /\ J[3] \in 0..(c.p - 1) /\ j0 \in Ints2 /\ c.p \in Nat \ {0}
  BY FieldFacts DEF Stands, Ints3, Ints2
<1>2. i \in Int /\ (J[3] # 0 => Congruent(i * J[3], 1, c.p)) /\ (J[3] = 0 => i = 0)
  BY <1>1, FieldInverse
<1>3. A \in Points(c)
  BY <1>1, <1>2, ApplyZPoint
<1>4. A[1] \in 0..(c.p - 1) /\ A[1] \in Int
  <2> HIDE DEF A
  <2> QED BY <1>3, Coordinates
<1>5. ASSUME J[3] # 0 PROVE A = M
  <2>1. Scaled(j0, M, J[3], c) /\ M \in Points(c)
    BY <1>5, MulFacts DEF Stands
  <2>2. J[3] \in Int /\ Congruent(i * J[3], 1, c.p)
    BY <1>1, <1>2, <1>5
  <2> HIDE DEF i, j0, M
  <2> QED BY <1>1, <1>2, <2>1, <2>2, ApplyZBack
<1>6. ASSUME J[3] = 0 PROVE A = Infinity
  <2>1. i = 0
    BY <1>2, <1>6
  <2>2. apply_z(j0, 0, c) = Infinity
    BY <1>1, ZeroZ
  <2> HIDE DEF j0
  <2> QED BY <2>1, <2>2
<1> HIDE DEF A
<1>7. ToWords(A[1], c) \in VlisOf(c) /\ Value(ToWords(A[1], c)) = A[1]
  <2>1. A[1] \in 0..(BaseTo(c.num_words) - 1)
    <3>1. c.p <= BaseTo(c.num_words) - 2 /\ c.p \in Nat /\ BaseTo(c.num_words) \in Nat
      BY CurveFacts, CurveAssumption
    <3> QED BY <1>4, <3>1
  <2> QED BY <1>4, <2>1, InWordsExact
<1>8. AffineX(J, c) = ToWords(A[1], c)
  BY DEF AffineX, A, i, j0
<1>9. Infinity[1] = 0
  BY DEF Infinity
<1> QED BY <1>1, <1>4, <1>5, <1>6, <1>7, <1>8, <1>9

(* The inverse of s that uECC_verify() computes is the inverse modulo n.   *)
LEMMA OrderInverse ==
  ASSUME NEW c \in Curves, NEW s \in VlisOf(c), Value(s) \in 1..(c.n - 1)
  PROVE  LET inverse == vli_modInv(s, Modulus(c.n, c))
         IN /\ inverse \in VlisOf(c) /\ Value(inverse) \in 1..(c.n - 1)
            /\ InverseMod(Value(s), c.n) = Value(inverse)
            /\ Congruent(Value(inverse) * Value(s), 1, c.n)
<1> DEFINE n == c.n
           x == Value(s)
           N == Modulus(c.n, c)
           m == c.num_words
           inverse == vli_modInv(s, N)
           w == Value(inverse)
           one == 1
           none == 0
<1>1. /\ n \in Nat \ {0} /\ 1 < n /\ m \in Nat \ {0} /\ N \in Vlis(m) /\ Value(N) = n /\ ~Even(N)
      /\ s \in Vlis(m)
  BY CurveFacts, OrderExact DEF VlisOf
<1>2. x \in Nat /\ 0 < x /\ x < n /\ x \in Int /\ ~Congruent(x, 0, n)
  <2>1. x \in Nat /\ 0 < x /\ x < n /\ x \in Int
    BY <1>1
  <2>2. x < 2 * n /\ x # n
    BY <1>1, <2>1
  <2> HIDE DEF x, n
  <2> QED BY <1>1, <2>1, <2>2, Between
<1>3. /\ inverse \in Vlis(m) /\ w < n /\ Congruent(w * x, one, n)
  <2>1. Coprime(x, n)
    BY <1>2, OrderCoprime
  <2> QED BY <1>1, <1>2, <2>1, ModInvExact
<1>4. w \in Int /\ 0 <= w
  BY <1>1, <1>3, ValueBound
<1> HIDE DEF x, n, w, one
<1>5. one % n = one /\ one \in 0..(n - 1) /\ one \in Int
  <2>1. one \in 0..(n - 1) /\ one \in Int
    BY <1>1 DEF one
  <2> QED BY <1>1, <2>1, SameRemainder
<1>6. w # 0
  <2>1. ASSUME w = 0 PROVE FALSE
    <3>1. w * x = none
      BY <1>2, <2>1
    <3>2. none \in 0..(n - 1) /\ none \in Int /\ Congruent(none, one, n)
      BY <1>1, <1>3, <3>1
    <3>3. none # one
      BY DEF one
    <3> HIDE DEF none
    <3> QED BY <1>1, <1>5, <3>2, <3>3, SameRemainder
  <2> QED BY <2>1
<1>7. \A i \in 0..(n - 1) : (i * x) % n = one => i = w
  <2>1. ASSUME NEW i \in 0..(n - 1), (i * x) % n = one PROVE i = w
    <3> DEFINE t == i * x
               u == w * x
               e == i - w
    <3>1. t \in Int /\ u \in Int /\ i \in Int /\ e \in Int /\ e * x = t - u
      BY <1>2, <1>4
    <3>2. t % n = one /\ Congruent(u, one, n)
      BY <1>3, <2>1
    <3> HIDE DEF t, u, e
    <3>3. Congruent(t, u, n)
      <4>1. Congruent(t, one, n) /\ Congruent(one, u, n)
        BY <1>1, <1>5, <3>1, <3>2, Reckoning
      <4> QED BY <1>1, <1>5, <3>1, <4>1, Reckoning
    <3>4. Congruent(e * x, 0, n)
      <4>1. Congruent(t - u, 0, n)
        BY <1>1, <3>1, <3>3, CongruentZero
      <4> QED BY <3>1, <4>1
    <3>5. Congruent(e, 0, n)
      BY <1>2, <3>1, <3>4, OrderNotZero DEF n
    <3>6. Congruent(i, w, n)
      BY <1>1, <1>4, <3>1, <3>5, CongruentZero DEF e
    <3>7. w \in 0..(n - 1)
      BY <1>1, <1>3, <1>4
    <3> QED BY <1>1, <1>4, <3>1, <3>6, <3>7, SameRemainder
  <2> QED BY <2>1
<1>8. w \in 0..(n - 1) /\ (w * x) % n = one
  <2> DEFINE u == w * x
  <2>1. u \in Int /\ Congruent(u, one, n)
    BY <1>2, <1>3, <1>4
  <2> HIDE DEF u
  <2>2. u % n = one
    BY <1>1, <1>5, <2>1, SameRemainder
  <2> QED BY <1>1, <1>3, <1>4, <2>2 DEF u
<1>9. InverseMod(x, n) = w
  <2>1. InverseMod(x, n) = CHOOSE i \in 0..(n - 1) : (i * x) % n = one
    BY DEF InverseMod, one
  <2> DEFINE Is(i) == i \in 0..(n - 1) /\ (i * x) % n = one
  <2>2. Is(w) /\ \A i : Is(i) => i = w
    BY <1>7, <1>8
  <2>3. InverseMod(x, n) = CHOOSE i : Is(i)
    BY <2>1
  <2> HIDE DEF Is
  <2> QED BY <2>2, <2>3
<1>10. w \in 1..(n - 1)
  BY <1>1, <1>3, <1>4, <1>6
<1> QED BY <1>3, <1>9, <1>10 DEF x, n, w, one, VlisOf

(* The R of a signature: the textbook's multiple of G.                     *)
TextbookR(A, e, r, w, c) ==
  Plus(Multiple((e * w) % c.n, c.G, c), Multiple((r * w) % c.n, A, c), c)
Combined(q, e, r, w, c) == ((e * w) % c.n) + ((r * w) % c.n) * q
(* It is the multiple of G by the combined factor.                         *)
LEMMA TextbookSum ==
  ASSUME NEW c \in Curves, NEW q \in Int, NEW e \in Int, NEW r \in Int, NEW w \in Int
  PROVE  TextbookR(Mul(q, c), e, r, w, c) = Mul(Combined(q, e, r, w, c), c)
<1> DEFINE u1 == (e * w) % c.n
           u2 == (r * w) % c.n
           G == c.G
           A == Mul(q, c)
<1>1. u1 \in Nat /\ u2 \in Nat
  <2> DEFINE t1 == e * w
             t2 == r * w
  <2>1. c.n \in Nat \ {0} /\ t1 \in Int /\ t2 \in Int
    BY CurveFacts
  <2> HIDE DEF t1, t2
  <2>2. t1 % c.n \in 0..(c.n - 1) /\ t2 % c.n \in 0..(c.n - 1)
    BY <2>1, Reckoning
  <2>3. t1 % c.n \in Nat /\ t2 % c.n \in Nat
    BY <2>1, <2>2
  <2> QED BY <2>3 DEF t1, t2
<1> HIDE DEF u1, u2
<1>2. G = Mul(1, c)
  BY MulFacts
<1> HIDE DEF G
<1>3. Multiple(u1, Mul(1, c), c) = Mul(u1 * 1, c) /\ u1 * 1 = u1
  BY <1>1, MultipleOfMul
<1>4. Multiple(u2, Mul(q, c), c) = Mul(u2 * q, c) /\ u2 * q \in Int
  BY <1>1, MultipleOfMul
<1> HIDE DEF A
<1>5. Plus(Mul(u1, c), Mul(u2 * q, c), c) = Mul(u1 + u2 * q, c)
  <2> DEFINE t == u2 * q
  <2>1. t \in Int /\ u1 \in Int
    BY <1>1, <1>4
  <2> HIDE DEF t
  <2> QED BY <2>1, MulFacts DEF t
<1> QED BY <1>2, <1>3, <1>4, <1>5 DEF u1, u2, G, A, TextbookR, Combined

(* uECC_verify() accepts only valid signatures, and all of them but for a  *)
(* sum that is lost on the way, for every public key but G and -G.         *)
THEOREM VerifyExact ==
  ASSUME NEW c \in Curves, NEW q \in Int, ~Congruent(q, 0, c.n), Mul(q, c)[1] # c.G[1],
         NEW e \in VlisOf(c), NEW r \in VlisOf(c), NEW s \in VlisOf(c)
  PROVE  LET ok == uECC_verify(Mul(q, c), e, r, s, c)
             valid == ValidSignature(Mul(q, c), Value(e), Value(r), Value(s), c)
         IN /\ ok => valid
            /\ valid /\ ~ok => VerifySum(Mul(q, c), e, r, s, c)[3] = 0
<1> DEFINE n == c.n
           N == Modulus(c.n, c)
           A == Mul(q, c)
           inverse == vli_modInv(s, N)
           v1 == vli_modMult(e, inverse, N)
           v2 == vli_modMult(r, inverse, N)
           J == VerifySum(A, e, r, s, c)
           u1 == (Value(e) * Value(inverse)) % n
           u2 == (Value(r) * Value(inverse)) % n
           x == u1 + u2 * q
           X == AffineX(J, c)
           ok == uECC_verify(A, e, r, s, c)
           valid == ValidSignature(A, Value(e), Value(r), Value(s), c)
<1>1. /\ n \in Nat \ {0} /\ c.num_words \in Nat \ {0} /\ c.num_words <= Base
      /\ N \in Vlis(c.num_words) /\ Value(N) = n /\ BaseTo(c.num_words - 1) <= Value(N)
      /\ e \in Vlis(c.num_words) /\ r \in Vlis(c.num_words) /\ s \in Vlis(c.num_words)
  BY CurveFacts, OrderExact DEF VlisOf
<1>2. Value(e) \in Int /\ Value(r) \in Int /\ Value(s) \in Int
  BY <1>1, ValueBound
<1>3. ok \/ valid => Value(r) \in 1..(n - 1) /\ Value(s) \in 1..(n - 1)
  BY InRangeExact DEF uECC_verify, ValidSignature
<1>4. ASSUME Value(r) \in 1..(n - 1), Value(s) \in 1..(n - 1)
      PROVE  (ok => valid) /\ (valid /\ ~ok => J[3] = 0)
  <2>1. /\ inverse \in VlisOf(c) /\ Value(inverse) \in 1..(n - 1)
        /\ InverseMod(Value(s), n) = Value(inverse)
    BY <1>4, OrderInverse
  <2>2. inverse \in Vlis(c.num_words)
    BY <2>1 DEF VlisOf
  <2> HIDE DEF inverse
  <2>3. v1 \in Vlis(c.num_words) /\ Value(v1) = u1 /\ v2 \in Vlis(c.num_words) /\ Value(v2) = u2
    <3>1. ASSUME NEW v \in Vlis(c.num_words)
          PROVE  /\ vli_modMult(v, inverse, N) \in Vlis(c.num_words)
                 /\ Value(vli_modMult(v, inverse, N)) = (Value(v) * Value(inverse)) % Value(N)
      <4> DEFINE m == c.num_words
      <4>1. m \in Nat \ {0} /\ m <= Base /\ N \in Vlis(m)
            /\ BaseTo(m - 1) <= Value(N) /\ v \in Vlis(m) /\ inverse \in Vlis(m)
        BY <1>1, <2>2
      <4> HIDE DEF m, N
      <4> QED BY <4>1, ModMultExact DEF m
    <3>2. v1 \in Vlis(c.num_words) /\ v2 \in Vlis(c.num_words)
      BY <1>1, <3>1
    <3>3. Value(v1) = u1 /\ Value(v2) = u2
      <4> HIDE DEF N
      <4> QED BY <1>1, <3>1
    <3> QED BY <3>2, <3>3
  <2>4. Value(v1) \in Int /\ Value(v2) \in Int
    BY <1>1, <2>3, ValueBound
  <2>5. u2 # 0 /\ u1 \in Int /\ u2 \in Int
    <3> DEFINE a == Value(r)
               b == Value(inverse)
               t == a * b
               none == 0
    <3>1. a \in Nat /\ 0 < a /\ a < n /\ b \in Nat /\ 0 < b /\ b < n /\ t \in Int
      BY <1>1, <1>2, <1>4, <2>1
    <3>2. ~Congruent(a, 0, n) /\ ~Congruent(b, 0, n)
      <4>1. a < 2 * n /\ b < 2 * n /\ a # n /\ b # n
        BY <1>1, <3>1
      <4> HIDE DEF a, b, n
      <4> QED BY <1>1, <3>1, <4>1, Between
    <3>3. ~Congruent(t, none, n)
      <4> HIDE DEF a, b
      <4> QED BY <3>1, <3>2, OrderNotZero
    <3> HIDE DEF t, none
    <3>4. t % n \in Int /\ Congruent(t % n, t, n) /\ none \in Int
      <4>1. t \in Int /\ n \in Nat \ {0}
        BY <1>1, <3>1
      <4>2. none \in Int
        BY DEF none
      <4> HIDE DEF n
      <4>3. t % n \in Int /\ Congruent(t % n, t, n)
        BY <4>1, Reckoning
      <4> QED BY <4>2, <4>3
    <3>5. t % n # none
      <4>1. ASSUME t % n = none PROVE FALSE
        <5>1. Congruent(t, none, n)
          BY <1>1, <3>1, <3>4, <4>1, Reckoning
        <5> QED BY <3>3, <5>1
      <4> QED BY <4>1
    <3> QED BY <2>3, <2>4, <3>5 DEF t, none
  <2>6. Stands(J, x, c)
    <3>1. GPlus(A, c) = Mul(1 + q, c) /\ ~Congruent(1 + q, 0, n)
      BY GPlusExact
    <3>2. J = TwoMultiples(v1, v2, A, Mul(1 + q, c), c)
      BY <3>1 DEF VerifySum, WithInverse, v1, v2, inverse
    <3>3. v1 \in VlisOf(c) /\ v2 \in VlisOf(c) /\ Value(v2) # 0
      BY <2>3, <2>5 DEF VlisOf
    <3> HIDE DEF v1, v2, J
    <3>4. Stands(TwoMultiples(v1, v2, Mul(q, c), Mul(1 + q, c), c), Value(v1) + Value(v2) * q, c)
      BY <3>1, <3>3, ShamirExact
    <3> QED BY <2>3, <3>2, <3>4
  <2>7. x \in Int
    <3> HIDE DEF u1, u2
    <3> QED BY <2>5
  <2>8. valid <=> Mul(x, c) # Zero /\ Mul(x, c)[1] % n = Value(r)
    <3>1. Plus(Multiple(u1, c.G, c), Multiple(u2, A, c), c) = Mul(x, c)
      <4>1. Value(inverse) \in Int
        BY <2>1
      <4>2. TextbookR(A, Value(e), Value(r), Value(inverse), c) = Mul(Combined(q, Value(e), Value(r), Value(inverse), c), c)
        BY <1>2, <4>1, TextbookSum
      <4> QED BY <4>2 DEF TextbookR, Combined
    <3> HIDE DEF A, x
    <3> QED BY <1>4, <2>1, <3>1 DEF ValidSignature
  <2> HIDE DEF x, J, valid
  <2>9. /\ X \in VlisOf(c) /\ Value(X) < c.p
        /\ J[3] = 0 => Value(X) = 0
        /\ J[3] # 0 => Value(X) = Mul(x, c)[1]
    BY <2>6, <2>7, AffineExact
  <2> HIDE DEF X
  <2>10. Once(X, N) \in VlisOf(c) /\ Value(Once(X, N)) = Value(X) % n
    BY <2>9, OnceExact
  <2>11. ok <=> Value(X) % n = Value(r)
    <3>1. InRange(r, c) /\ InRange(s, c)
      BY <1>4, InRangeExact
    <3>2. ok <=> vli_equal(Once(X, N), r)
      BY <3>1 DEF uECC_verify, X, J
    <3>3. Once(X, N) \in Vlis(c.num_words)
      BY <2>10 DEF VlisOf
    <3>4. vli_equal(Once(X, N), r) <=> Once(X, N) = r
      BY <1>1, <3>3, EqualExact
    <3>5. Once(X, N) = r <=> Value(Once(X, N)) = Value(r)
      BY <1>1, <3>3, ValueUnique
    <3> QED BY <2>10, <3>2, <3>4, <3>5
  <2>12. CASE J[3] = 0
    <3>1. 0 % n = 0
      BY <1>1
    <3>2. ~ok
      BY <1>4, <2>9, <2>11, <2>12, <3>1
    <3> QED BY <2>12, <3>2
  <2>13. CASE J[3] # 0
    <3>1. Mul(x, c) # Zero
      BY <2>6, <2>7, <2>13, MulFacts DEF Stands
    <3> QED BY <2>8, <2>9, <2>11, <2>13, <3>1
  <2> QED BY <2>12, <2>13
<1> QED BY <1>3, <1>4

(* What the equation of a signature says of the sum that is verified.      *)
LEMMA EquationSum ==
  ASSUME NEW n \in Nat \ {0}, NEW e \in Int, NEW r \in Int, NEW s \in Int, NEW w \in Int,
         NEW nonce \in Int, NEW private \in Int,
         Congruent(w * s, 1, n), (s * nonce - e - r * private) % n = 0
  PROVE  LET u1 == (e * w) % n
             u2 == (r * w) % n
         IN u1 \in Int /\ u2 \in Int /\ Congruent(u1 + u2 * private, nonce, n)
<1> DEFINE u1 == (e * w) % n
           u2 == (r * w) % n
           t1 == e * w
           t2 == r * w
           y == s * nonce - e - r * private
           x == u1 + u2 * private
           a == t1 + t2 * private
           b == w * (s * nonce)
           f == (w * s) * nonce
           none == 0
           one == 1
<1>1. t1 \in Int /\ t2 \in Int /\ y \in Int /\ none \in Int /\ one \in Int
  OBVIOUS
<1>2. u1 \in Int /\ Congruent(u1, t1, n) /\ u2 \in Int /\ Congruent(u2, t2, n)
      /\ \A z \in Int : Congruent(z, z, n)
  <2> HIDE DEF t1, t2
  <2> QED BY <1>1, Reckoning DEF t1, t2
<1>3. Congruent(x, a, n) /\ x \in Int /\ a \in Int
  <2> HIDE DEF u1, u2, t1, t2
  <2> DEFINE v == u2 * private
             t == t2 * private
  <2>1. v \in Int /\ t \in Int
    BY <1>1, <1>2
  <2>2. Congruent(v, t, n)
    BY <1>1, <1>2, Product
  <2> HIDE DEF v, t
  <2>3. Congruent(u1 + v, t1 + t, n) /\ u1 + v \in Int /\ t1 + t \in Int
    BY <1>1, <1>2, <2>1, <2>2, Difference
  <2> QED BY <2>3 DEF v, t
<1>4. Congruent(y, none, n)
  <2>1. y % n = none
    OBVIOUS
  <2> HIDE DEF y, none
  <2>2. Congruent(y % n, y, n)
    BY <1>1, Reckoning
  <2> QED BY <1>1, <2>1, <2>2, Reckoning
<1>5. Congruent(b, a, n) /\ b \in Int
  <2> DEFINE v == w * y
             z == w * none
  <2>1. \A x1, x2, x3, x4, x5, x6 \in Int :
          x1 * (x2 * x3 - x4 - x5 * x6) = x1 * (x2 * x3) - (x4 * x1 + (x5 * x1) * x6)
    OBVIOUS
  <2>2. v = b - a /\ b \in Int /\ z = none /\ v \in Int
    BY <2>1
  <2>3. Congruent(v, z, n)
    <3> HIDE DEF y, none
    <3> QED BY <1>1, <1>2, <1>4, Product
  <2> HIDE DEF v, z, a, b
  <2>4. Congruent(b - a, 0, n)
    BY <2>2, <2>3 DEF none
  <2> QED BY <1>3, <2>2, <2>4, CongruentZero
<1>6. Congruent(f, nonce, n) /\ f \in Int /\ f = b
  <2>1. \A x1, x2, x3 \in Int : (x1 * x2) * x3 = x1 * (x2 * x3)
    OBVIOUS
  <2> DEFINE g == w * s
             z == one * nonce
  <2>2. g \in Int /\ Congruent(g, one, n) /\ z = nonce /\ f = b /\ f \in Int
    BY <2>1
  <2> HIDE DEF g, one
  <2>3. Congruent(g * nonce, one * nonce, n)
    BY <1>1, <1>2, <2>2, Product
  <2> QED BY <2>2, <2>3 DEF g
<1>7. Congruent(x, nonce, n)
  <2> HIDE DEF x, a, b, f
  <2>1. Congruent(x, b, n)
    BY <1>3, <1>5, Reckoning
  <2> QED BY <1>3, <1>5, <1>6, <2>1, Reckoning
<1> QED BY <1>2, <1>7

(* A signature that satisfies the equation, with the x of its nonce's      *)
(* point for r, is valid.                                                  *)
THEOREM SignedValid ==
  ASSUME NEW c \in Curves, NEW nonce \in 1..(c.n - 1), NEW private \in Int,
         NEW e \in VlisOf(c), NEW r \in VlisOf(c), NEW s \in VlisOf(c),
         Value(r) \in 1..(c.n - 1), Value(s) \in 1..(c.n - 1),
         Value(r) = Mul(nonce, c)[1],
         (Value(s) * nonce - Value(e) - Value(r) * private) % c.n = 0
  PROVE  ValidSignature(Mul(private, c), Value(e), Value(r), Value(s), c)
<1> DEFINE n == c.n
           inverse == vli_modInv(s, Modulus(n, c))
           w == Value(inverse)
           u1 == (Value(e) * w) % n
           u2 == (Value(r) * w) % n
           x == u1 + u2 * private
<1>1. n \in Nat \ {0} /\ c.num_words \in Nat /\ e \in Vlis(c.num_words)
  BY CurveFacts DEF VlisOf
<1>2. Value(e) \in Int /\ Value(r) \in Int /\ Value(s) \in Int /\ nonce \in Int
  BY <1>1, ValueBound
<1>3. w \in 1..(n - 1) /\ InverseMod(Value(s), n) = w /\ Congruent(w * Value(s), 1, n) /\ w \in Int
  BY <1>1, OrderInverse
<1> HIDE DEF w
<1>4. u1 \in Int /\ u2 \in Int /\ Congruent(x, nonce, n)
  BY <1>1, <1>2, <1>3, EquationSum
<1>5. Plus(Multiple(u1, c.G, c), Multiple(u2, Mul(private, c), c), c) = Mul(x, c)
  <2> DEFINE e0 == Value(e)
             r0 == Value(r)
  <2>1. e0 \in Int /\ r0 \in Int
    BY <1>2
  <2> HIDE DEF e0, r0, n
  <2>2. TextbookR(Mul(private, c), e0, r0, w, c) = Mul(Combined(private, e0, r0, w, c), c)
    BY <1>3, <2>1, TextbookSum
  <2> QED BY <2>2 DEF e0, r0, n, TextbookR, Combined
<1>6. Mul(x, c) = Mul(nonce, c)
  <2>1. x \in Int
    <3> HIDE DEF u1, u2
    <3> QED BY <1>4
  <2> HIDE DEF x
  <2> QED BY <1>2, <1>4, <2>1, MulFacts, ZenonT(60)
<1>7. Mul(nonce, c) # Zero
  <2>1. nonce \in Nat /\ 0 < nonce /\ nonce < 2 * n /\ nonce # n
    BY <1>1
  <2>2. ~Congruent(nonce, 0, n)
    <3> HIDE DEF n
    <3> QED BY <1>1, <2>1, Between
  <2> QED BY <1>2, <2>2, MulFacts
<1>8. Mul(nonce, c)[1] % n = Value(r)
  <2> DEFINE y == Value(r)
  <2>1. y \in 0..(n - 1) /\ y \in Int
    BY <1>1, <1>2
  <2> HIDE DEF y, n
  <2>2. y % n = y
    BY <1>1, <2>1, SameRemainder
  <2> QED BY <2>2 DEF y
<1> HIDE DEF x
<1> QED BY <1>3, <1>5, <1>6, <1>7, <1>8 DEF ValidSignature

-----------------------------------------------------------------------------
(* Square roots, by Fermat's little theorem.                               *)

(* Running products: those below n of the numbers g gives.                 *)
Running(f, g) == f \in [Nat -> Int] /\ f[0] = 1 /\ \A n \in Nat : f[n + 1] = f[n] * g[n]
RunningProduct(g) == CHOOSE f : Running(f, g)
(* There is such a function.                                               *)
LEMMA RunningProducts ==
  ASSUME NEW g \in [Nat -> Int]
  PROVE  Running(RunningProduct(g), g)
<1> DEFINE step == [n \in Nat |-> [x \in Int |-> x * g[n]]]
           one == 1
<1>1. step \in [Nat -> [Int -> Int]]
  <2>1. \A x, y \in Int : x * y \in Int
    OBVIOUS
  <2>2. ASSUME NEW n \in Nat, NEW x \in Int PROVE x * g[n] \in Int
    <3>1. g[n] \in Int
      OBVIOUS
    <3> QED BY <2>1, <3>1
  <2> QED BY <2>2
<1>2. PICK f : Follows(f, Int, one, step)
  <2>1. one \in Int
    OBVIOUS
  <2> HIDE DEF step, one
  <2> QED BY <1>1, <2>1, RecursionExists
<1>3. \A n \in Nat : f[n + 1] = f[n] * g[n]
  <2>1. TAKE n \in Nat
  <2>2. f[n + 1] = step[n][f[n]] /\ f[n] \in Int
    BY <1>2 DEF Follows
  <2> QED BY <2>2
<1>4. Running(f, g)
  BY <1>2, <1>3 DEF Follows, Running
<1> QED BY <1>4 DEF RunningProduct

Factors(S) == [n \in Nat |-> IF n \in S THEN n ELSE 1]
ProductOf(S, m) == RunningProduct(Factors(S))[m]
(* The product of the numbers of S below m, one factor at a time.          *)
LEMMA FactorsProduct ==
  ASSUME NEW S
  PROVE  /\ ProductOf(S, 0) = 1
         /\ \A n \in Nat : /\ ProductOf(S, n) \in Int
                           /\ ProductOf(S, n + 1) = ProductOf(S, n) * (IF n \in S THEN n ELSE 1)
<1> DEFINE g == Factors(S)
           f == RunningProduct(g)
<1>1. g \in [Nat -> Int] /\ \A n \in Nat : g[n] = IF n \in S THEN n ELSE 1
  BY DEF Factors
<1> HIDE DEF g
<1>2. Running(f, g)
  BY <1>1, RunningProducts
<1> HIDE DEF f
<1>3. f[0] = 1 /\ \A n \in Nat : f[n] \in Int /\ f[n + 1] = f[n] * g[n]
  BY <1>2 DEF Running
<1>4. \A n \in Nat : f[n + 1] = f[n] * (IF n \in S THEN n ELSE 1)
  BY <1>1, <1>3
<1> QED BY <1>3, <1>4 DEF ProductOf, f, g

(* A number more is a factor more.                                         *)
LEMMA OneFactorMore ==
  ASSUME NEW S, NEW x \in Nat, x \notin S, NEW m \in Nat, x < m
  PROVE  ProductOf(S \cup {x}, m) = x * ProductOf(S, m)
<1> DEFINE U == S \cup {x}
           e(n) == IF n <= x THEN 1 ELSE x
           Good == {n \in Nat : ProductOf(U, n) = e(n) * ProductOf(S, n)}
<1>1. 0 \in Good
  <2>1. e(0) = 1 /\ ProductOf(U, 0) = 1 /\ ProductOf(S, 0) = 1
    BY FactorsProduct
  <2> QED BY <2>1
<1>2. ASSUME NEW n \in Good PROVE n + 1 \in Good
  <2> DEFINE w == ProductOf(S, n)
             v == ProductOf(U, n)
  <2>1. n \in Nat /\ v = e(n) * w /\ n + 1 \in Nat
    BY <1>2
  <2>2. /\ w \in Int /\ ProductOf(S, n + 1) = w * (IF n \in S THEN n ELSE 1)
        /\ ProductOf(U, n + 1) = v * (IF n \in U THEN n ELSE 1)
    BY <2>1, FactorsProduct
  <2> HIDE DEF w, v
  <2>3. CASE n = x
    <3>1. n \in U /\ n \notin S /\ e(n) = 1 /\ e(n + 1) = x
      BY <2>1, <2>3
    <3>2. ProductOf(U, n + 1) = (1 * w) * x /\ ProductOf(S, n + 1) = w * 1
      BY <2>1, <2>2, <2>3, <3>1
    <3>3. (1 * w) * x = x * (w * 1)
      BY <2>2
    <3> QED BY <2>1, <3>1, <3>2, <3>3
  <2>4. CASE n # x
    <3> DEFINE y == IF n \in S THEN n ELSE 1
               f == e(n)
    <3>1. (n \in U <=> n \in S) /\ e(n + 1) = f /\ y \in Int /\ f \in Int
      BY <2>1, <2>4
    <3>2. ProductOf(U, n + 1) = (f * w) * y /\ ProductOf(S, n + 1) = w * y
      BY <2>1, <2>2, <3>1
    <3> HIDE DEF y, f
    <3>3. (f * w) * y = f * (w * y)
      BY <2>2, <3>1
    <3>4. ProductOf(U, n + 1) = e(n + 1) * ProductOf(S, n + 1)
      BY <3>1, <3>2, <3>3
    <3> HIDE DEF e
    <3> QED BY <2>1, <3>4
  <2> QED BY <2>3, <2>4
<1>3. Good = Nat
  <2>1. Good \in SUBSET Nat
    OBVIOUS
  <2> HIDE DEF Good
  <2> QED BY <1>1, <1>2, <2>1, SetInduction
<1>4. ProductOf(U, m) = e(m) * ProductOf(S, m) /\ e(m) = x
  BY <1>3
<1> QED BY <1>4

(* The empty product.                                                      *)
LEMMA NoFactors == \A m \in Nat : ProductOf({}, m) = 1
<1> DEFINE Good == {n \in Nat : ProductOf({}, n) = 1}
<1>1. 0 \in Good
  BY FactorsProduct
<1>2. ASSUME NEW n \in Good PROVE n + 1 \in Good
  BY <1>2, FactorsProduct
<1>3. Good = Nat
  <2>1. Good \in SUBSET Nat
    OBVIOUS
  <2> HIDE DEF Good
  <2> QED BY <1>1, <1>2, <2>1, SetInduction
<1> QED BY <1>3

(* Powers.                                                                 *)
Power(x, n) == RunningProduct([i \in Nat |-> x])[n]
(* Powers, one factor at a time.                                           *)
LEMMA PowerDefined ==
  ASSUME NEW x \in Int
  PROVE  /\ Power(x, 0) = 1
         /\ \A n \in Nat : Power(x, n) \in Int /\ Power(x, n + 1) = Power(x, n) * x
<1> DEFINE g == [i \in Nat |-> x]
           f == RunningProduct(g)
<1>1. g \in [Nat -> Int] /\ \A n \in Nat : g[n] = x
  OBVIOUS
<1> HIDE DEF g
<1>2. Running(f, g)
  BY <1>1, RunningProducts
<1> HIDE DEF f
<1>3. f[0] = 1 /\ \A n \in Nat : f[n] \in Int /\ f[n + 1] = f[n] * x
  BY <1>1, <1>2 DEF Running
<1> QED BY <1>3 DEF Power, f, g

(* The power of a sum of exponents.                                        *)
LEMMA PowerSum ==
  ASSUME NEW x \in Int, NEW m \in Nat, NEW n \in Nat
  PROVE  Power(x, m + n) = Power(x, m) * Power(x, n)
<1> DEFINE Good == {i \in Nat : Power(x, m + i) = Power(x, m) * Power(x, i)}
<1>1. 0 \in Good
  <2>1. m + 0 = m /\ Power(x, m) * 1 = Power(x, m) /\ Power(x, 0) = 1
    BY PowerDefined
  <2> QED BY <2>1
<1>2. ASSUME NEW i \in Good PROVE i + 1 \in Good
  <2> DEFINE u == Power(x, m)
             v == Power(x, i)
             w == Power(x, m + i)
  <2>1. i \in Nat /\ i + 1 \in Nat /\ m + i \in Nat /\ m + (i + 1) = (m + i) + 1 /\ w = u * v
    BY <1>2
  <2>2. u \in Int /\ v \in Int /\ Power(x, i + 1) = v * x /\ Power(x, (m + i) + 1) = w * x
    BY <2>1, PowerDefined
  <2> HIDE DEF u, v, w
  <2>3. (u * v) * x = u * (v * x)
    BY <2>2
  <2> QED BY <2>1, <2>2, <2>3 DEF u
<1>3. Good = Nat
  <2>1. Good \in SUBSET Nat
    OBVIOUS
  <2> HIDE DEF Good
  <2> QED BY <1>1, <1>2, <2>1, SetInduction
<1> QED BY <1>3

(* Fermat's little theorem: a times each of 1..p-1 is each of 1..p-1.      *)
Images(a, m, c) == {(a * i) % c.p : i \in 1..m}
(* The product of the first N images of a is, modulo p, a to the N times N *)
(* factorial.                                                              *)
LEMMA ImagesProduct ==
  ASSUME NEW c \in Curves, NEW a \in Int, ~Congruent(a, 0, c.p), NEW N \in Nat, N < c.p
  PROVE  Congruent(ProductOf(Images(a, N, c), c.p), Power(a, N) * ProductOf(1..N, c.p), c.p)
<1> DEFINE p == c.p
           T(m) == Images(a, m, c)
           f(i) == (a * i) % p
           lhs(m) == ProductOf(T(m), p)
           rhs(m) == Power(a, m) * ProductOf(1..m, p)
           S == {m \in 0..N : Congruent(lhs(m), rhs(m), p)}
<1>1. p \in Nat \ {0} /\ N < p
  BY FieldFacts
<1>2. \A m \in Nat : lhs(m) \in Int /\ Power(a, m) \in Int /\ ProductOf(1..m, p) \in Int /\ rhs(m) \in Int
  <2>1. TAKE m \in Nat
  <2>2. lhs(m) \in Int /\ Power(a, m) \in Int /\ ProductOf(1..m, p) \in Int
    BY <1>1, FactorsProduct, PowerDefined
  <2> QED BY <2>2
<1>3. 0 \in S
  <2>1. T(0) = {} /\ 1..0 = {}
    BY DEF Images
  <2>2. lhs(0) = 1 /\ rhs(0) = 1 * 1
    BY <1>1, <2>1, NoFactors, PowerDefined
  <2>3. lhs(0) = rhs(0) /\ lhs(0) \in Int
    BY <1>2, <2>2
  <2> HIDE DEF lhs, rhs, p
  <2>4. Congruent(lhs(0), lhs(0), p)
    BY <1>1, <2>3, Reckoning
  <2> QED BY <2>3, <2>4
<1>4. \A i \in Int : a * i \in Int /\ f(i) \in 0..(p - 1) /\ f(i) \in Int /\ Congruent(f(i), a * i, p)
  <2>1. TAKE i \in Int
  <2> DEFINE t == a * i
  <2>2. t \in Int
    OBVIOUS
  <2> HIDE DEF t, p
  <2>3. t % p \in 0..(p - 1) /\ t % p \in Int /\ Congruent(t % p, t, p)
    BY <1>1, <2>2, Reckoning
  <2> QED BY <2>2, <2>3 DEF t
<1>5. ASSUME NEW m \in 0..(N - 1), m \in S PROVE m + 1 \in S
  <2> DEFINE x == f(m + 1)
             n1 == m + 1
             y == ProductOf(1..m, p)
             w == Power(a, m)
             l == lhs(m)
  <2>1. m \in Nat /\ n1 \in Nat /\ n1 \in Int /\ n1 < p /\ n1 \in 0..N /\ Congruent(l, w * y, p) /\ n1 \in 0..(p - 1)
    BY <1>1, <1>5
  <2>2. l \in Int /\ w \in Int /\ y \in Int
    BY <1>2, <2>1
  <2>3. x \in 0..(p - 1) /\ x \in Nat /\ x < p /\ Congruent(x, a * n1, p) /\ x \in Int
    <3>1. x \in 0..(p - 1) /\ Congruent(x, a * n1, p) /\ x \in Int
      BY <1>4, <2>1
    <3> HIDE DEF x, n1
    <3> QED BY <1>1, <3>1
  <2>4. x \notin T(m)
    <3>1. ASSUME NEW i \in 1..m, f(i) = x PROVE FALSE
      <4>1. i \in Int /\ i \in 0..(p - 1) /\ i # n1
        BY <1>1, <2>1
      <4> DEFINE u == a * i
                 v == a * n1
      <4>2. u \in Int /\ v \in Int /\ Congruent(x, u, p) /\ Congruent(x, v, p)
        BY <1>4, <2>1, <2>3, <3>1, <4>1
      <4> HIDE DEF u, v, x, p
      <4>3. Congruent(u, v, p)
        BY <1>1, <2>3, <4>2, Reckoning
      <4>4. Congruent(i, n1, p)
        <5> HIDE DEF n1
        <5> QED BY <2>1, <4>1, <4>3, Cancelled DEF u, v, p
      <4> HIDE DEF n1
      <4> QED BY <1>1, <2>1, <4>1, <4>4, SameRemainder
    <3> QED BY <3>1 DEF Images
  <2>5. T(n1) = T(m) \cup {x} /\ 1..n1 = (1..m) \cup {n1} /\ n1 \notin 1..m
    <3>1. 1..n1 = (1..m) \cup {n1} /\ n1 \notin 1..m
      BY <2>1
    <3> HIDE DEF p
    <3> QED BY <3>1 DEF Images, p
  <2>6. lhs(n1) = x * l
    <3> HIDE DEF x, n1
    <3> QED BY <1>1, <2>3, <2>4, <2>5, OneFactorMore
  <2>7. ProductOf(1..n1, p) = n1 * y
    <3> HIDE DEF n1
    <3>1. ProductOf((1..m) \cup {n1}, p) = n1 * y
      <4>1. n1 \in Nat /\ n1 \notin 1..m /\ p \in Nat /\ n1 < p
        BY <1>1, <2>1, <2>5
      <4> HIDE DEF p
      <4> QED BY <4>1, OneFactorMore
    <3> QED BY <2>5, <3>1
  <2>8. Power(a, n1) = w * a
    BY <2>1, PowerDefined
  <2>9. rhs(n1) = (a * n1) * (w * y)
    <3>1. rhs(n1) = (w * a) * (n1 * y)
      BY <2>7, <2>8
    <3>2. (w * a) * (n1 * y) = (a * n1) * (w * y)
      <4> HIDE DEF w, n1, y
      <4> QED BY <2>1, <2>2
    <3> QED BY <3>1, <3>2
  <2>10. Congruent(x * l, (a * n1) * (w * y), p)
    <3> DEFINE u == a * n1
               v == w * y
    <3>1. u \in Int /\ v \in Int /\ Congruent(x, u, p) /\ Congruent(l, v, p)
      BY <2>1, <2>2, <2>3
    <3> HIDE DEF u, v, x, l, p
    <3>2. Congruent(x * l, u * v, p)
      BY <1>1, <2>2, <2>3, <3>1, Product
    <3> QED BY <3>2 DEF u, v
  <2> HIDE DEF lhs, rhs
  <2> QED BY <2>1, <2>6, <2>9, <2>10
<1>6. N \in S
  <2> HIDE DEF S
  <2>1. 0..N \subseteq S
    BY <1>3, <1>5, IntervalInduction
  <2> QED BY <2>1
<1> QED BY <1>6

(* The product of numbers below p is not 0 modulo p.                       *)
LEMMA ProductNotZero ==
  ASSUME NEW c \in Curves, NEW N \in Nat, N < c.p
  PROVE  ~Congruent(ProductOf(1..N, c.p), 0, c.p)
<1> DEFINE p == c.p
           S == {m \in 0..N : ~Congruent(ProductOf(1..m, p), 0, p)}
<1>1. p \in Nat \ {0} /\ N < p /\ 2 < p
  BY FieldFacts
<1>2. 0 \in S
  <2>1. 1..0 = {}
    OBVIOUS
  <2>2. ProductOf(1..0, p) = 1
    BY <1>1, <2>1, NoFactors
  <2>3. ~Congruent(1, 0, p)
    BY <1>1, CoordinateNotZero
  <2> QED BY <2>2, <2>3
<1>3. ASSUME NEW m \in 0..(N - 1), m \in S PROVE m + 1 \in S
  <2> DEFINE n1 == m + 1
             y == ProductOf(1..m, p)
  <2>1. /\ m \in Nat /\ n1 \in Nat /\ n1 \in Int /\ n1 < p /\ n1 \in 0..N /\ n1 \in 0..(p - 1) /\ n1 # 0
        /\ 1..n1 = (1..m) \cup {n1} /\ n1 \notin 1..m /\ ~Congruent(y, 0, p)
    BY <1>1, <1>3
  <2>2. y \in Int
    BY <1>1, FactorsProduct
  <2> HIDE DEF n1
  <2>3. ProductOf(1..n1, p) = n1 * y
    BY <1>1, <2>1, OneFactorMore, ZenonT(60)
  <2> HIDE DEF y
  <2>4. ~Congruent(n1, 0, p)
    BY <2>1, CoordinateNotZero
  <2>5. ~Congruent(n1 * y, 0, p)
    BY <2>1, <2>2, <2>4, NotZero
  <2> QED BY <2>1, <2>3, <2>5 DEF n1
<1>4. N \in S
  <2> HIDE DEF S
  <2>1. 0..N \subseteq S
    BY <1>2, <1>3, IntervalInduction
  <2> QED BY <2>1
<1> QED BY <1>4

(* Multiplying by a permutes 1..p-1.                                       *)
LEMMA AllImages ==
  ASSUME NEW c \in Curves, NEW a \in Int, ~Congruent(a, 0, c.p)
  PROVE  Images(a, c.p - 1, c) = 1..(c.p - 1)
<1> DEFINE p == c.p
           f(i) == (a * i) % p
<1>1. p \in Nat \ {0} /\ 2 < p
  BY FieldFacts
<1>4. \A i \in Int : a * i \in Int /\ f(i) \in 0..(p - 1) /\ f(i) \in Int /\ Congruent(f(i), a * i, p)
  <2>1. TAKE i \in Int
  <2> DEFINE t == a * i
  <2>2. t \in Int
    OBVIOUS
  <2> HIDE DEF t, p
  <2>3. t % p \in 0..(p - 1) /\ t % p \in Int /\ Congruent(t % p, t, p)
    BY <1>1, <2>2, Reckoning
  <2> QED BY <2>2, <2>3 DEF t
<1>5. ASSUME NEW i \in 1..(p - 1) PROVE f(i) \in 1..(p - 1)
  <2> DEFINE t == a * i
             v == f(i)
  <2>1. i \in Int /\ i \in 0..(p - 1) /\ i # 0
    BY <1>1
  <2>2. ~Congruent(i, 0, p)
    BY <2>1, CoordinateNotZero
  <2>3. t \in Int /\ ~Congruent(t, 0, p)
    BY <2>1, <2>2, NotZero
  <2>4. v \in 0..(p - 1) /\ v \in Int /\ Congruent(v, t, p)
    BY <1>4, <2>1
  <2> HIDE DEF t, v, p
  <2>5. v # 0
    <3>1. ASSUME v = 0 PROVE FALSE
      <4>1. 0 \in Int /\ Congruent(0, t, p)
        BY <2>4, <3>1
      <4> DEFINE none == 0
      <4>2. none \in Int /\ Congruent(none, t, p) /\ ~Congruent(t, none, p)
        BY <2>3, <4>1
      <4> HIDE DEF none
      <4> QED BY <1>1, <2>3, <4>2, Reckoning
    <3> QED BY <3>1
  <2> QED BY <1>1, <2>4, <2>5 DEF v
<1>6. ASSUME NEW j \in 1..(p - 1) PROVE \E i \in 1..(p - 1) : j = f(i)
  <2>1. PICK inv \in 0..(p - 1) : Congruent(inv * a, 1, p)
    BY HasInverse
  <2> DEFINE t == inv * j
             i == t % p
             u == a * i
             v == (inv * a) * j
             one == 1
             none == 0
  <2>2. j \in Int /\ j \in 0..(p - 1) /\ j # 0 /\ inv \in Int /\ t \in Int /\ one \in Int /\ none \in Int
    BY <1>1
  <2>3. i \in 0..(p - 1) /\ i \in Int /\ Congruent(i, t, p)
    <3> HIDE DEF t, p
    <3> QED BY <1>1, <2>2, Reckoning
  <2> HIDE DEF i
  <2>4. Congruent(u, a * t, p) /\ u \in Int /\ a * t \in Int /\ a * t = v /\ v \in Int
    <3>1. Congruent(a, a, p)
      BY <1>1, Reckoning
    <3>2. Congruent(a * i, a * t, p)
      <4> HIDE DEF t, p
      <4> QED BY <1>1, <2>2, <2>3, <3>1, Product
    <3>3. a * (inv * j) = (inv * a) * j /\ a * t \in Int /\ (inv * a) * j \in Int /\ a * i \in Int
      BY <2>2, <2>3
    <3> QED BY <3>2, <3>3
  <2>5. Congruent(v, j, p)
    <3> DEFINE h == inv * a
    <3>1. h \in Int /\ Congruent(h, one, p)
      BY <2>1, <2>2
    <3>2. Congruent(j, j, p)
      BY <1>1, <2>2, Reckoning
    <3>3. one * j = j
      BY <2>2
    <3> HIDE DEF h, one, p
    <3>4. Congruent(h * j, one * j, p)
      BY <1>1, <2>2, <3>1, <3>2, Product
    <3> QED BY <3>3, <3>4 DEF h
  <2>6. f(i) = j
    <3> DEFINE l == f(i)
    <3>1. l \in 0..(p - 1) /\ l \in Int /\ Congruent(l, u, p)
      BY <1>4, <2>3
    <3>2. Congruent(u, v, p)
      BY <2>4
    <3> HIDE DEF u, v, l, p
    <3>3. Congruent(l, v, p)
      BY <1>1, <2>4, <3>1, <3>2, Reckoning
    <3>4. Congruent(l, j, p)
      BY <1>1, <2>2, <2>4, <2>5, <3>1, <3>3, Reckoning
    <3>5. l = j
      BY <1>1, <2>2, <3>1, <3>4, SameRemainder
    <3> QED BY <3>5 DEF l
  <2>7. i # 0
    <3>1. ASSUME i = none PROVE FALSE
      <4>1. u = none
        BY <3>1
      <4>2. Congruent(none, v, p)
        BY <2>4, <4>1
      <4>3. Congruent(none, j, p) /\ none \in 0..(p - 1)
        <5> HIDE DEF u, v, none, p
        <5>1. Congruent(none, j, p)
          BY <1>1, <2>2, <2>4, <2>5, <4>2, Reckoning
        <5> QED BY <1>1, <5>1 DEF none, p
      <4> HIDE DEF none
      <4>4. none = j
        BY <1>1, <2>2, <4>3, SameRemainder
      <4> QED BY <2>2, <4>4 DEF none
    <3> QED BY <3>1
  <2>8. i \in 1..(p - 1)
    BY <1>1, <2>3, <2>7
  <2> QED BY <2>6, <2>8
<1> HIDE DEF p
<1> QED BY <1>5, <1>6 DEF Images, p

(* Fermat's little theorem: both products are the same and can be          *)
(* cancelled.                                                              *)
LEMMA Fermat ==
  ASSUME NEW c \in Curves, NEW a \in Int, ~Congruent(a, 0, c.p)
  PROVE  Congruent(Power(a, c.p - 1), 1, c.p)
<1> DEFINE N == c.p - 1
           all == ProductOf(1..N, c.p)
           w == Power(a, N)
           one == 1
<1>1. c.p \in Nat \ {0} /\ N \in Nat /\ N < c.p /\ one \in Int
  BY FieldFacts
<1>2. all \in Int /\ w \in Int
  BY <1>1, FactorsProduct, PowerDefined, ZenonT(60)
<1>3. Images(a, N, c) = 1..N
  BY AllImages
<1> HIDE DEF N
<1>4. Congruent(all, w * all, c.p) /\ ~Congruent(all, 0, c.p)
  BY <1>1, <1>3, ImagesProduct, ProductNotZero
<1> HIDE DEF all, w
<1>5. all * one = all /\ w * all = all * w /\ w * all \in Int
  BY <1>2
<1> HIDE DEF one
<1>6. Congruent(all * one, all * w, c.p)
  BY <1>4, <1>5
<1>7. Congruent(one, w, c.p)
  BY <1>1, <1>2, <1>4, <1>6, Cancelled
<1>8. Congruent(w, one, c.p)
  BY <1>1, <1>2, <1>7, Reckoning
<1> QED BY <1>8 DEF one, w, N

(* One turn of mod_sqrt_default(), and its loop.                           *)
RootTurn(was, p1, i, a, c) ==
  LET square == (was * was) % c.p
  IN IF vli_testBit(p1, i) THEN (square * a) % c.p ELSE square
(* A turn squares, and multiplies by a where the bit of the exponent is    *)
(* set.                                                                    *)
LEMMA RootTurnExact ==
  ASSUME NEW c \in Curves, NEW a \in Int, NEW was \in Int, NEW p1, NEW i,
         NEW m \in Nat, Congruent(was, Power(a, m), c.p)
  PROVE  /\ RootTurn(was, p1, i, a, c) \in 0..(c.p - 1)
         /\ Congruent(RootTurn(was, p1, i, a, c), Power(a, 2 * m + Digit(vli_testBit(p1, i))), c.p)
<1> DEFINE p == c.p
           w == Power(a, m)
           t == was * was
           square == t % p
           u == square * a
           bit == vli_testBit(p1, i)
<1>1. p \in Nat \ {0} /\ w \in Int /\ t \in Int /\ w * w \in Int /\ (w * w) * a \in Int /\ 2 * m \in Nat
  <2>1. w \in Int /\ p \in Nat \ {0}
    BY FieldFacts, PowerDefined
  <2> HIDE DEF w
  <2> QED BY <2>1
<1>2. Power(a, 2 * m) = w * w /\ Power(a, 2 * m + 1) = (w * w) * a
  <2>1. 2 * m = m + m
    OBVIOUS
  <2>2. Power(a, m + m) = w * w
    BY PowerSum
  <2> QED BY <1>1, <2>1, <2>2, PowerDefined
<1>3. square \in 0..(p - 1) /\ square \in Int /\ Congruent(square, w * w, p)
  <2>1. square \in 0..(p - 1) /\ square \in Int
    <3> HIDE DEF t, p
    <3> QED BY <1>1, Reckoning
  <2>2. Congruent(square, w * w, p)
    <3> HIDE DEF w, p
    <3>1. Congruent((was * was) % p, w * w, p)
      BY <1>1, Product DEF p, w
    <3> QED BY <3>1
  <2> QED BY <2>1, <2>2
<1>4. u % p \in 0..(p - 1) /\ Congruent(u % p, (w * w) * a, p)
  <2> HIDE DEF square, p
  <2>1. u \in Int /\ Congruent(a, a, p)
    BY <1>1, <1>3, Reckoning
  <2>2. u % p \in 0..(p - 1)
    <3> HIDE DEF u
    <3> QED BY <1>1, <2>1, Reckoning
  <2> DEFINE v == w * w
  <2>3. v \in Int /\ Congruent(square, v, p)
    BY <1>1, <1>3
  <2> HIDE DEF v
  <2>4. Congruent((square * a) % p, v * a, p)
    BY <1>1, <1>3, <2>1, <2>3, Product
  <2> QED BY <2>2, <2>4 DEF v
<1>5. CASE bit
  <2>1. RootTurn(was, p1, i, a, c) = u % p /\ 2 * m + Digit(bit) = 2 * m + 1
    BY <1>5 DEF RootTurn, Digit
  <2> HIDE DEF u, p, w, bit
  <2> QED BY <1>2, <1>4, <2>1 DEF p, bit
<1>6. CASE ~bit
  <2>1. RootTurn(was, p1, i, a, c) = square /\ 2 * m + Digit(bit) = 2 * m
    BY <1>1, <1>6 DEF RootTurn, Digit
  <2> HIDE DEF square, p, w, bit
  <2> QED BY <1>2, <1>3, <2>1 DEF p, bit
<1> QED BY <1>5, <1>6

RootLoop(after, p1, N, a, c) ==
  after[N] = 1 /\ \A i \in 2..(N - 1) : after[i] = RootTurn(after[i + 1], p1, i, a, c)
(* The loop has a solution.                                                *)
LEMMA RootLoopDefined ==
  ASSUME NEW c \in Curves, NEW a \in Int, NEW N \in Nat, 2 <= N, N = vli_numBits(ToWords(c.p + 1, c))
  PROVE  \E after : mod_sqrt(a, c) = after[2] /\ RootLoop(after, ToWords(c.p + 1, c), N, a, c)
<1> DEFINE p1 == ToWords(c.p + 1, c)
           turn(x, i) == RootTurn(x, p1, i, a, c)
           one == 1
           M == N - 1
           step == [j \in 1..(M - 1) |-> [x \in Int |-> turn(x, j + 1)]]
           F(g) == [i \in 2..N |-> IF i = N THEN one ELSE turn(g[i + 1], i)]
           after == CHOOSE g : g = F(g)
<1>1. mod_sqrt(a, c) = after[2]
  BY DEF mod_sqrt, RootTurn
<1>2. one \in Int /\ M \in Nat
  OBVIOUS
<1>3. step \in [1..(M - 1) -> [Int -> Int]]
  <2>1. \A x \in Int : \A i : turn(x, i) \in Int
    <3>1. TAKE x \in Int
    <3>2. TAKE i
    <3> DEFINE square == (x * x) % c.p
    <3>3. c.p \in Nat \ {0}
      BY FieldFacts
    <3>4. \A y \in Int : y % c.p \in Int
      <4> HIDE DEF p1
      <4> QED BY <3>3, Reckoning
    <3>5. x * x \in Int
      OBVIOUS
    <3>6. square \in Int
      BY <3>4, <3>5
    <3> HIDE DEF square
    <3>7. square * a \in Int
      BY <3>6
    <3>8. (square * a) % c.p \in Int
      BY <3>4, <3>7
    <3> QED BY <3>6, <3>8 DEF RootTurn, square
  <2> HIDE DEF turn
  <2> QED BY <2>1
<1> HIDE DEF M
<1>5. PICK f : FollowsDown(f, M, Int, one, step)
  <2> HIDE DEF one, step
  <2> QED BY <1>2, <1>3, DescendingRecursionExists
<1> DEFINE g == [i \in 2..N |-> f[i - 1]]
<1>6. g = F(g)
  <2>1. ASSUME NEW i \in 2..N PROVE f[i - 1] = IF i = N THEN one ELSE turn(g[i + 1], i)
    <3>1. i - 1 \in 1..M /\ (i - 1 = M <=> i = N)
      BY DEF M
    <3>2. f[i - 1] = IF i - 1 = M THEN one ELSE step[i - 1][f[(i - 1) + 1]]
      <4> HIDE DEF one, step
      <4> QED BY <1>5, <3>1 DEF FollowsDown
    <3>3. CASE i = N
      BY <3>1, <3>2, <3>3
    <3>4. CASE i # N
      <4>1. i + 1 \in 2..N /\ i - 1 \in 1..(M - 1) /\ (i - 1) + 1 \in 1..M /\ (i - 1) + 1 = i /\ (i + 1) - 1 = i
        BY <3>4 DEF M
      <4>2. f[(i - 1) + 1] \in Int
        BY <1>5, <4>1 DEF FollowsDown
      <4>3. step[i - 1][f[(i - 1) + 1]] = turn(f[(i - 1) + 1], (i - 1) + 1)
        <5> HIDE DEF turn
        <5> QED BY <4>1, <4>2
      <4>4. g[i + 1] = f[(i - 1) + 1]
        BY <4>1
      <4> HIDE DEF turn, step, g
      <4> QED BY <3>1, <3>2, <3>4, <4>1, <4>3, <4>4
    <3> QED BY <3>3, <3>4
  <2> HIDE DEF turn, one
  <2> QED BY <2>1
<1>7. after = F(after)
  <2> HIDE DEF F, g
  <2> QED BY <1>6
<1> HIDE DEF after, turn
<1>8. \A i \in 2..N : after[i] = IF i = N THEN one ELSE turn(after[i + 1], i)
  BY <1>7
<1>9. after[N] = one /\ \A i \in 2..(N - 1) : after[i] = turn(after[i + 1], i)
  <2>1. N \in 2..N /\ \A i \in 2..(N - 1) : i \in 2..N /\ i # N
    OBVIOUS
  <2> QED BY <1>8, <2>1
<1>10. RootLoop(after, p1, N, a, c)
  BY <1>9 DEF turn, RootLoop
<1> QED BY <1>1, <1>10

(* p is 4h - 1, and p + 1 fits in its words: the root is the h-th power.   *)
LEMMA RootExponent ==
  ASSUME NEW c \in Curves
  PROVE  /\ \E h \in Nat : c.p = 4 * h - 1 /\ 0 < h /\ Leading(c.p + 1, 2) = h
         /\ LET p1 == ToWords(c.p + 1, c)
            IN /\ p1 \in Vlis(c.num_words) /\ Value(p1) = c.p + 1
               /\ vli_numBits(p1) \in 3..(c.num_words * WordBits) /\ c.p + 1 < Pow2[vli_numBits(p1)]
<1> DEFINE p == c.p
           K == p + 1
           p1 == ToWords(K, c)
           h0 == p \div 4
           h == h0 + 1
           four == 4
           three == 3
           N == vli_numBits(p1)
           l == c.num_words * WordBits
<1>1. /\ p \in Nat /\ p <= BaseTo(c.num_words) - 2 /\ BaseTo(c.num_words) \in Nat /\ c.num_words \in Nat
      /\ WordBits \in Nat
  BY CurveFacts, CurveAssumption, BaseFacts
<1>2. p = h0 * four + three /\ h0 \in Nat
  <2>1. p % four = three
    BY RootAssumption
  <2>2. four \in Nat \ {0} /\ p \in Int
    BY <1>1
  <2> HIDE DEF p, four, three
  <2>3. p \div four \in Int /\ p = (p \div four) * four + (p % four) /\ p \div four \in Nat
    BY <1>1, <2>2, Division
  <2> QED BY <2>1, <2>3 DEF four
<1> HIDE DEF h0
<1>3. p = 4 * h - 1 /\ 0 < h /\ h \in Nat /\ K = 4 * h
  BY <1>2
<1> HIDE DEF h
<1>4. Pow2[0] = 1 /\ Pow2[1] = 2 /\ Pow2[2] = 4
  <2>1. 0 \in Nat /\ 1 \in Nat /\ 0 + 1 = 1 /\ 1 + 1 = 2
    OBVIOUS
  <2> QED BY <2>1, Pow2Defined
<1>5. Leading(K, 2) = h
  <2>1. K \div 4 = h
    <3> DEFINE none == 0
    <3>1. four \in Nat \ {0} /\ none \in 0..(four - 1) /\ h \in Int /\ K = h * four + none
      BY <1>3
    <3> HIDE DEF K, four, none
    <3>2. (h * four + none) \div four = h
      BY <3>1, DivisionUnique
    <3> QED BY <3>1, <3>2 DEF four
  <2> QED BY <1>4, <2>1 DEF Leading
<1>6. p1 \in Vlis(c.num_words) /\ Value(p1) = K
  <2>1. K \in Int /\ K \in 0..(BaseTo(c.num_words) - 1)
    BY <1>1
  <2> HIDE DEF K
  <2> QED BY <2>1, InWordsExact DEF VlisOf
<1>7. N \in 0..l /\ K < Pow2[N]
  <2> HIDE DEF p1
  <2>1. vli_numBits(p1) \in 0..(c.num_words * WordBits) /\ Value(p1) < Pow2[vli_numBits(p1)]
    BY <1>1, <1>6, NumBitsBound
  <2> QED BY <1>6, <2>1
<1>8. l \in Nat
  BY <1>1
<1> HIDE DEF N, l
<1>9. N # 0 /\ N # 1 /\ N # 2
  <2>1. 4 <= K
    BY <1>3
  <2> HIDE DEF K
  <2>2. ASSUME N = 0 \/ N = 1 \/ N = 2 PROVE FALSE
    <3>1. Pow2[N] = 1 \/ Pow2[N] = 2 \/ Pow2[N] = 4
      BY <1>4, <2>2
    <3>2. K \in Int
      BY <1>3
    <3> QED BY <1>7, <2>1, <3>1, <3>2
  <2> QED BY <2>2
<1>10. N \in 3..l
  BY <1>7, <1>8, <1>9
<1> QED BY <1>3, <1>5, <1>6, <1>7, <1>10 DEF N, l

(* mod_sqrt_default() raises to the power (p + 1) / 4 (uECC.c:1099-1115).  *)
LEMMA RootExact ==
  ASSUME NEW c \in Curves, NEW a \in Int
  PROVE  /\ mod_sqrt(a, c) \in 0..(c.p - 1)
         /\ Congruent(mod_sqrt(a, c), Power(a, Leading(c.p + 1, 2)), c.p)
<1> DEFINE p == c.p
           K == p + 1
           p1 == ToWords(K, c)
           N == vli_numBits(p1)
           L(i) == Leading(K, i)
           l == c.num_words * WordBits
<1>1. /\ p1 \in Vlis(c.num_words) /\ Value(p1) = K /\ N \in 3..l /\ K < Pow2[N]
      /\ c.num_words \in Nat /\ l \in Nat /\ K \in Nat /\ p \in Nat \ {0}
  <2>1. c.num_words \in Nat /\ WordBits \in Nat /\ p \in Nat \ {0}
    BY CurveFacts, BaseFacts, FieldFacts
  <2> QED BY <2>1, RootExponent
<1>2. N \in Nat /\ 2 < N /\ N <= l
  <2> HIDE DEF N, l
  <2> QED BY <1>1
<1>3. PICK after : mod_sqrt(a, c) = after[2] /\ RootLoop(after, p1, N, a, c)
  <2>1. \E after : mod_sqrt(a, c) = after[2] /\ RootLoop(after, ToWords(c.p + 1, c), vli_numBits(ToWords(c.p + 1, c)), a, c)
    BY <1>2, RootLoopDefined
  <2> QED BY <2>1
<1>4. \A i \in Nat : L(i) \in Nat /\ L(i) = 2 * L(i + 1) + Bit(K, i)
  <2> HIDE DEF K
  <2> QED BY <1>1, TopBits
<1>5. L(N) = 0
  <2> HIDE DEF K, N
  <2> QED BY <1>1, <1>2, TopBits
<1>6. \A i \in 2..(N - 1) : Digit(vli_testBit(p1, i)) = Bit(K, i)
  <2>1. TAKE i \in 2..(N - 1)
  <2>2. i \in 0..(l - 1) /\ i \in Nat
    <3> HIDE DEF N, l
    <3> QED BY <1>1, <1>2
  <2>3. vli_testBit(p1, i) <=> Bit(K, i) = 1
    <3>1. vli_testBit(p1, i) <=> (Value(p1) \div Pow2[i]) % 2 = 1
      <4> HIDE DEF p1
      <4> QED BY <1>1, <2>2, TestBitExact
    <3> QED BY <1>1, <3>1 DEF Bit
  <2>4. Bit(K, i) \in {0, 1}
    <3> HIDE DEF K
    <3> QED BY <1>1, <2>2, TopBits
  <2> QED BY <2>3, <2>4 DEF Digit
<1> HIDE DEF N, L, K, p1, p
<1> DEFINE S == {j \in 0..(N - 2) : after[N - j] \in Int /\ Congruent(after[N - j], Power(a, L(N - j)), p)}
<1>7. 0 \in S
  <2> DEFINE one == 1
  <2>1. N - 0 = N /\ 0 \in 0..(N - 2) /\ after[N] = one /\ Power(a, L(N)) = one /\ one \in Int
    BY <1>2, <1>3, <1>5, PowerDefined DEF RootLoop
  <2> HIDE DEF one
  <2>2. Congruent(one, one, p)
    BY <1>1, <2>1, Reckoning DEF p
  <2> QED BY <2>1, <2>2
<1>8. ASSUME NEW j \in 0..(N - 3), j \in S
      PROVE  j + 1 \in S /\ after[N - (j + 1)] \in 0..(p - 1)
  <2> DEFINE i == N - (j + 1)
             was == after[i + 1]
             m == L(i + 1)
             s == RootTurn(was, p1, i, a, c)
  <2>1. /\ i \in 2..(N - 1) /\ i \in Nat /\ i + 1 \in Nat /\ i + 1 = N - j /\ j + 1 \in 0..(N - 2)
    BY <1>2
  <2>2. was \in Int /\ Congruent(was, Power(a, m), p)
    BY <1>8, <2>1
  <2>3. after[i] = s
    BY <1>3, <2>1 DEF RootLoop
  <2>4. m \in Nat /\ L(i) = 2 * m + Digit(vli_testBit(p1, i))
    BY <1>4, <1>6, <2>1
  <2> HIDE DEF i, was, m
  <2>5. /\ s \in 0..(p - 1)
        /\ Congruent(s, Power(a, 2 * m + Digit(vli_testBit(p1, i))), p)
    BY <2>2, <2>4, RootTurnExact DEF p
  <2>6. s \in Int
    BY <2>5
  <2> HIDE DEF s
  <2>7. after[i] \in Int /\ Congruent(after[i], Power(a, L(i)), p)
    BY <2>3, <2>4, <2>5, <2>6
  <2> QED BY <2>1, <2>3, <2>5, <2>7 DEF i
<1>9. N - 2 \in S /\ N - 3 \in S /\ N - 3 \in 0..(N - 3)
  <2>1. \A j \in 0..((N - 2) - 1) : j \in S => j + 1 \in S
    <3>1. (N - 2) - 1 = N - 3
      BY <1>2
    <3> HIDE DEF S
    <3> QED BY <1>8, <3>1
  <2>2. N - 2 \in Nat
    BY <1>2
  <2> HIDE DEF S
  <2>3. 0..(N - 2) \subseteq S
    BY <1>7, <2>1, <2>2, IntervalInduction
  <2>4. N - 2 \in 0..(N - 2) /\ N - 3 \in 0..(N - 2) /\ N - 3 \in 0..(N - 3)
    BY <1>2
  <2> QED BY <2>3, <2>4
<1>10. N - (N - 2) = 2 /\ N - ((N - 3) + 1) = 2
  <2>1. N \in Int
    BY <1>2
  <2>2. \A t \in Int : t - (t - 2) = 2 /\ (t - 3) + 1 = t - 2
    <3>1. \A t \in Int : t - (t - 2) = 2
      OBVIOUS
    <3>2. \A t \in Int : (t - 3) + 1 = t - 2
      OBVIOUS
    <3> QED BY <3>1, <3>2
  <2> HIDE DEF S
  <2> QED BY <2>1, <2>2
<1>11. after[2] \in 0..(p - 1)
  <2> HIDE DEF S
  <2>1. after[N - ((N - 3) + 1)] \in 0..(p - 1)
    BY <1>8, <1>9
  <2> QED BY <1>10, <2>1
<1>12. Congruent(after[2], Power(a, L(2)), p)
  BY <1>9, <1>10
<1> QED BY <1>3, <1>11, <1>12 DEF p, L, K

(* The n-th power of a square is the 2n-th power of its root.              *)
LEMMA PowerCongruent ==
  ASSUME NEW m \in Nat \ {0}, NEW x \in Int, NEW y \in Int, Congruent(x, y * y, m)
  PROVE  \A n \in Nat : Congruent(Power(x, n), Power(y, 2 * n), m)
<1> DEFINE S == {n \in Nat : Congruent(Power(x, n), Power(y, 2 * n), m)}
<1>1. 0 \in S
  <2> DEFINE one == 1
  <2>1. Power(x, 0) = one /\ Power(y, 2 * 0) = one /\ one \in Int
    BY PowerDefined
  <2>2. Congruent(one, one, m)
    <3> HIDE DEF one
    <3> QED BY <2>1, Reckoning
  <2> QED BY <2>1, <2>2
<1>2. ASSUME NEW n \in S PROVE n + 1 \in S
  <2> DEFINE u == Power(x, n)
             v == Power(y, 2 * n)
             w == y * y
  <2>1. n \in Nat /\ n + 1 \in Nat /\ 2 * n \in Nat /\ 2 * n + 1 \in Nat /\ 2 * (n + 1) = (2 * n + 1) + 1
        /\ Congruent(u, v, m) /\ w \in Int
    BY <1>2
  <2>2. u \in Int /\ v \in Int /\ Power(x, n + 1) = u * x /\ Power(y, (2 * n + 1) + 1) = (v * y) * y
    BY <2>1, PowerDefined
  <2> HIDE DEF u, v
  <2>3. (v * y) * y = v * w
    BY <2>2
  <2>4. Congruent(u * x, v * w, m)
    <3>1. Congruent(x, w, m)
      OBVIOUS
    <3> HIDE DEF w
    <3> QED BY <2>1, <2>2, <3>1, Product
  <2> QED BY <2>1, <2>2, <2>3, <2>4
<1>3. S = Nat
  <2>1. S \in SUBSET Nat
    OBVIOUS
  <2> HIDE DEF S
  <2> QED BY <1>1, <1>2, <2>1, SetInduction
<1> QED BY <1>3

(* A square has a root that mod_sqrt_default() finds.                      *)
LEMMA RootOfSquare ==
  ASSUME NEW c \in Curves, NEW a \in Int, NEW y \in Int, ~Congruent(y, 0, c.p),
         Congruent(a, y * y, c.p)
  PROVE  Congruent(mod_sqrt(a, c) * mod_sqrt(a, c), y * y, c.p)
<1> DEFINE p == c.p
           s == mod_sqrt(a, c)
           w == y * y
           one == 1
<1>1. p \in Nat \ {0} /\ w \in Int /\ one \in Int
  BY FieldFacts
<1>2. PICK h \in Nat : p = 4 * h - 1 /\ 0 < h /\ Leading(p + 1, 2) = h
  BY RootExponent
<1> DEFINE u == Power(a, h)
           v == Power(y, 2 * h)
           z == Power(y, p - 1)
<1>3. s \in Int /\ Congruent(s, u, p)
  <2>1. s \in 0..(p - 1)
    BY RootExact
  <2>2. s \in Int
    <3> HIDE DEF s
    <3> QED BY <1>1, <2>1
  <2>3. Congruent(s, Power(a, Leading(p + 1, 2)), p)
    BY RootExact
  <2> QED BY <1>2, <2>2, <2>3
<1>4. u \in Int /\ v \in Int /\ Congruent(u, v, p)
  <2>1. 2 * h \in Nat
    OBVIOUS
  <2> QED BY <1>1, <2>1, PowerDefined, PowerCongruent
<1>5. z \in Int /\ v * v = z * w
  <2>1. 2 * h \in Nat /\ p - 1 \in Nat /\ 2 * h + 2 * h = ((p - 1) + 1) + 1 /\ (p - 1) + 1 \in Nat
    BY <1>2
  <2>2. Power(y, 2 * h + 2 * h) = v * v
    BY <2>1, PowerSum
  <2>3. z \in Int /\ Power(y, ((p - 1) + 1) + 1) = (z * y) * y
    BY <2>1, PowerDefined
  <2> HIDE DEF z, v
  <2>4. (z * y) * y = z * (y * y)
    BY <2>3
  <2> QED BY <2>1, <2>2, <2>3, <2>4
<1>6. Congruent(z, one, p)
  BY Fermat
<1> HIDE DEF s, u, v, z, w, one, p
<1>7. Congruent(s, v, p)
  BY <1>1, <1>3, <1>4, Reckoning
<1>8. Congruent(s * s, v * v, p)
  BY <1>1, <1>3, <1>4, <1>7, Product
<1>9. Congruent(z * w, one * w, p) /\ one * w = w
  <2>1. Congruent(w, w, p)
    BY <1>1, Reckoning
  <2>2. Congruent(z * w, one * w, p)
    BY <1>1, <1>5, <1>6, <2>1, Product
  <2> QED BY <1>1, <2>2 DEF one
<1>10. Congruent(s * s, w, p)
  <2> DEFINE t1 == s * s
             t2 == v * v
             t3 == z * w
  <2>1. t1 \in Int /\ t2 \in Int /\ Congruent(t1, t2, p) /\ Congruent(t2, w, p)
    BY <1>3, <1>4, <1>5, <1>8, <1>9
  <2> HIDE DEF t1, t2
  <2>2. Congruent(t1, w, p)
    BY <1>1, <2>1, Reckoning
  <2> QED BY <2>2 DEF t1
<1> QED BY <1>10 DEF s, w, p

(* Decompressing what a point was compressed to gives the point.           *)
THEOREM DecompressExact ==
  ASSUME NEW c \in Curves, NEW A \in Points(c), uECC_valid_point(A, c), A[2] # 0
  PROVE  uECC_decompress(uECC_compress(A), c) = A
<1> DEFINE p == c.p
           x == A[1]
           y == A[2]
           a == x_side(x, c)
           s == mod_sqrt(a, c)
           z == uECC_compress(A)
<1>1. /\ p \in Nat \ {0} /\ x \in Int /\ y \in Int /\ y \in 1..(p - 1) /\ y \in 0..(p - 1) /\ A = <<x, y>>
      /\ ~Congruent(y, 0, p)
  <2>1. p \in Nat \ {0} /\ x \in Int /\ y \in Int /\ y \in 0..(p - 1) /\ A = <<x, y>> /\ ~Congruent(y, 0, p)
    BY FieldFacts, Coordinates
  <2> HIDE DEF x, p
  <2>2. y \in 1..(p - 1)
    BY <2>1
  <2> QED BY <2>1, <2>2
<1>2. PICK h \in Nat : p = 2 * h + 1
  BY FieldFacts
<1>3. a \in Int /\ Congruent(a, y * y, p) /\ y * y \in Int
  <2> DEFINE t == y * y
  <2>1. t % p = a
    BY DEF uECC_valid_point
  <2>2. t \in Int
    BY <1>1
  <2> HIDE DEF t, p
  <2>3. t % p \in Int /\ Congruent(t % p, t, p)
    BY <1>1, <2>2, Reckoning
  <2> QED BY <2>1, <2>2, <2>3 DEF t
<1>4. s \in 0..(p - 1) /\ s \in Int /\ Congruent(s * s, y * y, p)
  <2> HIDE DEF a, y
  <2>1. s \in 0..(p - 1)
    BY <1>3, RootExact
  <2>2. Congruent(s * s, y * y, p)
    BY <1>1, <1>3, RootOfSquare
  <2> HIDE DEF s
  <2> QED BY <1>1, <2>1, <2>2
<1>5. z.parity % 2 = y % 2 /\ z.x = x
  <2>1. z = [parity |-> 2 + (y % 2), x |-> x]
    BY DEF uECC_compress
  <2>2. (2 + (y % 2)) % 2 = y % 2
    <3> HIDE DEF y
    <3> QED BY <1>1
  <2> QED BY <2>1, <2>2
<1>6. uECC_decompress(z, c) = <<x, IF s % 2 = y % 2 THEN s ELSE p - s>>
  <2> HIDE DEF z
  <2> QED BY <1>5 DEF uECC_decompress
<1> HIDE DEF x, y, a, s, z, p
<1>7. Congruent(s, y, p) \/ Congruent(s, -y, p)
  <2> DEFINE e == s - y
             f == s + y
             t == s * s
             u == y * y
  <2>1. e \in Int /\ f \in Int /\ t \in Int /\ u \in Int /\ Congruent(t, u, p) /\ e * f = t - u
    <3>1. \A i, j \in Int : (i - j) * (i + j) = i * i - j * j
      OBVIOUS
    <3> QED BY <1>1, <1>4, <3>1
  <2> HIDE DEF e, f, t, u
  <2>2. Congruent(e * f, 0, p)
    <3>1. Congruent(t - u, 0, p)
      BY <1>1, <2>1, CongruentZero
    <3> QED BY <2>1, <3>1
  <2>3. Congruent(e, 0, p) \/ Congruent(f, 0, p)
    BY <2>1, <2>2, NotZero DEF p
  <2> QED BY <1>1, <1>4, <2>3, CongruentZero DEF e, f
<1>8. CASE Congruent(s, y, p)
  <2>1. s = y
    BY <1>1, <1>4, <1>8, SameRemainder
  <2> QED BY <1>1, <1>6, <2>1 DEF z
<1>9. CASE Congruent(s, -y, p)
  <2>1. s = p - y
    <3> DEFINE t == p - y
               m == -y
               one == 1
    <3>1. t \in 0..(p - 1) /\ t \in Int /\ m \in Int /\ Congruent(s, m, p) /\ one \in Int /\ t = m + one * p
      BY <1>1, <1>9
    <3>2. Congruent(t, m, p)
      <4> HIDE DEF t, m, one
      <4> QED BY <3>1 DEF Congruent
    <3> HIDE DEF t, m
    <3>3. Congruent(s, t, p)
      BY <1>1, <1>4, <3>1, <3>2, Reckoning
    <3>4. s = t
      BY <1>1, <1>4, <3>1, <3>3, SameRemainder
    <3> QED BY <3>4 DEF t
  <2>2. s % 2 # y % 2 /\ p - s = y
    BY <1>1, <1>2, <2>1
  <2> QED BY <1>1, <1>6, <2>2 DEF z
<1> QED BY <1>7, <1>8, <1>9

-----------------------------------------------------------------------------
(* The points of an operation: the invariant.                              *)

(* A factor in 1..n-1 does not give the point at infinity, and is its own  *)
(* remainder modulo n.                                                     *)
LEMMA InOrder ==
  ASSUME NEW c \in Curves, NEW i \in 1..(c.n - 1)
  PROVE  i \in Int /\ ~Congruent(i, 0, c.n) /\ Mul(i, c) # Infinity
<1>1. c.n \in Nat \ {0} /\ i \in Nat /\ 0 < i /\ i < 2 * c.n /\ i # c.n
  BY CurveFacts
<1>2. ~Congruent(i, 0, c.n)
  <2> DEFINE m == c.n
  <2> HIDE DEF m
  <2>1. m \in Nat \ {0} /\ i \in Nat /\ 0 < i /\ i < 2 * m /\ i # m
    BY <1>1 DEF m
  <2>2. Congruent(i, 0, m) <=> i = m
    BY <2>1, Between
  <2> QED BY <2>1, <2>2 DEF m
<1>3. Mul(i, c) # Zero
  BY <1>1, <1>2, MulFacts
<1> QED BY <1>1, <1>2, <1>3 DEF Zero, Infinity

(* The textbook multiples of G, by any factor there is.                    *)
LEMMA MultipleOfG ==
  ASSUME NEW c \in Curves, NEW i \in Nat
  PROVE  Multiple(i, c.G, c) = Mul(i, c)
<1>1. 1 \in Int /\ i * 1 = i
  OBVIOUS
<1> DEFINE one == 1
<1> HIDE DEF one
<1>2. one \in Int /\ Mul(one, c) = c.G /\ i * one = i
  BY <1>1, MulFacts DEF one
<1>3. Multiple(i, Mul(one, c), c) = Mul(i * one, c)
  BY <1>2, MultipleOfMul
<1> QED BY <1>2, <1>3

(* What the ladder makes of the generator.                                 *)
LEMMA LadderOfG ==
  ASSUME NEW c \in Curves, NEW v \in VlisOf(c), Value(v) \in 1..(c.n - 1), NEW z \in 1..(c.p - 1)
  PROVE  LET point == RegularMult(c.G, v, z, c)
         IN /\ point = Infinity \/ point = Mul(Value(v), c)
            /\ Value(v) \in 2..(c.n - 3) => point = Mul(Value(v), c)
<1> DEFINE one == 1
<1>1. one \in Int /\ Mul(one, c) = c.G /\ ~Congruent(one, 0, c.n) /\ c.G[1] # 0
  <2>1. one \in 1..(c.n - 1)
    BY CurveFacts
  <2>2. c.G[1] # 0
    BY GroupAssumption
  <2> QED BY <2>1, <2>2, InOrder, MulFacts
<1>2. Value(v) * one = Value(v)
  <2>1. Value(v) \in Int
    OBVIOUS
  <2> QED BY <2>1
<1> HIDE DEF one
<1>3. LET point == RegularMult(Mul(one, c), v, z, c)
      IN /\ point = Infinity \/ point = Mul(Value(v) * one, c)
         /\ Value(v) \in 2..(c.n - 3) /\ Mul(one, c)[1] # 0 => point = Mul(Value(v) * one, c)
  BY <1>1, LadderExact
<1> QED BY <1>1, <1>2, <1>3

(* Z is in 1..p-1, without a generator it is 1.                            *)
LEMMA ZExact ==
  ASSUME curve \in Curves, drawing = "Z", NEW z \in Masks
  PROVE  z \in 1..(curve.p - 1)
<1>1. drawing \in DOMAIN Draws /\ 2 < curve.p /\ curve.p \in Nat /\ Top = curve.p
  BY CallerAssumption, FieldFacts DEF Top
<1>2. CASE g_rng
  <2>1. z \in Drawn
    BY <1>2 DEF Masks
  <2> QED BY <1>1, <2>1, DrawnExact
<1>3. CASE ~g_rng
  BY <1>1, <1>3 DEF Masks
<1> QED BY <1>2, <1>3

-----------------------------------------------------------------------------
(* What uECC_verify() said of what it was offered, as the properties have  *)
(* it of a curve and a result.                                             *)
Genuine(o, c) ==
  ValidSignature(o.Q, Value(bits2int(o.hash, c)), Value(o.r), Value(o.s), c)
Judged(res, c) ==
  LET o == res.offered
  IN /\ res.ok /\ o.Q[1] # c.G[1] => Genuine(o, c)
     /\ ~res.ok /\ Genuine(o, c) /\ o.Q[1] # c.G[1] =>
          VerifySum(o.Q, bits2int(o.hash, c), o.r, o.s, c)[3] = 0
     /\ res.own => \/ Genuine(o, c)
                   \/ ~InRange(o.r, c) \/ vli_isZero(o.s)

(* What is true of a result, of the key pair it was computed with, and of  *)
(* whether there is a generator.                                           *)
KeyPair(key, public, c) == key \in 1..(c.n - 1) /\ public = Mul(key, c)
Shared(res, key, public, c) ==
  /\ KeyPair(key, public, c)
  /\ res.with \in PeerKeys /\ res.secret = Mul(key * res.with, c)[1]
NonceShown(res, c) ==
  /\ res.r \in VlisOf(c) /\ res.s \in VlisOf(c) /\ res.hash \in Hashes
  /\ Value(res.r) = Mul(res.nonce, c)[1]
Granted(res, key, public, rng, c) ==
  /\ res.of = "shared_secret" /\ res.ok => Shared(res, key, public, c)
  /\ res.of \in Signing /\ res.ok => NonceShown(res, c) /\ KeyPair(key, public, c)
  /\ res.of = "compute_public_key" /\ ~res.ok /\ ~rng => key \notin 2..(c.n - 3)
  /\ res.of = "verify" => Judged(res, c)

(* The invariant that EcInv is not enough for: the public key and the      *)
(* nonce's point are the multiples they should be, and so are the points   *)
(* that the results were read from.                                        *)
CurveInv ==
  /\ Q # Infinity => Q = Mul(d, curve)
  /\ drawing = "blind" => P = Mul(Value(k), curve)
  /\ op = "shared_secret" => arg \in PeerKeys
  /\ Granted(result, d, Q, g_rng, curve)

(* Nothing is returned yet.                                                *)
LEMMA NothingGranted ==
  ASSUME NEW res, res.of = "none" \/ (~res.ok /\ res.of \notin {"compute_public_key", "verify"}),
         NEW key, NEW public, NEW rng, NEW c
  PROVE  Granted(res, key, public, rng, c)
BY DEF Granted, Signing

(* The initial state.                                                      *)
LEMMA InitCurveInv == EcInit => CurveInv
<1> SUFFICES ASSUME EcInit PROVE CurveInv
  OBVIOUS
<1>1. result.of = "none" /\ Q = Infinity /\ drawing = "none" /\ op = "none"
  BY DEF EcInit, Returned
<1> QED BY <1>1, NothingGranted DEF CurveInv

(* A step that leaves the result, the keys and the nonce's point alone.    *)
LEMMA KeptCurveInv ==
  ASSUME CurveInv, UNCHANGED <<curve, g_rng, d, Q, result>>,
         drawing' = "blind" => UNCHANGED <<drawing, k, P>>,
         op' = "shared_secret" => arg' \in PeerKeys
  PROVE  CurveInv'
<1>1. Granted(result, d, Q, g_rng, curve)' <=> Granted(result', d', Q', g_rng', curve')
  BY DEF Granted, Shared, NonceShown, KeyPair, Judged, Genuine, Signing
<1>2. Granted(result, d, Q, g_rng, curve)'
  BY <1>1 DEF CurveInv
<1>3. drawing' = "blind" => P' = Mul(Value(k'), curve')
  BY DEF CurveInv
<1>4. Mul(Value(k), curve)' = Mul(Value(k'), curve') /\ Mul(d, curve)' = Mul(d', curve')
  OBVIOUS
<1> QED BY <1>2, <1>3, <1>4 DEF CurveInv

(* A function that returns.                                                *)
LEMMA ReturnsCurveInv ==
  ASSUME NEW res, Returns(res),
         Q' # Infinity => Q' = Mul(d', curve), Granted(res, d', Q', g_rng, curve)
  PROVE  CurveInv'
<1>1. op' = "none" /\ drawing' = "none" /\ result' = res /\ curve' = curve /\ g_rng' = g_rng
  BY DEF Returns
<1>2. Granted(result, d, Q, g_rng, curve)'
  BY <1>1 DEF Granted, Shared, NonceShown, KeyPair, Judged, Genuine, Signing
<1>3. (Q # Infinity => Q = Mul(d, curve))'
  <2>1. Mul(d, curve)' = Mul(d', curve')
    OBVIOUS
  <2> QED BY <1>1, <2>1
<1> QED BY <1>1, <1>2, <1>3 DEF CurveInv

(* A function that fails, for a reason that says nothing of the key.       *)
LEMMA RefusesCurveInv ==
  ASSUME CurveInv, NEW of, of \notin {"compute_public_key", "verify"},
         Returns(Returned(of, FALSE)), UNCHANGED <<d, Q>>
  PROVE  CurveInv'
<1> DEFINE res == Returned(of, FALSE)
<1>1. res.of = of /\ res.ok = FALSE
  BY DEF Returned
<1>2. Granted(res, d', Q', g_rng, curve)
  BY <1>1, NothingGranted
<1>3. Q' # Infinity => Q' = Mul(d', curve)
  BY DEF CurveInv
<1>4. Returns(res)
  OBVIOUS
<1> HIDE DEF res
<1> QED BY <1>2, <1>3, <1>4, ReturnsCurveInv

(* An attempt that fails; uECC_compute_public_key() has only one.          *)
LEMMA AttemptFailsCurveInv ==
  ASSUME EcInv, CurveInv, op # "none", AttemptFails,
         op = "compute_public_key" /\ ~g_rng => d \notin 2..(curve.n - 3)
  PROVE  CurveInv'
<1>1. CASE op \in DOMAIN Looping /\ attempts + 1 < uECC_RNG_MAX_TRIES
  <2>1. Goes(Looping[op]) /\ UNCHANGED <<d, Q>>
    BY <1>1 DEF AttemptFails
  <2>2. op \in {"make_key", "sign", "sign_deterministic"} /\ Looping[op] # "blind"
    BY <1>1 DEF Looping
  <2>3. drawing' # "blind" /\ op' # "shared_secret" /\ UNCHANGED <<curve, g_rng, d, Q, result>>
    BY <2>1, <2>2 DEF Goes
  <2> QED BY <2>3, KeptCurveInv
<1>2. CASE ~(op \in DOMAIN Looping /\ attempts + 1 < uECC_RNG_MAX_TRIES)
  <2> DEFINE res == Returned(op, FALSE)
  <2>1. Returns(res) /\ UNCHANGED <<d, Q>>
    BY <1>2 DEF AttemptFails
  <2>2. res.of = op /\ res.ok = FALSE /\ op # "verify"
    BY DEF Returned, EcInv, EcTypeOK, Signing
  <2> HIDE DEF res
  <2>3. Granted(res, d', Q', g_rng, curve)
    BY <2>1, <2>2 DEF Granted, Signing
  <2>4. Q' # Infinity => Q' = Mul(d', curve)
    BY <2>1 DEF CurveInv
  <2> QED BY <2>1, <2>3, <2>4, ReturnsCurveInv
<1> QED BY <1>1, <1>2

(* What a function that has no Z or no factor does.                        *)
LEMMA UnmaskedCurveInv ==
  ASSUME EcInv, CurveInv, op # "none", MaskFails, AttemptFails
  PROVE  CurveInv'
<1>1. g_rng
  BY DEF MaskFails
<1> QED BY <1>1, AttemptFailsCurveInv

-----------------------------------------------------------------------------
(* A new key, before there is anything that depends on it.                 *)
LEMMA KeyDrawnCurveInv == ASSUME EcInv, CurveInv, KeyDrawn PROVE CurveInv'
<1>1. result.of = "none" /\ Q = Infinity /\ op = "make_key"
  BY WhoWaits DEF KeyDrawn, EcInv, Control, KeyKept
<1>2. drawing' = "Z" /\ UNCHANGED <<curve, g_rng, op, arg, result, Q>>
  BY DEF KeyDrawn, Goes
<1>3. Granted(result', d', Q', g_rng', curve')
  BY <1>1, <1>2, NothingGranted
<1>4. Granted(result, d, Q, g_rng, curve)'
  BY <1>3 DEF Granted, Shared, NonceShown, KeyPair, Judged, Genuine, Signing
<1> QED BY <1>1, <1>2, <1>4 DEF CurveInv

(* A key that is given: out of range it is refused.                        *)
LEMMA compute_public_keyCurveInv ==
  ASSUME EcInv, CurveInv, NEW private \in GivenKeys, compute_public_key(private)
  PROVE  CurveInv'
<1>1. /\ op = "none" /\ result.of = "none" /\ d' = private /\ curve \in Curves /\ Q = Infinity
  BY DEF compute_public_key, EcInv, EcTypeOK, KeyKept
<1>2. CASE vli_isZero(InWords(private)) \/ vli_cmp(order, InWords(private)) # 1
  <2> DEFINE res == Returned("compute_public_key", FALSE)
  <2>1. Returns(res) /\ Q' = Q
    BY <1>2 DEF compute_public_key
  <2>2. res.of = "compute_public_key" /\ res.ok = FALSE
    BY DEF Returned
  <2>3. d' \notin 1..(curve.n - 1)
    <3>1. private \in 0..(BaseTo(curve.num_words) - 1) /\ private \in Int
      <4>1. private \in 0..(BaseTo(curve.num_words) - 1)
        BY <1>1, CallerAssumption
      <4> QED BY <4>1
    <3>2. InWords(private) \in VlisOf(curve) /\ Value(InWords(private)) = private
      BY <1>1, <3>1, InWordsExact DEF InWords
    <3>3. order \in VlisOf(curve) /\ Value(order) = curve.n
      BY <1>1, TopFacts DEF order, InWords
    <3>4. curve.num_words \in Nat /\ curve.n \in Nat
      BY <1>1, CurveFacts
    <3>5. private = 0 \/ ~(private < curve.n)
      BY <1>2, <3>2, <3>3, <3>4, ZeroExact, CmpExact DEF VlisOf
    <3> QED BY <1>1, <3>1, <3>4, <3>5
  <2>4. d' \notin 2..(curve.n - 3)
    <3>1. curve.n \in Nat
      BY <1>1, CurveFacts
    <3> QED BY <2>3, <3>1
  <2> HIDE DEF res
  <2>5. Granted(res, d', Q', g_rng, curve)
    BY <2>2, <2>4 DEF Granted, Signing
  <2> QED BY <1>1, <2>1, <2>5, ReturnsCurveInv
<1>3. CASE ~(vli_isZero(InWords(private)) \/ vli_cmp(order, InWords(private)) # 1)
  <2>1. /\ op' = "compute_public_key" /\ drawing' = "Z"
        /\ UNCHANGED <<curve, g_rng, tries, attempts, Q, k, P, arg, result>>
    BY <1>3 DEF compute_public_key
  <2>2. Granted(result', d', Q', g_rng', curve')
    BY <1>1, <2>1, NothingGranted
  <2>3. Granted(result, d, Q, g_rng, curve)'
    BY <2>2 DEF Granted, Shared, NonceShown, KeyPair, Judged, Genuine, Signing
  <2> QED BY <1>1, <2>1, <2>3 DEF CurveInv
<1> QED BY <1>2, <1>3

(* The public key, which is d G if it is a point.                          *)
LEMMA PublicKeyComputedCurveInv ==
  ASSUME EcInv, CurveInv, PublicKeyComputed
  PROVE  CurveInv'
<1>1. /\ op \in {"make_key", "compute_public_key"} /\ drawing = "Z" /\ curve \in Curves
      /\ op # "none" /\ d \in 1..(curve.n - 1) /\ d \in 0..(BaseTo(curve.num_words) - 1)
  BY DEF PublicKeyComputed, EcInv, EcTypeOK, KeyKept
<1>2. PICK z \in Masks :
        LET public == RegularMult(curve.G, InWords(d), z, curve)
        IN IF EccPoint_isZero(public) THEN AttemptFails
           ELSE Q' = public /\ Returns(Returned(op, TRUE)) /\ UNCHANGED d
  BY DEF PublicKeyComputed
<1> DEFINE public == RegularMult(curve.G, InWords(d), z, curve)
           res == Returned(op, TRUE)
<1>3. /\ public = Infinity \/ public = Mul(d, curve)
      /\ d \in 2..(curve.n - 3) => public = Mul(d, curve)
  <2>1. z \in 1..(curve.p - 1)
    BY <1>1, ZExact
  <2>2. InWords(d) \in VlisOf(curve) /\ Value(InWords(d)) = d
    <3>1. d \in Int
      BY <1>1
    <3> QED BY <1>1, <3>1, InWordsExact DEF InWords
  <2> DEFINE v == InWords(d)
  <2> HIDE DEF v
  <2>3. v \in VlisOf(curve) /\ Value(v) = d /\ Value(v) \in 1..(curve.n - 1)
    BY <1>1, <2>2 DEF v
  <2>4. LET point == RegularMult(curve.G, v, z, curve)
        IN /\ point = Infinity \/ point = Mul(Value(v), curve)
           /\ Value(v) \in 2..(curve.n - 3) => point = Mul(Value(v), curve)
    BY <1>1, <2>1, <2>3, LadderOfG
  <2> QED BY <2>3, <2>4 DEF v
<1>4. CASE EccPoint_isZero(public)
  <2>1. AttemptFails
    BY <1>2, <1>4
  <2>2. d \notin 2..(curve.n - 3)
    <3>1. public = Infinity /\ Mul(d, curve) # Infinity
      BY <1>1, <1>4, InOrder DEF EccPoint_isZero
    <3> QED BY <1>3, <3>1
  <2> QED BY <1>1, <2>1, <2>2, AttemptFailsCurveInv
<1>5. CASE ~EccPoint_isZero(public)
  <2>1. Q' = public /\ Returns(res) /\ d' = d
    BY <1>2, <1>5
  <2>2. Q' = Mul(d', curve)
    BY <1>3, <1>5, <2>1 DEF EccPoint_isZero
  <2>3. res.of = op /\ res.ok = TRUE
    BY DEF Returned
  <2>4. Granted(res, d', Q', g_rng, curve)
    BY <1>1, <2>3 DEF Granted, Signing
  <2> HIDE DEF public, res
  <2> QED BY <2>1, <2>2, <2>4, ReturnsCurveInv
<1> QED BY <1>4, <1>5

(* The shared secret is the x coordinate of the product's point.           *)
LEMMA SecretComputedCurveInv ==
  ASSUME EcInv, CurveInv, SecretComputed
  PROVE  CurveInv'
<1>1. /\ op = "shared_secret" /\ drawing = "Z" /\ UNCHANGED <<d, Q>> /\ curve \in Curves
      /\ arg \in PeerKeys /\ HasKey /\ Q # Infinity /\ d \in 1..(curve.n - 1)
      /\ d \in 0..(BaseTo(curve.num_words) - 1) /\ Q = Mul(d, curve)
  BY DEF SecretComputed, EcInv, EcTypeOK, Control, KeyKept, CurveInv
<1>2. PICK z \in Masks :
        LET point == RegularMult(PublicOf(arg), InWords(d), z, curve)
        IN Returns([of |-> op, ok |-> ~EccPoint_isZero(point), with |-> arg, secret |-> point[1]])
  BY DEF SecretComputed
<1> DEFINE point == RegularMult(PublicOf(arg), InWords(d), z, curve)
           ok == ~EccPoint_isZero(point)
           res == [of |-> op, ok |-> ok, with |-> arg, secret |-> point[1]]
<1>3. Returns(res)
  BY <1>2
<1>4. arg \in 1..(curve.n - 1) /\ arg \in Nat
  <2>1. arg \in 1..(curve.n - 1)
    BY <1>1, CallerAssumption
  <2>2. curve.n \in Nat
    BY <1>1, CurveFacts
  <2> QED BY <2>1, <2>2
<1>5. point = Infinity \/ point = Mul(d * arg, curve)
  <2>1. z \in 1..(curve.p - 1)
    BY <1>1, ZExact
  <2>2. InWords(d) \in VlisOf(curve) /\ Value(InWords(d)) = d
    <3>1. d \in Int
      BY <1>1
    <3> QED BY <1>1, <3>1, InWordsExact DEF InWords
  <2>3. PublicOf(arg) = Mul(arg, curve)
    BY <1>1, <1>4, MultipleOfG DEF PublicOf
  <2>4. arg \in Int /\ ~Congruent(arg, 0, curve.n)
    BY <1>1, <1>4, InOrder
  <2> DEFINE v == InWords(d)
             a == arg
  <2>5. a \in Int /\ ~Congruent(a, 0, curve.n)
    BY <2>4
  <2>6. v \in VlisOf(curve) /\ Value(v) = d /\ Value(v) \in 1..(curve.n - 1)
    BY <1>1, <2>2
  <2> HIDE DEF v, a
  <2>7. LET T == RegularMult(Mul(a, curve), v, z, curve)
        IN T = Infinity \/ T = Mul(Value(v) * a, curve)
    BY <1>1, <2>1, <2>5, <2>6, LadderExact
  <2> QED BY <2>3, <2>6, <2>7 DEF v, a
<1>6. res.of = op /\ res.ok = ok /\ res.with = arg /\ res.secret = point[1]
  OBVIOUS
<1> HIDE DEF res, point
<1>7. ok => Shared(res, d', Q', curve)
  BY <1>1, <1>5, <1>6 DEF EccPoint_isZero, Shared, KeyPair
<1>8. Granted(res, d', Q', g_rng, curve)
  BY <1>1, <1>6, <1>7 DEF Granted, Signing
<1>9. Q' # Infinity => Q' = Mul(d', curve)
  BY <1>1
<1> QED BY <1>3, <1>8, <1>9, ReturnsCurveInv

(* The nonce's point is nonce G.                                           *)
LEMMA PointComputedCurveInv ==
  ASSUME EcInv, CurveInv, PointComputed
  PROVE  CurveInv'
<1>1. /\ op \in Signing /\ op \notin {"none", "compute_public_key", "shared_secret"}
      /\ drawing = "Z" /\ curve \in Curves
      /\ k \in VlisOf(curve) /\ Value(k) \in 1..(curve.n - 1)
  BY DEF PointComputed, Signing, EcInv, EcTypeOK, NonceKept
<1>2. PICK z \in Masks :
        LET point == RegularMult(curve.G, k, z, curve)
        IN IF point[1] = 0 THEN AttemptFails
           ELSE P' = point /\ Goes("blind") /\ UNCHANGED <<attempts, d, Q, k>>
  BY DEF PointComputed
<1> DEFINE point == RegularMult(curve.G, k, z, curve)
<1>3. point = Infinity \/ point = Mul(Value(k), curve)
  <2>1. z \in 1..(curve.p - 1)
    BY <1>1, ZExact
  <2> QED BY <1>1, <2>1, LadderOfG
<1> HIDE DEF point
<1>4. CASE point[1] = 0
  <2>1. AttemptFails
    BY <1>2, <1>4 DEF point
  <2> QED BY <1>1, <2>1, AttemptFailsCurveInv
<1>5. CASE point[1] # 0
  <2>1. P' = point /\ Goes("blind") /\ UNCHANGED <<attempts, d, Q, k>>
    BY <1>2, <1>5 DEF point
  <2>2. drawing' = "blind" /\ UNCHANGED <<curve, g_rng, op, arg, result>>
    BY <2>1 DEF Goes
  <2>3. P' = Mul(Value(k), curve)
    BY <1>3, <1>5, <2>1 DEF Infinity
  <2>4. (P = Mul(Value(k), curve))'
    <3>1. Mul(Value(k), curve)' = Mul(Value(k'), curve')
      OBVIOUS
    <3> QED BY <2>1, <2>2, <2>3, <3>1
  <2>5. Granted(result, d, Q, g_rng, curve)' <=> Granted(result', d', Q', g_rng', curve')
    BY DEF Granted, Shared, NonceShown, KeyPair, Judged, Genuine, Signing
  <2>6. Mul(d, curve)' = Mul(d', curve')
    OBVIOUS
  <2> QED BY <1>1, <2>1, <2>2, <2>4, <2>5, <2>6 DEF CurveInv
<1> QED BY <1>4, <1>5

(* A signature shows the nonce's point.                                    *)
LEMMA SignatureComputedCurveInv ==
  ASSUME EcInv, CurveInv, SignatureComputed
  PROVE  CurveInv'
<1>1. /\ drawing = "blind" /\ op \in Signing /\ op \notin {"none", "compute_public_key"}
      /\ curve \in Curves /\ arg \in Hashes /\ HasKey
      /\ k \in VlisOf(curve) /\ Value(k) \in 1..(curve.n - 1)
      /\ d \in 0..(BaseTo(curve.num_words) - 1) /\ P \in Points(curve)
      /\ Q # Infinity /\ d \in 1..(curve.n - 1) /\ Q = Mul(d, curve)
      /\ P = Mul(Value(k), curve)
  <2>1. drawing = "blind" /\ op \in Signing /\ op \notin {"none", "compute_public_key"}
    BY WhoWaits DEF SignatureComputed, Signing
  <2> QED BY <2>1 DEF EcInv, EcTypeOK, Control, KeyKept, NonceKept, CurveInv
<1> DEFINE rd == vli_modMult(InWords(d), InWords(P[1]), order)
           e == bits2int(arg, curve)
           sum == vli_modAdd(e, rd, order)
           s(blind) == vli_modMult(sum, Inverted(blind), order)
           res(blind) == [of |-> op, ok |-> TRUE, hash |-> arg, r |-> InWords(P[1]),
                          s |-> s(blind), nonce |-> Value(k)]
<1>2. PICK blind \in Masks :
        IF vli_numBits(s(blind)) > num_bytes(curve) * ByteBits THEN AttemptFails
        ELSE Returns(res(blind)) /\ UNCHANGED <<d, Q>>
  BY DEF SignatureComputed
<1>3. CASE vli_numBits(s(blind)) > num_bytes(curve) * ByteBits
  BY <1>1, <1>2, <1>3, AttemptFailsCurveInv
<1>4. CASE ~(vli_numBits(s(blind)) > num_bytes(curve) * ByteBits)
  <2>1. Returns(res(blind)) /\ d' = d /\ Q' = Q
    BY <1>2, <1>4
  <2>2. /\ res(blind).of = op /\ res(blind).ok = TRUE /\ res(blind).hash = arg
        /\ res(blind).r = InWords(P[1]) /\ res(blind).s = s(blind)
        /\ res(blind).nonce = Value(k)
    OBVIOUS
  <2>3. InWords(P[1]) \in VlisOf(curve) /\ Value(InWords(P[1])) = P[1]
    <3>1. P[1] \in 0..(curve.p - 1) /\ curve.p \in Nat /\ curve.p < BaseTo(curve.num_words)
          /\ BaseTo(curve.num_words) \in Nat
      BY <1>1, CurveFacts DEF Points
    <3>2. P[1] \in Int /\ P[1] \in 0..(BaseTo(curve.num_words) - 1)
      BY <3>1
    <3> QED BY <1>1, <3>2, InWordsExact DEF InWords
  <2>4. s(blind) \in VlisOf(curve)
    <3> DEFINE nw == curve.num_words
               blinded == vli_modMult(k, InWords(blind), order)
    <3>1. InWords(blind) \in VlisOf(curve) /\ Value(InWords(blind)) \in 1..(curve.n - 1)
      BY <1>1, MasksExact
    <3>2. InWords(d) \in VlisOf(curve)
      <4>1. d \in Int
        BY <1>1
      <4> QED BY <1>1, <4>1, InWordsExact DEF InWords
    <3>3. e \in VlisOf(curve)
      <4>1. arg \in Seq(Bytes)
        BY <1>1, CallerAssumption DEF Bytes
      <4> QED BY <1>1, <4>1, Bits2intTyped
    <3>4. order = Modulus(curve.n, curve)
      BY DEF order, InWords, Modulus
    <3> DEFINE inv == Inverted(blind)
               t == s(blind)
               x == InWords(P[1])
               private == InWords(d)
               w == InWords(blind)
               mod == order
    <3>5. inv = vli_modMult(vli_modInv(vli_modMult(k, w, mod), mod), w, mod)
      BY DEF Inverted
    <3>6. t = vli_modMult(vli_modAdd(e, vli_modMult(private, x, mod), mod), inv, mod)
      OBVIOUS
    <3>7. /\ mod = Modulus(curve.n, curve) /\ private \in VlisOf(curve) /\ x \in VlisOf(curve)
          /\ e \in VlisOf(curve) /\ w \in VlisOf(curve) /\ Value(w) \in 1..(curve.n - 1)
      BY <2>3, <3>1, <3>2, <3>3, <3>4
    <3> HIDE DEF inv, t, e, x, private, w, mod
    <3>8. t \in VlisOf(curve)
      BY <1>1, <3>5, <3>6, <3>7, SignatureExact
    <3> QED BY <3>8 DEF t
  <2> HIDE DEF res, s, e
  <2>5. NonceShown(res(blind), curve) /\ KeyPair(d', Q', curve)
    BY <1>1, <2>1, <2>2, <2>3, <2>4 DEF NonceShown, KeyPair
  <2>6. Granted(res(blind), d', Q', g_rng, curve)
    BY <1>1, <2>2, <2>5 DEF Granted, Signing
  <2>7. Q' # Infinity => Q' = Mul(d', curve)
    BY <1>1, <2>1
  <2> QED BY <2>1, <2>6, <2>7, ReturnsCurveInv
<1> QED BY <1>3, <1>4

-----------------------------------------------------------------------------
(* The steps that only wait for, or come to, the next draw.                *)
LEMMA WaitingCurveInv ==
  ASSUME EcInv, CurveInv,
         DrawsAgain \/ make_key \/ NonceDrawn
         \/ (\E h \in Hashes : \E how \in {"sign", "sign_deterministic"} : sign(how, h))
         \/ (\E private \in PeerKeys : shared_secret(private))
  PROVE  CurveInv'
<1>1. CASE DrawsAgain
  <2>1. UNCHANGED <<curve, g_rng, op, drawing, d, Q, k, P, arg, result>>
    BY <1>1 DEF DrawsAgain
  <2>2. op' = "shared_secret" => arg' \in PeerKeys
    BY <2>1 DEF CurveInv
  <2> QED BY <2>1, <2>2, KeptCurveInv
<1>2. CASE make_key
  <2>1. drawing' # "blind" /\ op' # "shared_secret" /\ UNCHANGED <<curve, g_rng, d, Q, result>>
    BY <1>2 DEF make_key
  <2> QED BY <2>1, KeptCurveInv
<1>3. CASE NonceDrawn
  <2>1. op = "sign" /\ Goes("Z") /\ UNCHANGED <<d, Q>>
    BY <1>3, WhoWaits DEF NonceDrawn
  <2>2. drawing' # "blind" /\ op' # "shared_secret" /\ UNCHANGED <<curve, g_rng, d, Q, result>>
    BY <2>1 DEF Goes
  <2> QED BY <2>2, KeptCurveInv
<1>4. ASSUME NEW h \in Hashes, NEW how \in {"sign", "sign_deterministic"}, sign(how, h)
      PROVE  CurveInv'
  <2>1. drawing' # "blind" /\ op' # "shared_secret" /\ UNCHANGED <<curve, g_rng, d, Q, result>>
    BY <1>4 DEF sign, Looping
  <2> QED BY <2>1, KeptCurveInv
<1>5. ASSUME NEW private \in PeerKeys, shared_secret(private)
      PROVE  CurveInv'
  <2>1. /\ drawing' # "blind" /\ UNCHANGED <<curve, g_rng, d, Q, result>>
        /\ arg' \in PeerKeys
    BY <1>5 DEF shared_secret
  <2> QED BY <2>1, KeptCurveInv
<1> QED BY <1>1, <1>2, <1>3, <1>4, <1>5

(* A flipped byte leaves a word a word.                                    *)
LEMMA FlippedTyped ==
  ASSUME NEW n \in Nat \ {0}, NEW v \in Vlis(n)
  PROVE  Flipped(v) \in Vlis(n)
<1> DEFINE unit == Pow2[WordBits - ByteBits]
           size == ByteTo(1)
           w == v[n]
           q == w \div unit
           r == w % unit
           flipped == w + (size - 1 - 2 * q) * unit
<1>1. unit \in Nat \ {0} /\ size \in Nat \ {0} /\ size * unit = Base
  <2>1. ByteBits \in Nat \ {0} /\ WordBytes \in Nat \ {0}
    BY ByteFacts
  <2> DEFINE rest == ByteBits * (WordBytes - 1)
  <2>2. rest \in Nat /\ WordBits = ByteBits + rest
    <3>1. \A i, j \in Nat \ {0} : i * (j - 1) \in Nat /\ i * j = i + i * (j - 1)
      OBVIOUS
    <3> QED BY <2>1, <3>1 DEF WordBits
  <2> HIDE DEF rest
  <2>3. WordBits - ByteBits = rest /\ ByteBits * 1 = ByteBits /\ ByteBits \in Nat
    BY <2>1, <2>2
  <2>4. Pow2[ByteBits + rest] = Pow2[ByteBits] * Pow2[rest]
    BY <2>2, <2>3, Pow2Plus
  <2>5. Pow2[ByteBits] \in Nat \ {0} /\ Pow2[rest] \in Nat \ {0}
    BY <2>2, <2>3, Pow2Defined
  <2> QED BY <2>2, <2>3, <2>4, <2>5 DEF Base, ByteTo
<1>2. v \in [1..n -> Word] /\ w \in Word /\ Len(v) = n /\ DOMAIN v = 1..n
  <2>1. v \in [1..n -> Word] /\ n \in 1..n /\ n \in Nat
    BY DEF Vlis
  <2> QED BY <2>1, LenOfVli
<1>3. Base \in Nat
  BY BaseFacts
<1>4. w \in Int /\ 0 <= w /\ w < Base
  BY <1>2, <1>3 DEF Word
<1> HIDE DEF unit, size, w
<1>5. q \in Int /\ r \in 0..(unit - 1) /\ w = q * unit + r
  BY <1>1, <1>4, Division
<1> HIDE DEF q, r
<1>6. 0 <= q /\ q <= size - 1
  <2>1. ASSUME q < 0 PROVE FALSE
    <3>1. q * unit <= -unit
      BY <1>1, <1>5, <2>1
    <3> HIDE DEF flipped
    <3>2. q * unit \in Int
      BY <1>1, <1>5
    <3> QED BY <1>1, <1>4, <1>5, <3>1, <3>2
  <2>2. ASSUME size <= q PROVE FALSE
    <3>1. size * unit <= q * unit
      BY <1>1, <1>5, <2>2
    <3>2. q * unit \in Int
      BY <1>1, <1>5
    <3> QED BY <1>1, <1>3, <1>4, <1>5, <3>1, <3>2
  <2> QED BY <1>1, <1>5, <2>1, <2>2
<1> DEFINE m == size - 1 - q
<1>7. m \in Nat /\ flipped = m * unit + r /\ m <= size - 1
  <2>1. m \in Nat /\ m <= size - 1 /\ size - 1 - 2 * q = m - q
    BY <1>1, <1>5, <1>6
  <2> HIDE DEF m
  <2>2. (m - q) * unit = m * unit - q * unit
    BY <1>1, <1>5, <2>1
  <2>3. m * unit \in Int /\ q * unit \in Int
    BY <1>1, <1>5, <2>1
  <2> QED BY <1>4, <1>5, <2>1, <2>2, <2>3
<1> HIDE DEF m, flipped
<1>8. flipped \in Word
  <2>1. m * unit <= (size - 1) * unit /\ m * unit \in Nat
    BY <1>1, <1>7
  <2>2. (size - 1) * unit = size * unit - unit
    BY <1>1
  <2> DEFINE mu == m * unit
             su == (size - 1) * unit
  <2>3. mu \in Nat /\ mu <= su /\ su = Base - unit /\ flipped = mu + r
    BY <1>1, <1>7, <2>1, <2>2
  <2> HIDE DEF mu, su
  <2>4. flipped \in 0..(Base - 1)
    BY <1>1, <1>3, <1>5, <2>3
  <2> QED BY <2>4 DEF Word
<1>9. Flipped(v) = [v EXCEPT ![n] = flipped]
  BY <1>2 DEF Flipped, flipped, w, q, size, unit
<1> QED BY <1>2, <1>8, <1>9 DEF Vlis

-----------------------------------------------------------------------------
(* Whatever uECC_verify() is offered, its key is a multiple of G, and the  *)
(* numbers are as long as they should be.                                  *)
OfferTyped(o, c) ==
  /\ o.hash \in Hashes /\ o.r \in VlisOf(c) /\ o.s \in VlisOf(c)
  /\ \E i \in 1..(c.n - 1) : o.Q = Mul(i, c)

(* All of what is offered comes from a key pair and a signature.           *)
LEMMA OfferedTyped ==
  ASSUME curve \in Curves, KeyPair(d, Q, curve), NonceShown(result, curve), NEW o \in Offered
  PROVE  OfferTyped(o, curve)
<1> DEFINE signed == [Q |-> Q, hash |-> result.hash, r |-> result.r, s |-> result.s]
<1>1. /\ signed.Q = Q /\ signed.hash = result.hash /\ signed.r = result.r /\ signed.s = result.s
      /\ \A h : LET t == [signed EXCEPT !.hash = h]
                IN t.Q = Q /\ t.hash = h /\ t.r = result.r /\ t.s = result.s
      /\ \A x : LET t == [signed EXCEPT !.Q = x]
                IN t.Q = x /\ t.hash = result.hash /\ t.r = result.r /\ t.s = result.s
      /\ \A x : LET t == [signed EXCEPT !.r = x]
                IN t.Q = Q /\ t.hash = result.hash /\ t.r = x /\ t.s = result.s
      /\ \A x : LET t == [signed EXCEPT !.s = x]
                IN t.Q = Q /\ t.hash = result.hash /\ t.r = result.r /\ t.s = x
  OBVIOUS
<1>2. /\ result.hash \in Hashes /\ result.r \in VlisOf(curve) /\ result.s \in VlisOf(curve)
      /\ \E i \in 1..(curve.n - 1) : Q = Mul(i, curve)
  BY DEF KeyPair, NonceShown
<1>3. \/ o = signed
      \/ \E h \in Hashes : o = [signed EXCEPT !.hash = h]
      \/ \E other \in PeerKeys : o = [signed EXCEPT !.Q = PublicOf(other)]
      \/ o = [signed EXCEPT !.r = Flipped(signed.r)]
      \/ o = [signed EXCEPT !.r = Once(signed.r, order)]
      \/ o = [signed EXCEPT !.s = vli_sub(order, signed.s).words]
  BY DEF Offered
<1> HIDE DEF signed
<1>4. CASE o = signed
  BY <1>1, <1>2, <1>4 DEF OfferTyped
<1>5. ASSUME NEW h \in Hashes, o = [signed EXCEPT !.hash = h] PROVE OfferTyped(o, curve)
  BY <1>1, <1>2, <1>5 DEF OfferTyped
<1>6. ASSUME NEW other \in PeerKeys, o = [signed EXCEPT !.Q = PublicOf(other)]
      PROVE  OfferTyped(o, curve)
  <2>1. other \in 1..(curve.n - 1) /\ other \in Nat
    <3>1. other \in 1..(curve.n - 1) /\ curve.n \in Nat
      BY CallerAssumption, CurveFacts
    <3> QED BY <3>1
  <2>2. PublicOf(other) = Mul(other, curve)
    BY <2>1, MultipleOfG DEF PublicOf
  <2> QED BY <1>1, <1>2, <1>6, <2>1, <2>2 DEF OfferTyped
<1>7. CASE o = [signed EXCEPT !.r = Flipped(signed.r)]
  <2>1. Flipped(signed.r) \in VlisOf(curve)
    <3>1. curve.num_words \in Nat \ {0}
      BY CurveFacts
    <3> QED BY <1>1, <1>2, <3>1, FlippedTyped DEF VlisOf
  <2> QED BY <1>1, <1>2, <1>7, <2>1 DEF OfferTyped
<1>8. order = Modulus(curve.n, curve)
  BY DEF order, InWords, Modulus
<1>9. CASE o = [signed EXCEPT !.r = Once(signed.r, order)]
  <2>1. Once(signed.r, order) \in VlisOf(curve)
    BY <1>1, <1>2, <1>8, OnceTyped
  <2> QED BY <1>1, <1>2, <1>9, <2>1 DEF OfferTyped
<1>10. CASE o = [signed EXCEPT !.s = vli_sub(order, signed.s).words]
  <2>1. vli_sub(order, signed.s).words \in VlisOf(curve)
    <3>1. order \in Vlis(curve.num_words) /\ signed.s \in Vlis(curve.num_words) /\ curve.num_words \in Nat
      BY <1>1, <1>2, <1>8, OrderExact, CurveFacts DEF VlisOf
    <3> QED BY <3>1, SubExact DEF VlisOf
  <2> QED BY <1>1, <1>2, <1>10, <2>1 DEF OfferTyped
<1> QED BY <1>3, <1>4, <1>5, <1>6, <1>7, <1>9, <1>10

(* What uECC_verify() says is judged right, by VerifyExact and SignedValid.*)
LEMMA verifyCurveInv == ASSUME EcInv, CurveInv, verify PROVE CurveInv'
<1>1. /\ op = "none" /\ curve \in Curves /\ result.of \in Signing /\ result.ok
      /\ UNCHANGED <<curve, g_rng, op, drawing, tries, attempts, d, Q, k, P, arg>>
      /\ drawing # "blind"
  BY WhoWaits DEF verify, EcInv, EcTypeOK, Signing
<1>2. /\ NonceShown(result, curve) /\ KeyPair(d, Q, curve)
      /\ Signed(result, d, curve)
  BY <1>1, EquationSigned DEF CurveInv, Granted, EcInv
<1>3. PICK o \in Offered :
        result' = [of |-> "verify", offered |-> o,
                   own |-> o.Q = Q /\ o.hash = result.hash /\ o.r = result.r /\ o.s = result.s,
                   ok |-> uECC_verify(o.Q, bits2int(o.hash, curve), o.r, o.s, curve)]
  BY DEF verify
<1> DEFINE e == bits2int(o.hash, curve)
           own == o.Q = Q /\ o.hash = result.hash /\ o.r = result.r /\ o.s = result.s
           ok == uECC_verify(o.Q, e, o.r, o.s, curve)
           res == [of |-> "verify", offered |-> o, own |-> own, ok |-> ok]
<1>4. result' = res /\ res.of = "verify" /\ res.offered = o /\ res.own = own /\ res.ok = ok
  BY <1>3
<1> HIDE DEF res
<1>5. /\ o.hash \in Hashes /\ o.r \in VlisOf(curve) /\ o.s \in VlisOf(curve)
      /\ \E i \in 1..(curve.n - 1) : o.Q = Mul(i, curve)
  BY <1>1, <1>2, OfferedTyped DEF OfferTyped
<1>6. PICK i \in 1..(curve.n - 1) : o.Q = Mul(i, curve)
  BY <1>5
<1>7. e \in VlisOf(curve)
  <2>1. o.hash \in Seq(Bytes)
    BY <1>5, CallerAssumption DEF Bytes
  <2> QED BY <1>1, <2>1, Bits2intTyped
<1> DEFINE r == o.r
           s == o.s
           public == o.Q
<1>8. ASSUME public[1] # curve.G[1]
      PROVE  /\ ok => ValidSignature(public, Value(e), Value(r), Value(s), curve)
             /\ ValidSignature(public, Value(e), Value(r), Value(s), curve) /\ ~ok =>
                  VerifySum(public, e, r, s, curve)[3] = 0
  <2>1. i \in Int /\ ~Congruent(i, 0, curve.n)
    BY <1>1, InOrder
  <2>2. /\ r \in VlisOf(curve) /\ s \in VlisOf(curve) /\ e \in VlisOf(curve)
        /\ Mul(i, curve)[1] # curve.G[1]
    BY <1>5, <1>6, <1>7, <1>8
  <2>3. public = Mul(i, curve) /\ ok = uECC_verify(public, e, r, s, curve)
    BY <1>6
  <2> HIDE DEF r, s, e, public, ok
  <2>4. LET fine == uECC_verify(Mul(i, curve), e, r, s, curve)
            valid == ValidSignature(Mul(i, curve), Value(e), Value(r), Value(s), curve)
        IN /\ fine => valid
           /\ valid /\ ~fine => VerifySum(Mul(i, curve), e, r, s, curve)[3] = 0
    BY <1>1, <2>1, <2>2, VerifyExact
  <2> QED BY <2>3, <2>4
<1>9. ASSUME own, InRange(r, curve), ~vli_isZero(s)
      PROVE  ValidSignature(public, Value(e), Value(r), Value(s), curve)
  <2>1. r = result.r /\ s = result.s /\ o.hash = result.hash /\ public = Q
    BY <1>9
  <2> DEFINE nonce == result.nonce
  <2>2. /\ nonce \in 1..(curve.n - 1) /\ Value(s) < curve.n
        /\ (Value(s) * nonce - Value(e) - Value(r) * d) % curve.n = 0
    BY <1>1, <1>2, <2>1 DEF Signed
  <2>3. Value(r) = Mul(nonce, curve)[1] /\ public = Mul(d, curve) /\ d \in Int
    BY <1>1, <1>2, <2>1, InOrder DEF NonceShown, KeyPair
  <2>4. r \in VlisOf(curve) /\ s \in VlisOf(curve)
    BY <1>5
  <2> HIDE DEF r, s, e, public, nonce
  <2>5. Value(r) \in 1..(curve.n - 1)
    BY <1>1, <1>9, <2>4, InRangeExact
  <2>6. Value(s) \in 1..(curve.n - 1)
    <3>1. /\ curve.num_words \in Nat /\ curve.n \in Nat /\ s \in Vlis(curve.num_words)
      BY <1>1, <2>4, CurveFacts DEF VlisOf
    <3>2. Value(s) \in Int /\ 0 <= Value(s) /\ Value(s) # 0
      BY <1>9, <3>1, ValueBound, ZeroExact
    <3> QED BY <2>2, <3>1, <3>2
  <2>7. ValidSignature(Mul(d, curve), Value(e), Value(r), Value(s), curve)
    BY <1>1, <1>7, <2>2, <2>3, <2>4, <2>5, <2>6, SignedValid
  <2> QED BY <2>3, <2>7
<1>10. Judged(res, curve)
  BY <1>4, <1>8, <1>9 DEF Judged, Genuine
<1>11. Granted(res, d', Q', g_rng', curve')
  BY <1>1, <1>4, <1>10 DEF Granted, Signing
<1>12. Granted(result, d, Q, g_rng, curve)'
  BY <1>4, <1>11 DEF Granted, Shared, NonceShown, KeyPair, Judged, Genuine, Signing
<1>13. (Q # Infinity => Q = Mul(d, curve))'
  <2>1. Mul(d, curve)' = Mul(d', curve')
    OBVIOUS
  <2> QED BY <1>1, <2>1 DEF CurveInv
<1> QED BY <1>1, <1>12, <1>13 DEF CurveInv

-----------------------------------------------------------------------------
(* The nonce of uECC_sign_deterministic().                                 *)
LEMMA NonceFromChainCurveInv ==
  ASSUME EcInv, CurveInv, NonceFromChain
  PROVE  CurveInv'
<1>1. op = "sign_deterministic"
  BY WhoWaits DEF NonceFromChain
<1>2. AttemptFails \/ (Goes("Z") /\ UNCHANGED <<d, Q>>)
  BY DEF NonceFromChain
<1>3. CASE AttemptFails
  BY <1>1, <1>3, AttemptFailsCurveInv
<1>4. CASE Goes("Z") /\ UNCHANGED <<d, Q>>
  <2>1. drawing' # "blind" /\ op' # "shared_secret" /\ UNCHANGED <<curve, g_rng, d, Q, result>>
    BY <1>1, <1>4 DEF Goes
  <2> QED BY <2>1, KeptCurveInv
<1> QED BY <1>2, <1>3, <1>4

(* The nonce uECC_sign_with_k() is given.                                  *)
LEMMA sign_with_kCurveInv ==
  ASSUME EcInv, CurveInv, NEW message_hash, NEW given, sign_with_k(message_hash, given)
  PROVE  CurveInv'
<1>1. \/ /\ op' = "sign_with_k" /\ drawing' = "Z" /\ UNCHANGED <<curve, g_rng, d, Q, result>>
      \/ Returns(Returned("sign_with_k", FALSE)) /\ UNCHANGED <<d, Q>>
  BY DEF sign_with_k
<1>2. CASE op' = "sign_with_k" /\ drawing' = "Z" /\ UNCHANGED <<curve, g_rng, d, Q, result>>
  BY <1>2, KeptCurveInv
<1>3. CASE Returns(Returned("sign_with_k", FALSE)) /\ UNCHANGED <<d, Q>>
  BY <1>3, RefusesCurveInv
<1> QED BY <1>1, <1>2, <1>3

(* What could not be drawn.                                                *)
LEMMA NotDrawnCurveInv ==
  ASSUME EcInv, CurveInv,
         KeyNotDrawn \/ NonceNotDrawn \/ PublicKeyUnmasked \/ SecretUnmasked \/ SignatureUnmasked
  PROVE  CurveInv'
<1>1. CASE KeyNotDrawn
  <2>1. op = "make_key"
    BY <1>1, WhoWaits DEF KeyNotDrawn
  <2> QED BY <1>1, <2>1, RefusesCurveInv DEF KeyNotDrawn
<1>2. CASE NonceNotDrawn
  <2>1. op = "sign"
    BY <1>2, WhoWaits DEF NonceNotDrawn
  <2> QED BY <1>2, <2>1, RefusesCurveInv DEF NonceNotDrawn
<1>3. CASE PublicKeyUnmasked \/ SecretUnmasked \/ SignatureUnmasked
  <2>1. op # "none" /\ MaskFails /\ AttemptFails
    BY <1>3 DEF PublicKeyUnmasked, SecretUnmasked, SignatureUnmasked, Signing
  <2> QED BY <2>1, UnmaskedCurveInv
<1> QED BY <1>1, <1>2, <1>3

(* Nothing has changed.                                                    *)
LEMMA StutterCurveInv ==
  ASSUME EcInv, CurveInv, UNCHANGED ecVars
  PROVE  CurveInv'
<1>1. /\ UNCHANGED <<curve, g_rng, d, Q, result>> /\ UNCHANGED <<drawing, k, P>>
      /\ op' = "shared_secret" => arg' \in PeerKeys
  BY DEF ecVars, CurveInv
<1> QED BY <1>1, KeptCurveInv

(* Every step of micro-ecc keeps this invariant too.                       *)
LEMMA StepCurveInv == EcInv /\ CurveInv /\ [EcNext]_ecVars => CurveInv'
<1> SUFFICES ASSUME EcInv, CurveInv, [EcNext]_ecVars PROVE CurveInv'
  OBVIOUS
<1>1. CASE EcStep
  BY <1>1, WaitingCurveInv, NotDrawnCurveInv, KeyDrawnCurveInv, PublicKeyComputedCurveInv,
     SecretComputedCurveInv, NonceFromChainCurveInv, PointComputedCurveInv,
     SignatureComputedCurveInv DEF EcStep
<1>2. CASE Calls
  BY <1>2, WaitingCurveInv, compute_public_keyCurveInv, verifyCurveInv DEF Calls
<1>3. CASE Signs
  BY <1>3, WaitingCurveInv, sign_with_kCurveInv DEF Signs
<1>4. CASE UNCHANGED ecVars
  BY <1>4, StutterCurveInv
<1> QED BY <1>1, <1>2, <1>3, <1>4 DEF EcNext

-----------------------------------------------------------------------------
(* What the invariant means for the key pair.                              *)
LEMMA KeyPairFacts ==
  ASSUME NEW c \in Curves, NEW i \in 1..(c.n - 1)
  PROVE  LET A == Mul(i, c)
         IN /\ A = Multiple(i, c.G, c) /\ uECC_valid_point(A, c)
            /\ uECC_decompress(uECC_compress(A), c) = A
<1>1. i \in Int /\ i \in Nat /\ ~Congruent(i, 0, c.n)
  <2>1. c.n \in Nat
    BY CurveFacts
  <2> QED BY <2>1, InOrder
<1> DEFINE A == Mul(i, c)
<1>2. A \in Points(c) /\ uECC_valid_point(A, c) /\ A[2] # 0
  BY <1>1, MulFacts, MulNegative
<1>3. A = Multiple(i, c.G, c)
  BY <1>1, MultipleOfG
<1> HIDE DEF A
<1>4. uECC_decompress(uECC_compress(A), c) = A
  BY <1>2, DecompressExact
<1> QED BY <1>2, <1>3, <1>4 DEF A

(* And for the other side of a key exchange.                               *)
LEMMA SharedAgrees ==
  ASSUME NEW c \in Curves, NEW key, NEW public, NEW res, Shared(res, key, public, c)
  PROVE  LET theirs == RegularMult(public, ToWords(res.with, c), NoZ, c)
         IN /\ res.secret = Multiple(res.with, public, c)[1]
            /\ theirs # Infinity => res.secret = theirs[1]
<1> DEFINE a == res.with
           v == ToWords(a, c)
           z == NoZ
<1>1. /\ key \in 1..(c.n - 1) /\ public = Mul(key, c)
      /\ a \in PeerKeys /\ res.secret = Mul(key * a, c)[1]
  BY DEF Shared, KeyPair
<1>2. a \in 1..(c.n - 1) /\ a \in Nat /\ c.n \in Nat /\ c.n < BaseTo(c.num_words)
      /\ BaseTo(c.num_words) \in Nat
  <2>1. a \in 1..(c.n - 1)
    BY <1>1, CallerAssumption
  <2>2. c.n \in Nat /\ c.n < BaseTo(c.num_words) /\ BaseTo(c.num_words) \in Nat
    BY CurveFacts
  <2> QED BY <2>1, <2>2
<1>3. v \in VlisOf(c) /\ Value(v) = a
  <2>1. a \in Int /\ a \in 0..(BaseTo(c.num_words) - 1)
    BY <1>2
  <2> QED BY <2>1, InWordsExact
<1>4. z \in 1..(c.p - 1)
  BY FieldFacts DEF NoZ
<1>5. key \in Int /\ ~Congruent(key, 0, c.n)
  BY <1>1, InOrder
<1> HIDE DEF a, v, z
<1>6. key * a = a * key
  BY <1>2, <1>5
<1>7. Multiple(a, Mul(key, c), c) = Mul(a * key, c)
  BY <1>2, <1>5, MultipleOfMul
<1>8. LET T == RegularMult(Mul(key, c), v, z, c)
      IN T = Infinity \/ T = Mul(Value(v) * key, c)
  BY <1>2, <1>3, <1>4, <1>5, LadderExact
<1> QED BY <1>1, <1>3, <1>6, <1>7, <1>8 DEF a, v, z

(* The two invariants together say what the properties say.                *)
LEMMA CurveInvMeans ==
  ASSUME EcInv, CurveInv
  PROVE  /\ KeyPairSound /\ RefusesOnlyExceptional /\ SecretsAgree /\ NoncePoint
         /\ AcceptsOnlyValid /\ AcceptsValid /\ OwnSignatureValid
<1>1. curve \in Curves /\ Granted(result, d, Q, g_rng, curve)
  BY DEF EcInv, EcTypeOK, CurveInv
<1>2. KeyPairSound
  <2>1. Q # Infinity => d \in 1..(curve.n - 1) /\ Q = Mul(d, curve)
    BY DEF EcInv, KeyKept, CurveInv
  <2> QED BY <1>1, <2>1, KeyPairFacts DEF KeyPairSound
<1>3. RefusesOnlyExceptional
  <2>1. result = Returned("compute_public_key", FALSE) =>
          result.of = "compute_public_key" /\ ~result.ok
    BY DEF Returned
  <2> QED BY <1>1, <2>1 DEF RefusesOnlyExceptional, Granted
<1>4. SecretsAgree
  <2>1. SUFFICES ASSUME result.of = "shared_secret", result.ok
                 PROVE  LET theirs == RegularMult(Q, InWords(result.with), NoZ, curve)
                        IN /\ result.secret = Multiple(result.with, Q, curve)[1]
                           /\ theirs # Infinity => result.secret = theirs[1]
    BY DEF SecretsAgree
  <2>2. Shared(result, d, Q, curve)
    BY <1>1, <2>1 DEF Granted
  <2> QED BY <1>1, <2>2, SharedAgrees DEF InWords
<1>5. NoncePoint
  <2>1. SUFFICES ASSUME result.of \in Signing, result.ok
                 PROVE  Value(result.r) = Multiple(result.nonce, curve.G, curve)[1]
    BY DEF NoncePoint
  <2>2. NonceShown(result, curve) /\ Signed(result, d, curve)
    BY <1>1, <2>1, EquationSigned DEF Granted, EcInv
  <2>3. Value(result.r) = Mul(result.nonce, curve)[1] /\ result.nonce \in 1..(curve.n - 1)
    BY <2>1, <2>2 DEF NonceShown, Signed
  <2> QED BY <1>1, <2>3, KeyPairFacts
<1>6. AcceptsOnlyValid /\ AcceptsValid /\ OwnSignatureValid
  <2>1. result.of = "verify" => Judged(result, curve)
    BY <1>1 DEF Granted
  <2> QED BY <2>1 DEF AcceptsOnlyValid, AcceptsValid, OwnSignatureValid, Judged, Genuine,
                      Textbook, Collides
<1> QED BY <1>2, <1>3, <1>4, <1>5, <1>6

-----------------------------------------------------------------------------
(* The properties that rest on the group of the curve.                     *)
CurveSound ==
  /\ KeyPairSound /\ RefusesOnlyExceptional /\ SecretsAgree /\ NoncePoint
  /\ AcceptsOnlyValid /\ AcceptsValid /\ OwnSignatureValid

(* They hold together, because the two invariants do.                      *)
LEMMA CurveSoundHolds == EcSpec => []CurveSound
<1>1. EcInit => EcInv /\ CurveInv
  BY InitEcInv, InitCurveInv
<1>2. EcInv /\ CurveInv /\ [EcNext]_ecVars => (EcInv /\ CurveInv)'
  BY StepEcInv, StepCurveInv
<1>3. EcInv /\ CurveInv => CurveSound
  BY CurveInvMeans DEF CurveSound
<1> QED BY <1>1, <1>2, <1>3, PTL DEF EcSpec

(* Every key pair is one, for every curve, key and Z: Q is that multiple   *)
(* of G, and uECC_decompress() gets it back (uECC.c:864-976, 1021-1049,    *)
(* 1096-1206).                                                             *)
THEOREM KeyPairSoundHolds == EcSpec => []KeyPairSound
<1>1. CurveSound => KeyPairSound
  BY DEF CurveSound
<1> QED BY <1>1, CurveSoundHolds, PTL

(* Where no generator can fail, uECC_compute_public_key() computes every   *)
(* key but 1, n-2 and n-1 (uECC.c:1173-1206).                              *)
THEOREM RefusesOnlyExceptionalHolds == EcSpec => []RefusesOnlyExceptional
<1>1. CurveSound => RefusesOnlyExceptional
  BY DEF CurveSound
<1> QED BY <1>1, CurveSoundHolds, PTL

(* Both sides of every key exchange have the same secret                   *)
(* (uECC.c:1051-1094).                                                     *)
THEOREM SecretsAgreeHolds == EcSpec => []SecretsAgree
<1>1. CurveSound => SecretsAgree
  BY DEF CurveSound
<1> QED BY <1>1, CurveSoundHolds, PTL

(* The r of every signature is the x coordinate of nonce G                 *)
(* (uECC.c:864-976, 1264-1282).                                            *)
THEOREM NoncePointHolds == EcSpec => []NoncePoint
<1>1. CurveSound => NoncePoint
  BY DEF CurveSound
<1> QED BY <1>1, CurveSoundHolds, PTL

(* uECC_verify() accepts nothing but valid signatures, tampered with or    *)
(* not (uECC.c:1492-1603).                                                 *)
THEOREM AcceptsOnlyValidHolds == EcSpec => []AcceptsOnlyValid
<1>1. CurveSound => AcceptsOnlyValid
  BY DEF CurveSound
<1> QED BY <1>1, CurveSoundHolds, PTL

(* It accepts every valid one unless an addition of the loop collides      *)
(* (uECC.c:1492-1603).                                                     *)
THEOREM AcceptsValidHolds == EcSpec => []AcceptsValid
<1>1. CurveSound => AcceptsValid
  BY DEF CurveSound
<1> QED BY <1>1, CurveSoundHolds, PTL

(* What uECC_sign() returns is a valid signature, if r and s are in range  *)
(* (uECC.c:1284-1330).                                                     *)
THEOREM OwnSignatureValidHolds == EcSpec => []OwnSignatureValid
<1>1. CurveSound => OwnSignatureValid
  BY DEF CurveSound
<1> QED BY <1>1, CurveSoundHolds, PTL

-----------------------------------------------------------------------------
(* How much is left: a step to a lower stage, or to the first stage of a   *)
(* later attempt, is worth more than all the tries there were.             *)
LEMMA StageDrops ==
  ASSUME NEW M \in Nat \ {0}, NEW x \in Int, NEW y \in Int, y < x, NEW t \in 0..(M - 1)
  PROVE  M * y - 0 < M * x - t
<1>1. M * x = M * y + M * (x - y) /\ M * y \in Int /\ M * x \in Int
  OBVIOUS
<1>2. M * (x - y) = M + M * (x - y - 1) /\ M * (x - y - 1) >= 0 /\ M * (x - y - 1) \in Int
  <2> DEFINE z == x - y - 1
  <2>1. z \in Nat /\ x - y = z + 1
    OBVIOUS
  <2> HIDE DEF z
  <2>2. M * (z + 1) = M + M * z /\ M * z >= 0 /\ M * z \in Int
    BY <2>1
  <2> QED BY <2>1, <2>2 DEF z
<1> DEFINE a == M * y
           b == M * (x - y - 1)
           e == M * x
           f == M * (x - y)
<1> HIDE DEF a, b, e, f
<1>3. e = a + f /\ f = M + b /\ b >= 0 /\ a \in Int /\ b \in Int /\ e \in Int /\ f \in Int
  BY <1>1, <1>2 DEF a, b, e, f
<1> QED BY <1>3 DEF a, e

(* A step on to the next stage of an attempt.                              *)
LEMMA LowerStage ==
  ASSUME EcTypeOK, tries' = 0, attempts' = attempts,
         Stage[drawing] \in Nat, Stage[drawing'] \in Nat, Stage[drawing'] < Stage[drawing]
  PROVE  StepsLeft' < StepsLeft
<1> DEFINE M == uECC_RNG_MAX_TRIES
           x == 4 * (M - attempts) + Stage[drawing]
           y == 4 * (M - attempts') + Stage[drawing']
<1>1. M \in Nat \ {0} /\ attempts \in Int /\ tries \in 0..(M - 1)
  BY CallerAssumption DEF EcTypeOK
<1>2. x \in Int /\ y \in Int /\ y < x
  BY <1>1
<1>3. StepsLeft = M * x - tries /\ StepsLeft' = M * y - 0
  BY DEF StepsLeft
<1> HIDE DEF M, x, y
<1> QED BY <1>1, <1>2, <1>3, StageDrops

(* An attempt that fails.                                                  *)
LEMMA FailsForward ==
  ASSUME EcInv, op # "none", AttemptFails
  PROVE  op' = "none" \/ StepsLeft' < StepsLeft
<1>1. CASE op \in DOMAIN Looping /\ attempts + 1 < uECC_RNG_MAX_TRIES
  <2> DEFINE M == uECC_RNG_MAX_TRIES
             x == 4 * (M - attempts) + Stage[drawing]
             y == 4 * (M - attempts') + Stage[drawing']
  <2>1. /\ M \in Nat \ {0} /\ attempts \in Int /\ tries \in 0..(M - 1)
        /\ drawing \in {"key", "Z", "nonce", "blind", "none", "T"}
    BY CallerAssumption DEF EcInv, EcTypeOK
  <2>2. attempts' = attempts + 1 /\ tries' = 0 /\ drawing' = Looping[op]
    BY <1>1 DEF AttemptFails, Goes
  <2>3. drawing # "none"
    BY WhoWaits
  <2>4. Stage[drawing] \in Nat /\ Stage[drawing] >= 1 /\ Stage[drawing'] = 3
    <3>1. Stage[drawing] \in {1, 2, 3}
      BY <2>1, <2>3 DEF Stage
    <3>2. op \in {"make_key", "sign", "sign_deterministic"}
      BY <1>1 DEF Looping
    <3>3. drawing' \in {"key", "nonce", "T"}
      BY <2>2, <3>2 DEF Looping
    <3> QED BY <3>1, <3>3 DEF Stage
  <2>5. x \in Int /\ y \in Int /\ y < x
    BY <2>1, <2>2, <2>4
  <2>6. StepsLeft = M * x - tries /\ StepsLeft' = M * y - 0
    BY <2>2 DEF StepsLeft
  <2> HIDE DEF M, x, y
  <2> QED BY <2>1, <2>5, <2>6, StageDrops
<1>2. CASE ~(op \in DOMAIN Looping /\ attempts + 1 < uECC_RNG_MAX_TRIES)
  BY <1>2 DEF AttemptFails, Returns
<1> QED BY <1>1, <1>2

(* Each step of a running function.                                        *)
LEMMA StepsForward ==
  ASSUME EcInv, EcStep
  PROVE  op' = "none" \/ StepsLeft' < StepsLeft
<1>1. CASE DrawsAgain
  <2> DEFINE all == uECC_RNG_MAX_TRIES * (4 * (uECC_RNG_MAX_TRIES - attempts) + Stage[drawing])
  <2>1. tries' = tries + 1 /\ attempts' = attempts /\ drawing' = drawing /\ tries \in Int
    BY <1>1 DEF DrawsAgain, EcInv, EcTypeOK
  <2>2. all \in Int
    <3>1. /\ uECC_RNG_MAX_TRIES \in Int /\ attempts \in Int
          /\ drawing \in {"key", "Z", "nonce", "blind", "none", "T"}
      BY CallerAssumption DEF EcInv, EcTypeOK
    <3>2. Stage[drawing] \in Int
      BY <3>1 DEF Stage
    <3> QED BY <3>1, <3>2
  <2>3. StepsLeft = all - tries /\ StepsLeft' = all - tries'
    BY <2>1 DEF StepsLeft
  <2> HIDE DEF all
  <2> QED BY <2>1, <2>2, <2>3
<1>2. CASE KeyDrawn \/ NonceDrawn
  <2>1. drawing \in {"key", "nonce"} /\ drawing' = "Z" /\ tries' = 0 /\ attempts' = attempts
    BY <1>2 DEF KeyDrawn, NonceDrawn, Goes
  <2>2. Stage[drawing] = 3 /\ Stage[drawing'] = 2
    BY <2>1 DEF Stage
  <2> QED BY <2>1, <2>2, LowerStage DEF EcInv
<1>3. CASE KeyNotDrawn \/ NonceNotDrawn \/ SecretComputed
  BY <1>3 DEF KeyNotDrawn, NonceNotDrawn, SecretComputed, Returns
<1>4. CASE PublicKeyUnmasked \/ SecretUnmasked \/ SignatureUnmasked
  BY <1>4, FailsForward DEF PublicKeyUnmasked, SecretUnmasked, SignatureUnmasked, Signing
<1>5. CASE PublicKeyComputed
  <2>1. op # "none" /\ (AttemptFails \/ op' = "none")
    BY <1>5 DEF PublicKeyComputed, Returns
  <2> QED BY <2>1, FailsForward
<1>6. CASE NonceFromChain
  <2>1. drawing = "T" /\ op # "none"
    BY <1>6, WhoWaits DEF NonceFromChain
  <2>2. AttemptFails \/ (drawing' = "Z" /\ tries' = 0 /\ attempts' = attempts)
    BY <1>6 DEF NonceFromChain, Goes
  <2>3. Stage["T"] = 3 /\ Stage["Z"] = 2
    BY DEF Stage
  <2> QED BY <2>1, <2>2, <2>3, FailsForward, LowerStage DEF EcInv
<1>7. CASE PointComputed
  <2>1. drawing = "Z" /\ op # "none"
    BY <1>7 DEF PointComputed, Signing
  <2>2. AttemptFails \/ (drawing' = "blind" /\ tries' = 0 /\ attempts' = attempts)
    BY <1>7 DEF PointComputed, Goes
  <2>3. Stage["Z"] = 2 /\ Stage["blind"] = 1
    BY DEF Stage
  <2> QED BY <2>1, <2>2, <2>3, FailsForward, LowerStage DEF EcInv
<1>8. CASE SignatureComputed
  <2>1. op # "none"
    BY <1>8, WhoWaits DEF SignatureComputed
  <2>2. AttemptFails \/ op' = "none"
    BY <1>8 DEF SignatureComputed, Returns
  <2> QED BY <2>1, <2>2, FailsForward
<1> QED BY <1>1, <1>2, <1>3, <1>4, <1>5, <1>6, <1>7, <1>8 DEF EcStep

(* Each step of a running call returns or leaves fewer steps, whatever the *)
(* generator does and however often an attempt fails, for every number of  *)
(* tries (uECC.c:936-946, 1033-1048, 1352-1361, 1453-1485).                *)
THEOREM CallsReturnHolds == EcSpec => CallsReturn
<1>1. EcInv /\ [EcNext]_ecVars =>
        [op # "none" => op' = "none" \/ StepsLeft' < StepsLeft]_ecVars
  <2> SUFFICES ASSUME EcInv, EcNext, op # "none"
               PROVE  op' = "none" \/ StepsLeft' < StepsLeft
    OBVIOUS
  <2>1. ~Calls /\ ~Signs
    BY DEF Calls, Signs, make_key, compute_public_key, shared_secret, verify, sign, sign_with_k
  <2> QED BY <2>1, StepsForward DEF EcNext
<1> QED BY <1>1, InitEcInv, StepEcInv, PTL DEF EcSpec, CallsReturn

-----------------------------------------------------------------------------
(* The program: what it does to micro-ecc is a step of micro-ecc, and what *)
(* it does to sha256.c one of sha256.c or the next context.                *)
LEMMA ProgramSteps ==
  [Next]_vars => [EcNext]_ecVars /\ ([ShaNext]_shaVars \/ CtxGone)
<1> SUFFICES ASSUME Next PROVE [EcNext]_ecVars /\ ([ShaNext]_shaVars \/ CtxGone)
  BY DEF vars
<1>1. CASE sha256_hash
  BY <1>1 DEF sha256_hash
<1>2. CASE SignsDigest
  BY <1>2 DEF SignsDigest, EcNext
<1>3. CASE EcStep /\ UNCHANGED shaVars
  BY <1>3 DEF EcNext
<1>4. CASE Calls /\ NoCtx /\ UNCHANGED shaVars
  BY <1>4 DEF EcNext
<1> QED BY <1>1, <1>2, <1>3, <1>4 DEF Next

(* In the program micro-ecc is used as its specification allows: what      *)
(* holds of micro-ecc on its own holds in the program.                     *)
THEOREM ProgramUsesEc == Spec => EcSpec
<1>1. Init => EcInit
  BY DEF Init
<1> QED BY <1>1, ProgramSteps, PTL DEF Spec, EcSpec

(* The next message begins in a context that has nothing of the last one.  *)
LEMMA NextContext == CtxGone => FInv'
<1> SUFFICES ASSUME CtxGone PROVE FInv'
  OBVIOUS
<1>1. ShaInit'
  BY DEF CtxGone, ShaInit, sha256_init, Zeros
<1>2. IInv'
  BY <1>1, InitIInv, PTL
<1>3. ~finished'
  BY DEF CtxGone
<1>4. DigestOfPaddedMessage'
  BY <1>3 DEF DigestOfPaddedMessage
<1> QED BY <1>2, <1>3, <1>4 DEF FInv

(* And what holds of the hash of one message holds of each that the        *)
(* program signs: every digest is that of the whole message, padded        *)
(* (crypto_test.c:14-19, sha256.c:95-157).                                 *)
THEOREM ProgramHashes == Spec => [](ShaTypeOK /\ NothingLost /\ DigestOfPaddedMessage)
<1>1. Init => FInv
  <2>1. Init => ShaInit
    BY DEF Init
  <2>2. ShaInit => FInv
    BY InitIInv DEF ShaInit, FInv, DigestOfPaddedMessage
  <2> QED BY <2>1, <2>2
<1>2. FInv /\ [Next]_vars => FInv'
  BY ProgramSteps, StepFInv, NextContext
<1>3. FInv => ShaTypeOK /\ NothingLost /\ DigestOfPaddedMessage
  BY DEF FInv, IInv
<1> QED BY <1>1, <1>2, <1>3, PTL DEF Spec

=============================================================================
