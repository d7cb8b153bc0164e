---------------------------- MODULE FastbootData ----------------------------
(***************************************************************************)
(* What a fastboot target buffers between two flashes (FastbootChunk and   *)
(* FastbootData of fastboot.rs): chunks of data at block offsets, written  *)
(* raw or as an Android sparse image.  A piece of data says of which write *)
(* it is and which position it was written to; padding is a piece of no    *)
(* write.                                                                  *)
(***************************************************************************)
EXTENDS Integers, Sequences, SequencesExt

CONSTANTS Block,        \* FASTBOOT_BLOCKSIZE
          FileHeader,   \* FILE_HEADER_BYTES_LEN
          ChunkHeader   \* CHUNK_HEADER_BYTES_LEN

ASSUME FastbootDataAssumption ==
  Block \in Nat \ {0} /\ FileHeader \in Nat /\ ChunkHeader \in Nat

Padding == 0

Least(m, n) == IF m < n THEN m ELSE n
Total(s) == FoldLeft(LAMBDA x, y : x + y, 0, s)
BlocksDown(n) == n \div Block
BlocksUp(n) == (n + Block - 1) \div Block
Rounded(n) == BlocksUp(n) * Block

OffsetBytes(chunk) == chunk.offset * Block
DataBytes(chunk) == Total([i \in DOMAIN chunk.data |-> chunk.data[i].len])
EndBytes(chunk) == OffsetBytes(chunk) + DataBytes(chunk)
EndBlocks(chunk) == chunk.offset + BlocksUp(DataBytes(chunk))

CanWriteRaw(chunks) == Len(chunks) = 1 /\ chunks[1].offset = 0

ChunkFlashSize(chunk) ==
  (IF chunk.offset > 0 THEN 2 * ChunkHeader ELSE ChunkHeader)
    + Total([i \in DOMAIN chunk.data |-> Rounded(chunk.data[i].len)])

\* A wrong FlashSize: without headers.
FlashSizeOfData(chunks) ==
  Total([i \in DOMAIN chunks |-> Total([j \in DOMAIN chunks[i].data |-> Rounded(chunks[i].data[j].len)])])

FlashSize(chunks) == FileHeader + Total([i \in DOMAIN chunks |-> ChunkFlashSize(chunks[i])])

FlashChunks(chunks) ==
  IF chunks[1].offset = 0 THEN 2 * Len(chunks) - 1 ELSE 2 * Len(chunks)

-----------------------------------------------------------------------------
(* append(): as much as possible of a piece, at an offset that its caller  *)
(* gives.                                                                  *)

First(piece, n) == [piece EXCEPT !.len = Least(n, piece.len)]
After(piece, n) == [piece EXCEPT !.at = @ + Least(n, piece.len), !.len = @ - Least(n, piece.len)]

Refused(chunks, piece) == [chunks |-> chunks, rest |-> piece, appended |-> FALSE]

AppendToLast(chunks, piece, room) ==
  LET n == BlocksDown(room) * Block
  IN  [chunks   |-> [chunks EXCEPT ![Len(chunks)].data = Append(@, First(piece, n))],
       rest     |-> After(piece, n),
       appended |-> TRUE]

\* One skip and one raw chunk are assumed, and zeros up to the offset.
AppendChunk(chunks, offset, piece, room) ==
  LET zeros == offset % Block
      n     == BlocksDown(room - 2 * ChunkHeader) * Block - zeros
      pad   == [write |-> Padding, at |-> offset - zeros, len |-> zeros]
      new   == [offset |-> BlocksDown(offset),
                data   |-> IF zeros > 0 THEN <<pad, First(piece, n)>> ELSE <<First(piece, n)>>]
  IN  IF room - 2 * ChunkHeader < Block
      THEN Refused(chunks, piece)
      ELSE [chunks |-> Append(chunks, new), rest |-> After(piece, n), appended |-> TRUE]

AppendTo(chunks, offset, piece, max) ==
  LET room == max - FlashSize(chunks)
  IN  IF chunks # << >> /\ EndBytes(Last(chunks)) = offset
      THEN AppendToLast(chunks, piece, room)
      ELSE IF chunks # << >> /\ EndBytes(Last(chunks)) > offset
      THEN Refused(chunks, piece)
      ELSE AppendChunk(chunks, offset, piece, room)

-----------------------------------------------------------------------------
(* What is sent to the board, and what it makes of it. *)

\* Blocks to skip before a chunk of a sparse image.
Gap(chunks, i) == chunks[i].offset - IF i = 1 THEN 0 ELSE EndBlocks(chunks[i - 1])
Skips(chunks) == {i \in DOMAIN chunks : Gap(chunks, i) # 0}

SentChunks(chunks) == Len(chunks) + Cardinality(Skips(chunks))
SentSize(chunks) ==
  IF CanWriteRaw(chunks)
  THEN DataBytes(chunks[1])
  ELSE FileHeader + ChunkHeader * SentChunks(chunks)
         + Total([i \in DOMAIN chunks |-> Rounded(DataBytes(chunks[i]))])

\* The header of a sparse image says how long it is, how many chunks it has, and
\* every chunk is behind the one before it.
WellFormed(chunks) ==
  CanWriteRaw(chunks) \/ /\ FlashSize(chunks) = SentSize(chunks)
                         /\ FlashChunks(chunks) = SentChunks(chunks)
                         /\ \A i \in DOMAIN chunks : Gap(chunks, i) >= 0

\* Every byte as the write it is of and the position it was written to.
PieceBytes(piece) ==
  [n \in 1 .. piece.len |->
    IF piece.write = Padding THEN <<Padding, 0>> ELSE <<piece.write, piece.at + n - 1>>]
ChunkBytes(chunk) == FlattenSeq([i \in DOMAIN chunk.data |-> PieceBytes(chunk.data[i])])

\* The volume after a flash: the last block of a sparse chunk is filled up.
Flashed(volume, chunks) ==
  LET Covers(chunk, p) ==
        /\ OffsetBytes(chunk) <= p
        /\ p < IF CanWriteRaw(chunks) THEN EndBytes(chunk) ELSE EndBlocks(chunk) * Block
      ByteAt(chunk, p) ==
        IF p < EndBytes(chunk) THEN ChunkBytes(chunk)[p - OffsetBytes(chunk) + 1] ELSE <<Padding, 0>>
  IN  [p \in DOMAIN volume |->
        IF \E i \in DOMAIN chunks : Covers(chunks[i], p)
        THEN ByteAt(chunks[CHOOSE i \in DOMAIN chunks : Covers(chunks[i], p)], p)
        ELSE volume[p]]
=============================================================================
