---------------------------- MODULE SparseImage -----------------------------
(***************************************************************************)
(* Writing an Android sparse image to a volume (write_aimg of              *)
(* boardswarm-cli, main.rs): the headers of the chunks say what is copied, *)
(* filled and skipped.  The writer underneath (BatchWriter) takes what it  *)
(* is given to where it is, or fails.  The file may end anywhere.          *)
(***************************************************************************)
EXTENDS Integers, Sequences, SequencesExt

CONSTANTS Images,     \* sequences of chunks [type, blocks]
          BlockBytes, \* header.block_size
          MaxCut      \* bound: how much of a file can be there

Types == {"raw", "fill", "dontcare", "crc"}

ASSUME SparseImageAssumption ==
  /\ \A image \in Images : image \in Seq([type : Types, blocks : Nat])
  /\ BlockBytes \in {4 * n : n \in 1 .. 4} /\ MaxCut \in Nat

VARIABLES
  image,      \* the chunks of the file
  cut,        \* how much of the file is there, in bytes of data and headers
  read,       \* how much of it has been read
  next,       \* the chunk whose header is read next
  place,      \* the position of the writer
  contents,   \* what has been written
  outcome      \* of write_aimg

sparseVars == <<image, cut, read, next, place, contents, outcome>>

\* A header counts as one byte here, and so do the four bytes of a fill and those of
\* a checksum.
OutSize(chunk) == IF chunk.type = "crc" THEN 0 ELSE chunk.blocks * BlockBytes
Body(chunk) == CASE chunk.type = "raw" -> OutSize(chunk)
                 [] chunk.type \in {"fill", "crc"} -> 1
                 [] chunk.type = "dontcare" -> 0

SumOver(Size(_), chunks) == FoldLeft(LAMBDA sum, chunk : sum + Size(chunk), 0, chunks)
FileSize == Len(image) + SumOver(Body, image)
StartOf(i) == SumOver(OutSize, SubSeq(image, 1, i - 1))

\* A byte is known by its chunk and its place there; those of a fill repeat.
Byte(i, n) == <<i, IF image[i].type = "fill" THEN n % 4 ELSE n>>

SparseTypeOK ==
  /\ image \in Images /\ cut \in 0 .. MaxCut /\ read \in 0 .. MaxCut
  /\ next \in 1 .. Len(image) + 1
  /\ place \in Nat
  /\ DOMAIN contents \subseteq Nat
  /\ outcome \in {"none", "ok", "error", "misread"}

SparseInit ==
  /\ image \in Images /\ cut \in 0 .. MaxCut /\ cut <= FileSize
  /\ read = 0 /\ next = 1 /\ place = 0
  /\ contents = << >> /\ outcome = "none"

-----------------------------------------------------------------------------
\* The first bytes of chunk i, from the writer's position on.
Put(i, bytes) ==
  /\ contents' = [p \in DOMAIN contents \cup place .. place + bytes - 1 |->
                    IF p < place \/ p >= place + bytes THEN contents[p] ELSE Byte(i, p - place)]
  /\ place' = place + bytes

Chunk(type) ==
  /\ outcome = "none" /\ next <= Len(image) /\ read < cut
  /\ image[next].type = type

\* What read() gives before the file ends.
There(bytes) == IF read + 1 + bytes <= cut THEN bytes ELSE cut - read - 1

\* take() and copy(): the end of the file ends a copy as well, without an error.
CopyRaw ==
  /\ Chunk("raw")
  /\ LET bytes == There(OutSize(image[next]))
     IN  Put(next, bytes) /\ read' = read + 1 + bytes
  /\ next' = next + 1
  /\ UNCHANGED <<image, cut, outcome>>

WriteFill ==
  /\ Chunk("fill") /\ There(1) = 1
  /\ Put(next, 4 * (OutSize(image[next]) \div 4))
  /\ read' = read + 2
  /\ next' = next + 1
  /\ UNCHANGED <<image, cut, outcome>>

\* A wrong SkipDontCare: from the start of the volume.
SkipFromStart ==
  /\ Chunk("dontcare")
  /\ place' = OutSize(image[next])
  /\ read' = read + 1 /\ next' = next + 1
  /\ UNCHANGED <<image, cut, contents, outcome>>

SkipDontCare ==
  /\ Chunk("dontcare")
  /\ place' = place + OutSize(image[next])
  /\ read' = read + 1 /\ next' = next + 1
  /\ UNCHANGED <<image, cut, contents, outcome>>

\* The checksum itself is not read: what follows is taken for a header.
IgnoreCrc ==
  /\ Chunk("crc")
  /\ read' = read + 1 /\ next' = next + 1
  /\ outcome' = IF next = Len(image) THEN "none" ELSE "misread"
  /\ UNCHANGED <<image, cut, place, contents>>

\* The writer fails after part of a chunk, or what must be read is not there.
WriteFails ==
  /\ outcome = "none" /\ outcome' = "error"
  /\ \/ /\ next <= Len(image) /\ read < cut /\ image[next].type \in {"raw", "fill"}
        /\ \E bytes \in 0 .. OutSize(image[next]) : Put(next, bytes)
     \/ UNCHANGED <<place, contents>>
  /\ UNCHANGED <<image, cut, read, next>>

\* A wrong ShutDown: at the end of the file.
ShutDownAtEnd ==
  /\ outcome = "none" /\ (next > Len(image) \/ read = cut)
  /\ outcome' = "ok"
  /\ UNCHANGED <<image, cut, read, next, place, contents>>

ShutDown ==
  /\ outcome = "none" /\ next > Len(image)
  /\ outcome' = "ok"
  /\ UNCHANGED <<image, cut, read, next, place, contents>>

SparseNext == CopyRaw \/ WriteFill \/ SkipDontCare \/ IgnoreCrc \/ WriteFails \/ ShutDown

SparseSpec == SparseInit /\ [][SparseNext]_sparseVars

-----------------------------------------------------------------------------
(* Properties. *)

\* What the image says of a position, by the chunk in which it lies.
Holes == {i \in DOMAIN image : image[i].type \in {"dontcare", "crc"}}
Said == [p \in UNION {StartOf(i) .. StartOf(i + 1) - 1 : i \in DOMAIN image \ Holes} |->
           LET i == CHOOSE i \in DOMAIN image : p \in StartOf(i) .. StartOf(i + 1) - 1
           IN  Byte(i, p - StartOf(i))]

\* Nothing is written to where the image says nothing, or that it does not say, also
\* when writing fails.
OnlyWhatIsSaid == \A p \in DOMAIN contents : p \in DOMAIN Said /\ contents[p] = Said[p]

\* When writing succeeds, all that the image says is there: of a file that is cut
\* short, all but that of its last chunk.
WrittenIsWhole ==
  outcome = "ok" =>
    \A p \in DOMAIN Said : p < StartOf(Len(image)) \/ cut = FileSize => p \in DOMAIN contents

\* Every byte of an image goes to where the image has it.
SparseInv == SparseTypeOK /\ OnlyWhatIsSaid /\ WrittenIsWhole

\* A file that is cut short is not written with success.  Does not hold within its
\* last chunk.
CutIsNoticed == outcome = "ok" => cut = FileSize

\* A file that is whole is understood.  Does not hold for one with a checksum that
\* is not at its end.
WholeIsRead == cut = FileSize => outcome # "misread"
=============================================================================
