------------------------------ MODULE Compress ------------------------------
(***************************************************************************)
(* magiskboot compress and decompress with the LZ4 block formats           *)
(* (boot/compress.rs) on the Chunker of the base library (base/misc.rs):   *)
(* compressing a file beside itself, then decompressing the archive, with  *)
(* reads and writes of any length and an error at any of them.             *)
(*                                                                         *)
(* A file's data is a sequence.  An archive is a sequence of items, the    *)
(* 32-bit words and the compressed blocks; a block of n bytes compresses   *)
(* to n, and no block to more than BLOCK_SIZE.                             *)
(***************************************************************************)
EXTENDS Naturals, Sequences, FiniteSets

CONSTANTS Contents,    \* the files to compress
          BLOCK_SIZE,  \* LZ4_BLOCK_SIZE
          COPY_SIZE,   \* the buffer of std::io::copy
          LZ4_MAGIC,   \* the word an archive begins with
          WORD         \* 2^32, the size of the running total

ASSUME CompressSizes ==
  /\ BLOCK_SIZE \in Nat \ {0} /\ COPY_SIZE \in Nat \ {0}
  /\ LZ4_MAGIC \in Nat /\ WORD \in Nat
  /\ BLOCK_SIZE < LZ4_MAGIC /\ LZ4_MAGIC < WORD /\ COPY_SIZE < WORD

Byte == UNION {{c[i] : i \in DOMAIN c} : c \in Contents}
ASSUME FilesAreBytes == Contents \subseteq Seq(Byte)

VARIABLES czFile,     \* what the file held
          czFiles,    \* which of the files "in" and "archive" exist
          czArchive,  \* the items of the archive
          czOut,      \* the data decompressed so far
          czLg,       \* the format has the total size at its end (LZ4_LG)
          czBeside,   \* no output was named: the input is removed at the end
          czPc,       \* "open", "compress", "encode", "archived", "decode", "done", "err"
          czRead,     \* items of the input taken so far
          czBuf,      \* the data of write_all not yet chunked
          czChunk,    \* the chunk being filled
          czTotal,    \* bytes written, modulo WORD
          czBlock     \* decoded bytes not yet handed out

compressVars == <<czFile, czFiles, czArchive, czOut, czLg, czBeside, czPc, czRead, czBuf, czChunk, czTotal, czBlock>>

Word(n) == [word |-> n]
MAGIC == Word(LZ4_MAGIC)
Block(d) == [block |-> d]
IsWord(x) == "word" \in DOMAIN x
DataOf(x) == IF IsWord(x) THEN <<>> ELSE x.block
Shorter(a, b) == IF a < b THEN a ELSE b
Prefix(s, n) == SubSeq(s, 1, n)
Suffix(s, n) == SubSeq(s, n + 1, Len(s))

InitCompress ==
  /\ czFile \in Contents
  /\ czFiles = {"in"}
  /\ czArchive = <<>> /\ czOut = <<>>
  /\ czLg \in BOOLEAN /\ czBeside \in BOOLEAN
  /\ czPc = "open"
  /\ czRead = 0 /\ czBuf = <<>> /\ czChunk = <<>> /\ czTotal = 0 /\ czBlock = <<>>

(* compress_cmd opens its files and makes the encoder. *)
StartCompress ==
  /\ czPc = "open"
  /\ czPc' = "compress" /\ czFiles' = {"in", "archive"}
  /\ UNCHANGED <<czFile, czArchive, czOut, czLg, czBeside, czRead, czBuf, czChunk, czTotal, czBlock>>

(* One read of std::io::copy and the head of LZ4BlockEncoder::write_all. *)
CopyRead ==
  /\ czPc = "compress" /\ czRead < Len(czFile)
  /\ \E n \in 1..Shorter(COPY_SIZE, Len(czFile) - czRead) :
       /\ czBuf' = SubSeq(czFile, czRead + 1, czRead + n)
       /\ czRead' = czRead + n
       /\ czTotal' = (czTotal + n) % WORD
  /\ czArchive' = IF czTotal = 0 THEN Append(czArchive, MAGIC) ELSE czArchive
  /\ czPc' = "encode"
  /\ UNCHANGED <<czFile, czFiles, czOut, czLg, czBeside, czChunk, czBlock>>

(* Mutant: what is left of buf when the chunk is full is dropped. *)
add_dataDrops(buf, chunk) ==
  LET n == Shorter(BLOCK_SIZE - Len(chunk), Len(buf))
      full == chunk \o Prefix(buf, n)
  IN  IF Len(full) = BLOCK_SIZE THEN [buf |-> <<>>, chunk |-> <<>>, out |-> full]
                                ELSE [buf |-> <<>>, chunk |-> full, out |-> <<>>]

(* Chunker::add_data: [buf, chunk, out], out the full chunk or nothing. *)
add_data(buf, chunk) ==
  LET n == Shorter(BLOCK_SIZE - Len(chunk), Len(buf))
      full == chunk \o Prefix(buf, n)
  IN  IF chunk # <<>>
      THEN IF Len(full) = BLOCK_SIZE THEN [buf |-> Suffix(buf, n), chunk |-> <<>>, out |-> full]
                                     ELSE [buf |-> Suffix(buf, n), chunk |-> full, out |-> <<>>]
      ELSE IF Len(buf) >= BLOCK_SIZE
           THEN [buf |-> Suffix(buf, BLOCK_SIZE), chunk |-> <<>>, out |-> Prefix(buf, BLOCK_SIZE)]
           ELSE [buf |-> <<>>, chunk |-> buf, out |-> <<>>]

encode_block(archive, d) == IF d = <<>> THEN archive ELSE archive \o <<Word(Len(d)), Block(d)>>

(* The loop of write_all. *)
WriteAll ==
  /\ czPc = "encode"
  /\ IF czBuf = <<>>
     THEN czPc' = "compress" /\ UNCHANGED <<czBuf, czChunk, czArchive>>
     ELSE LET r == add_data(czBuf, czChunk) IN
          /\ czBuf' = r.buf /\ czChunk' = r.chunk
          /\ czArchive' = encode_block(czArchive, r.out)
          /\ UNCHANGED czPc
  /\ UNCHANGED <<czFile, czFiles, czOut, czLg, czBeside, czRead, czTotal, czBlock>>

(* LZ4BlockEncoder::finish, and the input is removed if it may be. *)
FinishCompress ==
  /\ czPc = "compress" /\ czRead = Len(czFile)
  /\ LET blocks == encode_block(czArchive, czChunk)
     IN  czArchive' = IF czLg THEN Append(blocks, Word(czTotal)) ELSE blocks
  /\ czChunk' = <<>>
  /\ czFiles' = IF czBeside THEN {"archive"} ELSE czFiles
  /\ czPc' = "archived"
  /\ UNCHANGED <<czFile, czOut, czLg, czBeside, czRead, czBuf, czTotal, czBlock>>

(* decompress_cmd: an archive whose format is not recognised is an error.  *)
(* Without an output named the file beside it is truncated and written,    *)
(* and the archive is removed in the end.                                  *)
StartDecompress ==
  /\ czPc = "archived"
  /\ czBeside' \in BOOLEAN
  /\ IF czArchive # <<>> /\ Head(czArchive) = MAGIC
     THEN czPc' = "decode" /\ czFiles' = (IF czBeside' THEN czFiles \ {"in"} ELSE czFiles)
     ELSE czPc' = "err" /\ UNCHANGED czFiles
  /\ czRead' = 0 /\ czBlock' = <<>>
  /\ UNCHANGED <<czFile, czArchive, czOut, czLg, czBuf, czChunk, czTotal>>

(* The position behind the words at i: a magic is followed by a size. *)
SizeAt(i) == IF i <= Len(czArchive) /\ czArchive[i] = MAGIC THEN i + 1 ELSE i

(* At a size with a block behind it.  The total at the end of the LG       *)
(* format is taken for the size of a block that is not there.              *)
AtBlock(i) == i + 1 <= Len(czArchive) /\ czArchive[i].word <= BLOCK_SIZE

(* LZ4BlockDecoder::read at the end of a block: the next one, or the end   *)
(* of the data.  A magic with nothing behind it is an error.               *)
ReadBlock ==
  /\ czPc = "decode" /\ czBlock = <<>>
  /\ LET i == SizeAt(czRead + 1) IN
     IF AtBlock(i)
     THEN /\ czBlock' = czArchive[i + 1].block
          /\ czRead' = i + 1
          /\ UNCHANGED <<czPc, czFiles>>
     ELSE /\ czPc' = IF i > Len(czArchive) /\ i # czRead + 1 THEN "err" ELSE "done"
          /\ czFiles' = IF czPc' = "done" /\ czBeside THEN czFiles \ {"archive"} ELSE czFiles
          /\ UNCHANGED <<czBlock, czRead>>
  /\ UNCHANGED <<czFile, czArchive, czOut, czLg, czBeside, czBuf, czChunk, czTotal>>

(* The read of the block fails: what the buffer held before is decoded, if *)
(* it can be.  A file that cannot be read goes on failing, so the next     *)
(* size is an error.                                                       *)
StaleBlock ==
  /\ czPc = "decode" /\ czBlock = <<>> /\ AtBlock(SizeAt(czRead + 1))
  /\ czPc' = "err"
  /\ czOut' = IF czRead = 0 THEN czOut ELSE czOut \o czArchive[czRead].block
  /\ UNCHANGED <<czFile, czFiles, czArchive, czLg, czBeside, czRead, czBuf, czChunk, czTotal, czBlock>>

(* LZ4BlockDecoder::read inside a block. *)
ReadBytes ==
  /\ czPc = "decode" /\ czBlock # <<>>
  /\ LET n == Shorter(COPY_SIZE, Len(czBlock)) IN
     /\ czOut' = czOut \o Prefix(czBlock, n)
     /\ czBlock' = Suffix(czBlock, n)
  /\ UNCHANGED <<czFile, czFiles, czArchive, czLg, czBeside, czPc, czRead, czBuf, czChunk, czTotal>>

(* Any other read or write fails: the command ends there. *)
CompressFails ==
  /\ czPc \in {"compress", "encode", "decode"}
  /\ czPc' = "err"
  /\ UNCHANGED <<czFile, czFiles, czArchive, czOut, czLg, czBeside, czRead, czBuf, czChunk, czTotal, czBlock>>

NextCompress ==
  \/ StartCompress \/ CopyRead \/ WriteAll \/ FinishCompress
  \/ StartDecompress \/ ReadBlock \/ StaleBlock \/ ReadBytes \/ CompressFails

SpecCompress == InitCompress /\ [][NextCompress]_compressVars

-----------------------------------------------------------------------------
(* The blocks of an archive joined, up to each of its items. *)
BlocksTo(a) ==
  LET joined[i \in 0..Len(a)] == IF i = 0 THEN <<>> ELSE joined[i - 1] \o DataOf(a[i])
  IN  joined
BlocksOf(a) == BlocksTo(a)[Len(a)]

(* The data is never lost: at every moment, whichever command was cut      *)
(* short, the file is there, or an archive that holds all of it, or the    *)
(* complete decompressed file; and decompress reports success only with    *)
(* the data back, however the reads and writes were split.                 *)
DataKept ==
  /\ \/ "in" \in czFiles
     \/ "archive" \in czFiles /\ BlocksOf(czArchive) = czFile
     \/ czOut = czFile
  /\ czPc = "done" => czOut = czFile
=============================================================================
