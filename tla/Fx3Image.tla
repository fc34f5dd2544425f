------------------------------- MODULE Fx3Image -------------------------------
(***************************************************************************)
(* The conversion of an ELF executable into the image the FX3 boots from:  *)
(* tools/elf2img.c.  Sizes, addresses and file positions count words of 32 *)
(* bits: the sections of an ARM executable are whole words (a warning is   *)
(* printed when they are not).  The word "CY", control byte, image type at *)
(* the start of an image is a record field; words[1] stands for its place. *)
(***************************************************************************)
EXTENDS Naturals, SequencesExt

CONSTANTS SlaveWords,   \* I2C_SLAVE_SIZE: what one EEPROM address holds
          VectorEnd,    \* CY_INTVECTOR_AREA_SIZE
          WordMod       \* 2^32 in the code

ASSUME ImageAssumption ==
  /\ SlaveWords \in Nat \ {0}
  /\ VectorEnd \in Nat
  /\ WordMod \in Nat \ {0}

\* I2cDeviceSizes: the longest section, by the size code in bits 1 to 3 of the
\* control byte.
I2cDeviceSizes(code) ==
  SlaveWords \div <<64, 32, 16, 8, 4, 2, 1, 1>>[code + 1]

WordSum(seq) == FoldLeft(LAMBDA sum, w : (sum + w) % WordMod, 0, seq)

Zeros(n) == [i \in 1 .. n |-> 0]

\* fread of n words at pos: fewer at the end of the file.
ReadWords(elf, pos, n) ==
  SubSeq(elf.words, pos + 1, IF pos + n > Len(elf.words) THEN Len(elf.words) ELSE pos + n)

\* loadSz of each turn of the loop over a program header's memSz.
SectionSizes(memSz, size) ==
  [i \in 1 .. (memSz + size - 1) \div size |->
     IF i * size <= memSz THEN size ELSE memSz % size]

\* One turn: a section of loadSz words, of which validSz come from the file.
\* fileSz is not lowered when the whole rest of the file part went into this
\* section.  acc has the image, the checksum and the loop's variables.
CopySection(elf, acc, loadSz) ==
  LET validSz == IF loadSz > acc.fileSz THEN acc.fileSz ELSE loadSz
      data == ReadWords(elf, acc.pos, validSz)
  IN  [out      |-> acc.out \o <<loadSz, acc.secStart>> \o data \o Zeros(loadSz - Len(data)),
       checksum |-> (acc.checksum + WordSum(data)) % WordMod,
       fileSz   |-> IF loadSz > acc.fileSz THEN acc.fileSz ELSE acc.fileSz - validSz,
       secStart |-> acc.secStart + loadSz,
       pos      |-> acc.pos + Len(data)]

\* Interrupt vectors are taken off the start of a header unless -vectorload.
Gap(hdr, vectors) == IF hdr.vaddr < VectorEnd /\ ~vectors THEN VectorEnd - hdr.vaddr ELSE 0

Skipped(hdr, vectors) ==
  \/ ~hdr.load
  \/ Gap(hdr, vectors) > 0 /\ hdr.filesize <= Gap(hdr, vectors)

ProcessProgHeader(elf, size, vectors, acc, hdr) ==
  LET gap == Gap(hdr, vectors)
      start == [out |-> acc.out, checksum |-> acc.checksum, fileSz |-> hdr.filesize - gap,
                secStart |-> hdr.vaddr + gap, pos |-> hdr.offset + gap]
  IN  IF Skipped(hdr, vectors) THEN acc
      ELSE FoldLeft(LAMBDA a, loadSz : CopySection(elf, a, loadSz), start,
                    SectionSizes(hdr.memsize - gap, size))

\* The header word and the sections of each program header.
Sections(elf, code, vectors) ==
  FoldLeft(LAMBDA acc, hdr : ProcessProgHeader(elf, I2cDeviceSizes(code), vectors, acc, hdr),
           [out |-> <<0>>, checksum |-> 0, fileSz |-> 0, secStart |-> 0, pos |-> 0],
           elf.headers)

\* main: the sections, and the trailer with entry and checksum.
ElfToImage(elf, code, vectors) ==
  LET done == Sections(elf, code, vectors)
  IN  [code |-> code, exec |-> TRUE,
       words |-> done.out \o <<0, elf.entry, done.checksum>>]
===============================================================================
