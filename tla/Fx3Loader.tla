------------------------------ MODULE Fx3Loader ------------------------------
(***************************************************************************)
(* The host's firmware loader: tools/download_fx3.cpp on tools/            *)
(* libcyusb.cpp.  It loads an image into the RAM of an FX3 board that is   *)
(* in its boot loader, or into an EEPROM or SPI flash through a programmer *)
(* that it loads into RAM first; the board then leaves the bus and comes   *)
(* back as another device, which the loader has to find.                   *)
(*                                                                         *)
(* The loader is one process; the board leaves and comes back, a second    *)
(* device comes and goes, and any transfer may fail.  Sizes count words, as   *)
(* in Fx3Image.  Whatever the tool returns or prints after an error is     *)
(* result "failed".  A definition marked "mutant" is a faulty variant that *)
(* no action uses.                                                         *)
(***************************************************************************)
EXTENDS Fx3Image

CONSTANTS Elfs,          \* the programs
          Codes,         \* EEPROM size codes of the images
          Confs,         \* /etc/cyusb.conf: the IDs in its list, as devices
          MaxIds,        \* MAX_ID_PAIRS - 1
          ProgImage,     \* cyfxflashprog.img
          WriteWords,    \* MAX_WRITE_SIZE
          PageWords,     \* I2C_PAGE_SIZE and SPI_PAGE_SIZE
          SectorWords,   \* SPI_SECTOR_SIZE
          MaxImage,      \* MAX_FWIMG_SIZE
          Tries,         \* GETHANDLE_TIMEOUT: turns of the search
          Polls,         \* turns of the wait for an erased sector
          MemWords       \* bound: the addresses 0 .. MemWords - 1 of the RAM

\* i2c_eeprom_size: what one EEPROM holds, by the size code.
EepromSize(code) == IF code = 7 THEN 2 * SlaveWords ELSE I2cDeviceSizes(code)

ASSUME LoaderAssumption ==
  /\ \A c \in Codes : c \in 0 .. 7 /\ EepromSize(c) > 0 /\ EepromSize(c) % PageWords = 0
  /\ {WriteWords, PageWords, SectorWords, MaxImage, MemWords, MaxIds} \subseteq Nat \ {0}
  /\ Tries \in Nat /\ Polls \in Nat \ {0}
  /\ Confs \subseteq Seq({"boot", "prog", "cypress", "else"})
  /\ MaxImage % PageWords = 0 /\ SectorWords % PageWords = 0 /\ WriteWords % PageWords = 0

\* What a linker makes: the headers that are loaded lie in RAM, apart from each
\* other, and what they take from the file is in the file.
Headers == [load : BOOLEAN, vaddr : Nat, offset : Nat, filesize : Nat, memsize : Nat]
Memory(hdr) == IF hdr.load THEN hdr.vaddr .. hdr.vaddr + hdr.memsize - 1 ELSE {}
Linked(e) ==
  /\ e.words \in Seq(0 .. WordMod - 1) /\ e.entry \in 0 .. WordMod - 1
  /\ e.headers \in Seq(Headers)
  /\ \A i \in DOMAIN e.headers :
       LET hdr == e.headers[i]
       IN  /\ hdr.filesize <= hdr.memsize /\ hdr.offset + hdr.filesize <= Len(e.words)
           /\ Memory(hdr) \subseteq 0 .. MemWords - 1
           /\ \A j \in DOMAIN e.headers : i # j => Memory(hdr) \cap Memory(e.headers[j]) = {}

ASSUME ProgramAssumption == \A e \in Elfs : Linked(e)

None == [gen |-> 0, dev |-> "none"]   \* no handle
Targets == {"RAM", "I2C", "SPI"}
RomAddresses == 0 .. 7          \* EEPROMs on one I2C bus
Absent == WordMod               \* a word that no program holds
Blank  == WordMod + 1           \* an erased word of flash

VARIABLES
  elf, vectors,  \* the program, and whether it keeps its interrupt vectors
  image,         \* the image file given to the loader
  target,        \* tgt
  pc, result,
  loading,       \* the image fx3_usbboot_download has: "prog" or "user"
  index,         \* its position in that image
  checksum,
  job,           \* the write in progress: device, address there, position in
                 \* the image, words left, words in all
  offset, left, address,   \* of the loop over EEPROMs (left is filesize)
  sector, polls, \* of the loop over sectors
  tries, scan,   \* j and i of the search for the programmer
  conf, vpd,     \* the configuration file, and the IDs read from it so far
  table,         \* cydev[0 .. nid-1]: handles
  listed,        \* libusb's list of devices is allocated
  lost,          \* history: handles of an open that failed in the middle
  h,             \* the handle in use
  open,          \* handles that are open
  opens,         \* how often the library was opened (numbers the handles)
  board,         \* "boot", "away", "prog" or "app"
  other,         \* the second device: "none", "cypress" (same vendor) or "else"
  ram, entry,    \* the board's RAM, and where it was started
  rom, flash     \* what EEPROMs and flash hold

program == <<elf, vectors, image, target, conf>>
boot    == <<loading, index, checksum>>
loops   == <<offset, left, address, sector, polls, tries, scan>>
usb     == <<vpd, table, listed, lost, h, open, opens>>
bus     == <<board, other>>
memory  == <<ram, entry, rom, flash>>
vars == <<program, pc, result, boot, job, loops, usb, bus, memory>>

-----------------------------------------------------------------------------
(* Images.  A buffer is zero beyond the end of the file (calloc).           *)

Current == IF loading = "prog" THEN ProgImage ELSE image
Word(img, i) == IF i < Len(img.words) THEN img.words[i + 1] ELSE 0

RoundUp(n, v) == ((n + v - 1) \div v) * v
Smaller(a, b) == IF a < b THEN a ELSE b

\* The positions of the data words of an image, its checksum included.
DataWords(img) ==
  LET heads[p \in 1 .. Len(img.words)] ==
        IF img.words[p] = 0 \/ p + 2 + img.words[p] > Len(img.words) THEN {p}
        ELSE {p} \cup heads[p + 2 + img.words[p]]
  IN  {p \in 2 .. Len(img.words) : \A q \in heads[2] : p # q /\ p # q + 1}

\* What the file may have become: another kind of file, a part of it, or one
\* with a wrong word of data (which only a load into RAM looks at).
Files(img, t) ==
  {img, [img EXCEPT !.exec = FALSE]}
    \cup {[img EXCEPT !.words = SubSeq(@, 1, n)] : n \in 1 .. Len(img.words) - 1}
    \cup {[img EXCEPT !.words[p] = (@ + 1) % WordMod] :
             p \in IF t = "RAM" THEN DataWords(img) ELSE {}}

Init ==
  /\ elf \in Elfs /\ vectors \in BOOLEAN /\ target \in Targets
  /\ image \in UNION {Files(ElfToImage(elf, c, vectors), target) : c \in Codes}
  /\ pc = "open" /\ result = "none"
  /\ loading = "user" /\ index = 1 /\ checksum = 0
  /\ job = [dev |-> 0, at |-> 0, from |-> 0, left |-> 0, all |-> 0]
  /\ offset = 0 /\ left = 0 /\ address = 0 /\ sector = 0 /\ polls = 0
  /\ tries = 0 /\ scan = 0
  /\ conf \in Confs /\ vpd = <<>>
  /\ table = <<>> /\ listed = FALSE /\ lost = {} /\ h = None /\ open = {} /\ opens = 0
  /\ board \in {"boot", "prog"} /\ other = "none"
  /\ ram = [a \in 0 .. MemWords - 1 |-> Absent] /\ entry = Absent
  /\ rom = [d \in RomAddresses |-> [a \in 0 .. SlaveWords - 1 |-> Absent]]
  /\ flash = [a \in 0 .. MaxImage - 1 |-> Absent]

-----------------------------------------------------------------------------
(* libcyusb.cpp and main.                                                   *)

Fail == pc' = "done" /\ result' = "failed"
Succeed == pc' = "done" /\ result' = "ok"
Goto(step) == pc' = step /\ UNCHANGED result

Devices ==
  (IF board = "away" THEN {} ELSE {"board"}) \cup ({other} \ {"none"})

\* parse_configfile: each open adds the IDs once more, until the table is full.
ReadAll == vpd \o conf                                               \* mutant
ReadIds == vpd \o SubSeq(conf, 1, Smaller(Len(conf), MaxIds - Len(vpd)))
ParseConfig == vpd' = ReadIds

\* device_is_of_interest: the IDs of the board are those of its program.
OfInterest(d) == (IF d = "board" THEN board ELSE d) \in Range(ReadIds)

\* The orders in which they may be listed.
Lists == SetToSeqs({d \in Devices : OfInterest(d)})

\* cyusb_open up to the n-th device of the list; the next one cannot be opened.
\* The handles stay open then, and nobody closes them.
Renumerate(list, n) ==
  /\ table' = [i \in 1 .. n |-> [gen |-> opens + 1, dev |-> list[i]]]
  /\ open' = open \cup Range(table')
  /\ lost' = IF n < Len(list) THEN lost \cup Range(table') ELSE lost
  /\ listed' = TRUE
  /\ opens' = opens + 1

\* cyusb_open that fails before it has the list of devices.
OpenFails ==
  /\ vpd' = vpd \/ ParseConfig
  /\ UNCHANGED <<table, listed, lost, open, opens>>

\* mutant: the last handle is forgotten.
CloseButLast == open' = open \ {table[i] : i \in 1 .. Len(table) - 1} /\ listed' = FALSE

\* cyusb_close: nid and the table keep what they have.
CloseAll == open' = open \ Range(table) /\ listed' = FALSE

\* main: exactly one device, or the tool gives up.
Main ==
  /\ pc = "open"
  /\ \/ OpenFails /\ Fail /\ UNCHANGED h
     \/ \E list \in Lists : \E n \in 0 .. Len(list) :
          /\ ParseConfig
          /\ Renumerate(list, n)
          /\ IF n = Len(list) /\ n = 1
             THEN h' = table'[1] /\ Goto(IF target = "RAM" THEN "read" ELSE "check")
             ELSE Fail /\ UNCHANGED h
  /\ UNCHANGED <<program, boot, job, loops, bus, memory>>

-----------------------------------------------------------------------------
(* fx3_usbboot_download.  The boot loader of the board serves requests 0xA0. *)

\* read_firmware_image: also used for the EEPROM and flash targets.
ImageRead(img) == img.exec /\ Len(img.words) <= MaxImage

Read ==
  /\ pc = "read"
  /\ \/ Fail /\ UNCHANGED <<index, checksum>>
     \/ /\ ImageRead(Current)
        /\ index' = 1 /\ checksum' = 0 /\ Goto("section")
  /\ UNCHANGED <<program, loading, job, loops, usb, bus, memory>>

\* The return of fx3_usbboot_download with 0, to main or get_fx3_prog_handle.
Loaded == IF loading = "prog" THEN Goto("close") ELSE Succeed

Length == Word(Current, index)

\* The next section: its sum, and the start of its write to RAM.
Section ==
  /\ pc = "section" /\ index < Len(Current.words) /\ Length # 0
  /\ checksum' = (checksum
                    + WordSum([i \in 1 .. Length |-> Word(Current, index + 1 + i)])) % WordMod
  /\ job' = [dev |-> 0, at |-> Word(Current, index + 1), from |-> index + 2,
             left |-> Length, all |-> Length]
  /\ Goto("ram")
  /\ UNCHANGED <<program, loading, index, loops, usb, bus, memory>>

\* mutant: the checksum is not looked at.
TrailerTrusts ==
  /\ pc = "section" /\ index < Len(Current.words) /\ Length = 0
  /\ Goto("jump")
  /\ UNCHANGED <<program, boot, job, loops, usb, bus, memory>>

\* The trailer is compared before the board is started.
Trailer ==
  /\ pc = "section" /\ index < Len(Current.words) /\ Length = 0
  /\ IF checksum # Word(Current, index + 2) THEN Fail ELSE Goto("jump")
  /\ UNCHANGED <<program, boot, job, loops, usb, bus, memory>>

\* A file without a trailer ends the loop as well, and counts as loaded.
EndOfFile ==
  /\ pc = "section" /\ index >= Len(Current.words)
  /\ Loaded
  /\ UNCHANGED <<program, boot, job, loops, usb, bus, memory>>

\* The piece of a write that one request carries, and the rest of it.
Piece == Smaller(job.left, WriteWords)
Rest == [job EXCEPT !.at = @ + Piece, !.from = @ + Piece, !.left = @ - Piece]

\* mem with the piece of img at job.at.
Stored(mem, img) ==
  [a \in DOMAIN mem |-> IF a \in job.at .. job.at + Piece - 1
                        THEN Word(img, job.from + (a - job.at)) ELSE mem[a]]

OnBoard(mode) == h.dev = "board" /\ board = mode

\* fx3_ram_write, one request at a time.
RamWrite ==
  /\ pc = "ram"
  /\ \/ Fail /\ UNCHANGED <<index, job, ram>>
     \/ /\ OnBoard("boot")
        /\ ram' = Stored(ram, Current)
        /\ job' = Rest
        /\ IF job.left > Piece THEN Goto("ram") /\ UNCHANGED index
           ELSE Goto("section") /\ index' = index + 2 + job.all
  /\ UNCHANGED <<program, loading, checksum, loops, usb, bus, entry, rom, flash>>

\* The request that starts the board: an error of it is ignored.
Jump ==
  /\ pc = "jump"
  /\ \/ UNCHANGED <<entry, board>>
     \/ /\ OnBoard("boot")
        /\ IF loading = "prog" THEN board' = "away" /\ UNCHANGED entry
           ELSE board' = "app" /\ entry' = Word(Current, index + 1)
  /\ Loaded
  /\ UNCHANGED <<program, boot, job, loops, usb, other, ram, rom, flash>>

-----------------------------------------------------------------------------
(* get_fx3_prog_handle.                                                     *)

\* check_fx3_flashprog: the programmer answers, or the request fails.
Answers(handle) == handle \in open /\ handle.dev = "board" /\ board = "prog"

\* The board may run the programmer already; else its image is looked for.
Check ==
  /\ pc = "check"
  /\ \/ Answers(h) /\ Goto("image") /\ UNCHANGED loading
     \/ Fail /\ UNCHANGED loading
     \/ loading' = "prog" /\ Goto("read")
  /\ UNCHANGED <<program, index, checksum, job, loops, usb, bus, memory>>

Close ==
  /\ pc = "close"
  /\ CloseAll /\ h' = None /\ tries' = 0 /\ Goto("wait")
  /\ UNCHANGED <<program, boot, job, offset, left, address, sector, polls, scan,
                 vpd, table, lost, opens, bus, memory>>

\* One turn of the search: after a second, open the library again.
Wait ==
  /\ pc = "wait" /\ tries < Tries
  /\ \/ OpenFails /\ tries' = tries + 1 /\ UNCHANGED scan /\ Goto("wait")
     \/ \E list \in Lists : \E n \in 0 .. Len(list) :
          /\ ParseConfig
          /\ Renumerate(list, n)
          /\ IF n = Len(list) /\ n > 0
             THEN scan' = 1 /\ Goto("scan") /\ UNCHANGED tries
             ELSE tries' = tries + 1 /\ Goto("wait") /\ UNCHANGED scan
  /\ UNCHANGED <<program, boot, job, offset, left, address, sector, polls, h, bus, memory>>

NotFound ==
  /\ pc = "wait" /\ tries = Tries
  /\ Fail
  /\ UNCHANGED <<program, boot, job, loops, usb, bus, memory>>

SameVendor(handle) == handle.dev # "else"

\* mutant: the vendor is enough.
FoundByVendor ==
  /\ pc = "scan" /\ scan <= Len(table) /\ SameVendor(table[scan])
  /\ h' = table[scan] /\ Goto("image")
  /\ UNCHANGED <<program, boot, job, loops, vpd, table, listed, lost, open, opens, bus, memory>>

\* The next device of the table.  A device of the vendor that is not the
\* programmer ends the scan: its answer overwrites the number of devices.
Found ==
  /\ pc = "scan" /\ scan <= Len(table) /\ SameVendor(table[scan]) /\ Answers(table[scan])
  /\ h' = table[scan] /\ Goto("image")
  /\ UNCHANGED <<program, boot, job, loops, vpd, table, listed, lost, open, opens, bus, memory>>

ScanOn ==
  /\ pc = "scan" /\ scan <= Len(table) /\ ~SameVendor(table[scan])
  /\ scan' = scan + 1 /\ Goto("scan")
  /\ UNCHANGED <<program, boot, job, offset, left, address, sector, polls, tries, usb, bus, memory>>

ScanEnds ==
  /\ pc = "scan"
  /\ scan <= Len(table) => SameVendor(table[scan])
  /\ CloseAll /\ tries' = tries + 1 /\ Goto("wait")
  /\ UNCHANGED <<program, boot, job, offset, left, address, sector, polls, scan,
                 vpd, table, lost, h, opens, bus, memory>>

-----------------------------------------------------------------------------
(* fx3_i2cboot_download and fx3_spiboot_download.  The programmer serves    *)
(* requests 0xBA, 0xBB, 0xC2 and 0xC4.                                      *)

ReadForRom ==
  /\ pc = "image"
  /\ \/ Fail /\ UNCHANGED <<offset, left, address, sector>>
     \/ /\ ImageRead(image)
        /\ left' = RoundUp(Len(image.words), PageWords)
        /\ offset' = 0 /\ address' = 0 /\ sector' = 0
        /\ Goto(IF target = "I2C" THEN "eeprom" ELSE "erase")
  /\ UNCHANGED <<program, boot, job, polls, tries, scan, usb, bus, memory>>

\* The part of the image for the next EEPROM.  What an EEPROM of 128 KB holds
\* beyond 64 KB has an address of its own, four further.
Size == Smaller(left, EepromSize(image.code))
LowPart == [dev |-> address, at |-> 0, from |-> offset,
            left |-> Smaller(Size, SlaveWords), all |-> Smaller(Size, SlaveWords)]
HighPartNext == [dev |-> address + 1, at |-> 0, from |-> offset + SlaveWords,
                 left |-> Size - SlaveWords, all |-> Size - SlaveWords]   \* mutant
HighPart == [dev |-> address + 4, at |-> 0, from |-> offset + SlaveWords,
             left |-> Size - SlaveWords, all |-> Size - SlaveWords]

NextEeprom ==
  /\ pc = "eeprom"
  /\ IF left = 0 THEN Succeed /\ UNCHANGED job
     ELSE job' = LowPart /\ Goto("i2cWrite")
  /\ UNCHANGED <<program, boot, loops, usb, bus, memory>>

\* fx3_i2c_write, one request at a time.  An EEPROM may take a request and not
\* keep the data.
I2cWrite ==
  /\ pc = "i2cWrite"
  /\ \/ Fail /\ UNCHANGED <<job, rom>>
     \/ /\ OnBoard("prog") /\ job.dev \in RomAddresses
        /\ \/ rom' = [rom EXCEPT ![job.dev] = Stored(@, image)]
           \/ UNCHANGED rom
        /\ IF job.left > Piece THEN job' = Rest /\ Goto("i2cWrite")
           ELSE /\ job' = [job EXCEPT !.at = 0, !.from = @ + Piece - job.all, !.left = job.all]
                /\ Goto("i2cVerify")
  /\ UNCHANGED <<program, boot, loops, usb, bus, ram, entry, flash>>

AsExpected == \A i \in 0 .. Piece - 1 : rom[job.dev][job.at + i] = Word(image, job.from + i)

\* mutant: the next turn has the same part again.
PartAgain ==
  IF job.from + Piece - job.all = offset /\ Size > SlaveWords
  THEN job' = HighPart /\ Goto("i2cWrite") /\ UNCHANGED <<offset, left, address>>
  ELSE Goto("eeprom") /\ UNCHANGED <<job, offset, left, address>>

\* The end of a part: its other half, or the next EEPROM.
PartDone ==
  IF job.from + Piece - job.all = offset /\ Size > SlaveWords
  THEN job' = HighPart /\ Goto("i2cWrite") /\ UNCHANGED <<offset, left, address>>
  ELSE /\ offset' = offset + Size /\ left' = left - Size /\ address' = address + 1
       /\ Goto("eeprom") /\ UNCHANGED job

\* fx3_i2c_read_verify, one request at a time.
I2cVerify ==
  /\ pc = "i2cVerify"
  /\ \/ Fail /\ UNCHANGED <<job, offset, left, address>>
     \/ /\ OnBoard("prog") /\ AsExpected
        /\ IF job.left > Piece
           THEN job' = Rest /\ Goto("i2cVerify") /\ UNCHANGED <<offset, left, address>>
           ELSE PartDone
  /\ UNCHANGED <<program, boot, sector, polls, tries, scan, usb, bus, memory>>

\* fx3_spi_erase_sector: the command for the next sector; after the last one,
\* the start of the write.
Sectors == (left + SectorWords - 1) \div SectorWords

Erase ==
  /\ pc = "erase" /\ sector < Sectors
  /\ \/ Fail /\ UNCHANGED polls
     \/ OnBoard("prog") /\ polls' = 0 /\ Goto("poll")
  /\ UNCHANGED <<program, boot, job, offset, left, address, sector, tries, scan, usb, bus, memory>>

Erased ==
  /\ pc = "erase" /\ sector = Sectors
  /\ job' = [dev |-> 0, at |-> 0, from |-> 0, left |-> left, all |-> left]
  /\ Goto("spiWrite")
  /\ UNCHANGED <<program, boot, loops, usb, bus, memory>>

\* The status is read until the flash is ready, ten times at most.
Ready ==
  /\ pc = "poll" /\ OnBoard("prog")
  /\ flash' = [a \in DOMAIN flash |-> IF a \div SectorWords = sector THEN Blank ELSE flash[a]]
  /\ sector' = sector + 1 /\ Goto("erase")
  /\ UNCHANGED <<program, boot, job, offset, left, address, polls, tries, scan, usb, bus,
                 ram, entry, rom>>

Busy ==
  /\ pc = "poll"
  /\ \/ Fail /\ UNCHANGED polls
     \/ /\ OnBoard("prog")
        /\ polls' = polls + 1
        /\ IF polls + 1 < Polls THEN Goto("poll") ELSE Fail
  /\ UNCHANGED <<program, boot, job, offset, left, address, sector, tries, scan, usb, bus, memory>>

\* Flash takes a word only where it is erased.
Programmed(old, new) == IF old = Blank \/ old = new THEN new ELSE Absent

\* fx3_spi_write, one request at a time; its address counts pages.
SpiWrite ==
  /\ pc = "spiWrite"
  /\ \/ Fail /\ UNCHANGED <<job, flash>>
     \/ /\ OnBoard("prog")
        /\ flash' = [a \in DOMAIN flash |-> Programmed(flash[a], Stored(flash, image)[a])]
        /\ job' = [Rest EXCEPT !.at = job.at + (Piece \div PageWords) * PageWords]
        /\ IF job.left > Piece THEN Goto("spiWrite") ELSE Succeed
  /\ UNCHANGED <<program, boot, loops, usb, bus, ram, entry, rom>>

-----------------------------------------------------------------------------
(* The bus.                                                                 *)

\* The programmer, once started, comes back as another device.
BoardReturns ==
  /\ board = "away" /\ board' = "prog"
  /\ UNCHANGED <<program, pc, result, boot, job, loops, usb, other, memory>>

\* The second device matters when the library lists the bus.
OtherMoves ==
  /\ pc \in {"open", "wait"}
  /\ other' \in {"none", "cypress", "else"} \ {other}
  /\ UNCHANGED <<program, pc, result, boot, job, loops, usb, board, memory>>

LoadRam == Read \/ Section \/ Trailer \/ EndOfFile \/ RamWrite \/ Jump
FindProgrammer == Check \/ Close \/ Wait \/ NotFound \/ Found \/ ScanOn \/ ScanEnds
WriteRom == ReadForRom \/ NextEeprom \/ I2cWrite \/ I2cVerify
              \/ Erase \/ Erased \/ Ready \/ Busy \/ SpiWrite
Loader == Main \/ LoadRam \/ FindProgrammer \/ WriteRom

Next == Loader \/ BoardReturns \/ OtherMoves

\* Each turn of the loader ends: transfers have a timeout, waits are counted.
Spec == Init /\ [][Next]_vars
FairSpec == Spec /\ WF_vars(Loader)

-----------------------------------------------------------------------------
(* Properties.                                                              *)

RamSteps == {"read", "section", "ram", "jump"}
ProgSteps == {"check", "close", "wait", "scan"}
RomSteps == {"eeprom", "i2cWrite", "i2cVerify", "erase", "poll", "spiWrite"}

\* A board that was started (download_fx3.cpp:189, after the checksum) runs at
\* the entry point of the ELF file and has every word of it in place, although
\* the image file may have been cut short or have a wrong word of data.
StartedRight ==
  entry # Absent =>
    /\ entry = elf.entry
    /\ \A i \in DOMAIN elf.headers :
         LET hdr == elf.headers[i]
         IN  hdr.load => \A a \in hdr.vaddr .. hdr.vaddr + hdr.filesize - 1 :
               vectors \/ a >= VectorEnd =>
                 ram[a] = elf.words[hdr.offset + (a - hdr.vaddr) + 1]

\* Where the boot loader of the board looks for the word at position p.
RomWord(p) ==
  LET size == EepromSize(image.code)
      at   == p % size
      dev  == p \div size + (IF at >= SlaveWords THEN 4 ELSE 0)
  IN  rom[dev][at % SlaveWords]

\* "completed" (download_fx3.cpp:430, 539): the EEPROMs or the flash hold the
\* whole image, read in the order in which the board boots from them.
RomHoldsImage ==
  result = "ok" /\ target # "RAM" =>
    \A p \in 0 .. Len(image.words) - 1 :
      Word(image, p) = IF target = "I2C" THEN RomWord(p) ELSE flash[p]

\* EEPROMs and flash are only touched through an open handle to a board that
\* runs the programmer (download_fx3.cpp:264-277).
RightDevice == pc \in RomSteps => Answers(h)

\* The library closes what it opened, once: when the loader closes it, the list
\* is allocated and each handle of the table open, and no other handle is left
\* but those of an open that failed at a later device (libcyusb.cpp:180-187,
\* 288-291; download_fx3.cpp:261, 282).
LibraryAccounted ==
  /\ pc \in {"close", "scan"} => listed /\ Range(table) \subseteq open
  /\ open \subseteq Range(table) \cup lost

\* However often the file is read, the IDs fit their table, and devices of
\* interest are those of the first ones in the file (libcyusb.cpp:101-115).
IdsKept ==
  /\ Len(vpd) <= MaxIds
  /\ vpd # <<>> => Range(vpd) = Range(SubSeq(conf, 1, Smaller(MaxIds, Len(conf))))

\* The tool ends (download_fx3.cpp:265, 476-484): the search for the
\* programmer and the wait for the flash are bounded.
ToolEnds == <>(pc = "done")

\* The part of a segment that is not in the file is zero in RAM: elf2img reads
\* "the valid data length" of a section (elf2img.c:240) and pads it with zeros.
BssIsZero ==
  entry # Absent =>
    \A i \in DOMAIN elf.headers :
      LET hdr == elf.headers[i]
      IN  hdr.load /\ hdr.vaddr >= VectorEnd =>
            \A a \in hdr.vaddr + hdr.filesize .. hdr.vaddr + hdr.memsize - 1 : ram[a] = 0
===============================================================================
