---------------------------- MODULE MCFx3Loader ----------------------------
(* Programs for Fx3Loader: one within the vectors, one with a header that is *)
(* not loaded and with data after it, and one longer than an EEPROM address. *)
EXTENDS Fx3Loader

Hdr(load, addr, pos, size, all) ==
  [load |-> load, vaddr |-> addr, offset |-> pos, filesize |-> size, memsize |-> all]

Elf(headers, n, start) ==
  [headers |-> headers, words |-> [i \in 1 .. n |-> 60 + i], entry |-> start]

Vectors == Elf(<<Hdr(TRUE, 0, 1, 5, 6), Hdr(FALSE, 20, 2, 4, 4), Hdr(TRUE, 10, 7, 2, 4)>>, 10, 3)
Long    == Elf(<<Hdr(TRUE, 2, 1, 18, 18)>>, 20, 6)
Bss     == Elf(<<Hdr(TRUE, 4, 1, 3, 10)>>, 8, 4)

SmallElfs == {Vectors, Long}
BssElfs == {Bss}
SmallConf == {<<"boot", "prog", "cypress", "else">>}
Prog == ElfToImage(Elf(<<Hdr(TRUE, 8, 0, 2, 2)>>, 2, 8), 6, TRUE)
=============================================================================
