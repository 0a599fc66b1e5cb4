------------------------------- MODULE MCBoot -------------------------------
(***************************************************************************)
(* A small memory and small files for model checking BootSystem: blocks of *)
(* two bytes, chunks of three blocks, a file that ends inside a block.     *)
(***************************************************************************)
EXTENDS BootSystem

Data(n) == [kind |-> "data", v |-> n]
Ehdr(phoff, phnum) == [kind |-> "Elf64_Ehdr", phoff |-> phoff, phnum |-> phnum]
Phdr(type, offset, vaddr, filesz, memsz) ==
    [kind |-> "Elf64_Phdr", type |-> type, offset |-> offset, vaddr |-> vaddr,
     filesz |-> filesz, memsz |-> memsz]
Old == [kind |-> "old"]

MCAddr == 0 .. 22
MCProgram == <<Data(1), Data(2)>>
MCMemories == {[a \in MCAddr |-> Old]}

\* Two segments with a cleared part behind the second; the table at the end of
\* the file, in its last and partly used block, with an entry that is not
\* loaded; a file without the magic number
TwoSegments ==
    <<Ehdr(1, 2), Phdr("PT_LOAD", 3, 3, 3, 3), Phdr("PT_LOAD", 6, 7, 1, 2),
      Data(171), Data(11), Data(12), Data(13)>>
TableLast ==
    <<Ehdr(5, 2), Data(0), Data(14), Data(15), Data(16),
      Phdr("PT_NULL", 0, 0, 2, 2), Phdr("PT_LOAD", 1, 3, 4, 6)>>
NoMagic == [k \in 1 .. 7 |-> Data(k)]

\* The file from sector 1 on, something else before and behind it
MCDisks == {[b \in 0 .. 11 |-> IF b \in 2 .. 8 THEN file[b - 1] ELSE Data(99)] :
              file \in {TwoSegments, TableLast, NoMagic}}

MCCell ==
    [kind : {"old"}] \cup [kind : {"data"}, v : 0 .. 255]
      \cup [kind : {"Elf64_Ehdr"}, phoff : 0 .. 7, phnum : 0 .. 7]
      \cup [kind : {"Elf64_Phdr"}, type : {"PT_NULL", "PT_LOAD"}, offset : 0 .. 7,
            vaddr : 0 .. 7, filesz : 0 .. 7, memsz : 0 .. 7]

\* Items of formats
Char(n) == [spec |-> "", char |-> n, zero |-> FALSE, width |-> 0]
Conv(s, zero, width) == [spec |-> s, char |-> 0, zero |-> zero, width |-> width]
Hex08 == Conv("x", TRUE, 8)

\* The program's own messages, shortened; and messages with every specifier
MCMessages(word) ==
    { << [items |-> <<Conv("s", FALSE, 0)>>, args |-> << <<10, 119>> >>],
         [items |-> <<Char(48), Char(120), Hex08, Char(46)>>, args |-> <<6699>>],
         [items |-> <<Char(42), Hex08, Char(62), Hex08>>, args |-> <<KERNEL_ADDR, word>>],
         [items |-> <<Char(80)>>, args |-> <<>>] >>,
      << [items |-> <<Conv("d", TRUE, 3), Conv("%", FALSE, 0), Conv("c", FALSE, 0),
                      Conv("p", FALSE, 0), Conv("x", FALSE, 0)>>,
          args |-> <<-40, 65, 2748, 255>>],
         [items |-> <<Conv("d", FALSE, 12), Char(32), Conv("d", FALSE, 0)>>,
          args |-> <<0, 120>>] >> }
MCLineBreaks == [items |-> <<Char(10), Char(13)>>, args |-> <<>>]
=============================================================================
