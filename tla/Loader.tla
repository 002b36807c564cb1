------------------------------- MODULE Loader -------------------------------
(***************************************************************************)
(* What the debugger puts into memory and shows of it: kdb/elf.cpp and the *)
(* commands `mem', `load', `device' and `x'.  To a bus the record adds the *)
(* symbols (a function from addresses to names) and the entry address; a   *)
(* command ends with a status instead of ok.                               *)
(***************************************************************************)
EXTENDS Bus

ElfWord(n) == n % 8     (* Elf_Word has half the bits of an address          *)
SYMBOL_RANGE == 3       (* 0x8000                                            *)
IMG_BASE == 4           (* 0x80000000                                        *)
UART_LENGTH == 1
VIRTIO_LENGTH == 2

Status(r, code) == [r EXCEPT !.ok = code]
SuccessOr(r, code) == Status(r, IF r.ok THEN "Success" ELSE code)

-----------------------------------------------------------------------------
(* elf.cpp.  A file has an identification, segments, sections and an entry; *)
(* headers and sectionHeaders tell that these can be read.  A segment has   *)
(* the bytes found at its offset, fewer than filesz when the file ends      *)
(* there, and a symbol table holds the first of its symbols.  A string      *)
(* table has names and the numbers unreadable of those behind the end of    *)
(* the file or over 255 bytes long, which are kept cut.  A read that fails  *)
(* makes all later ones fail.                                               *)

check_is_valid_elf(file) ==
  /\ \E k \in DOMAIN file.magic : file.magic[k]
  /\ file.class = "expected" /\ file.machine = "expected"

(* A loading is a result whose out tells whether the file can be read on.   *)
load_program(r, s) ==
  LET filesz == ElfWord(s.filesz)
      cleared == memset(r.bus, s.vaddr, ElfWord(s.memsz), 0)
      stream == IF r.out THEN s.bytes ELSE <<>>
      copied == load_from_stream_length(cleared.bus, s.vaddr, filesz, stream)
  IN  IF ~s.load \/ ElfWord(s.memsz) = 0 THEN r
      ELSE IF ~cleared.ok THEN [r EXCEPT !.ok = FALSE]
      ELSE [copied EXCEPT !.out = r.out /\ Len(s.bytes) >= filesz]

load_programs(b, segments) ==
  FoldLeft(LAMBDA r, s : IF r.ok THEN load_program(r, s) ELSE r, Done(b, TRUE, TRUE), segments)

(* The last symbol table and the last string table that does not hold the   *)
(* names of the sections.                                                   *)
Symtab(file) == SelectLastInSeq(file.sections, LAMBDA s : s.type = "SYMTAB")
Strtab(file) == SelectLastInSeq(file.sections, LAMBDA s : s.type = "STRTAB" /\ ~s.shstrndx)

(* Reading ends where the file does, or with a name that cannot be read.    *)
(* Name 0 is skipped; of two symbols at an address the last one stays.      *)
load_symbol_table(b, file) ==
  LET table == file.sections[Symtab(file)]
      strings == file.sections[Strtab(file)]
      failed == SelectInSeq(table.symbols, LAMBDA y : y.name \in strings.unreadable)
      count == IF failed \in 1 .. table.held THEN failed ELSE table.held
      named == SelectSeq(SubSeq(table.symbols, 1, count), LAMBDA y : y.name # 0)
      Latest(a) == Last(SelectSeq(named, LAMBDA y : y.value = a)).name
  IN  IF Symtab(file) = 0 \/ Strtab(file) = 0 THEN b
      ELSE [b EXCEPT !.symbols =
              [a \in {named[k].value : k \in DOMAIN named} |-> strings.names[Latest(a)]]]

(* Section headers that cannot be read are whatever the stack holds: when   *)
(* that looks like two tables, the symbols are cleared and none is read.    *)
load_symbols(b, file, readable, garbage) ==
  IF readable THEN load_symbol_table(b, file)
  ELSE IF garbage /\ Len(file.sections) >= 2 THEN [b EXCEPT !.symbols = <<>>]
  ELSE b

(* What load_symbol_table returns is not looked at.                         *)
load_symbol(b, file, garbage) ==
  IF check_is_valid_elf(file)
  THEN Done(load_symbols(b, file, file.sectionHeaders, garbage), TRUE, <<>>)
  ELSE Done(b, FALSE, <<>>)

load_elf(b, file, garbage) ==
  LET loaded == load_programs(b, file.segments)
      readable == loaded.out /\ file.sectionHeaders
  IN  IF ~check_is_valid_elf(file) \/ ~file.headers THEN Done(b, FALSE, <<>>)
      ELSE IF ~loaded.ok \/ loaded.bus.wild THEN loaded
      ELSE Done(load_symbols(loaded.bus, file, readable, garbage), TRUE, <<>>)

(* The symbol an address is shown with.  At or behind the last one the      *)
(* iterator stays at the end, and what it gives is whatever lies there.     *)
addr_match_symbol(b, addr) ==
  LET table == b.symbols
      upper_bound == {a \in DOMAIN table : a > addr}
      below == (DOMAIN table) \ upper_bound
      found == CHOOSE a \in below : \A x \in below : x <= a
      offset == addr - found
  IN  IF DOMAIN table = {} THEN {<<>>}
      ELSE IF upper_bound = {} THEN {<<>>, <<"undefined", addr>>}
      ELSE IF below = {} \/ offset >= SYMBOL_RANGE THEN {<<>>}
      ELSE {<<table[found], offset>>}

(* A number, or the highest address of the symbol.                          *)
string_to_addr(b, s) ==
  LET found == {a \in DOMAIN b.symbols : b.symbols[a] = s.text}
  IN  IF s.isNumber THEN <<s.number>>
      ELSE IF found = {} THEN <<>>
      ELSE <<CHOOSE a \in found : \A x \in found : x <= a>>

-----------------------------------------------------------------------------
(* The commands.                                                            *)

cmd_mem_create(b, start, bytes) == SuccessOr(add_memory_map(b, start, bytes), "CmdError")

cmd_mem_img(b, stream) == Status(load_from_stream(b, IMG_BASE, stream), "Success")

cmd_mem_save(b, start, length) == SuccessOr(dump(b, start, length), "CmdError")

(* device add succeeds whatever becomes of it.                              *)
device_add_memory(b, start, bytes) == Status(add_memory_map(b, start, bytes), "Success")
device_add_uart(b, base) == Status(add_mmio_map(b, base, UART_LENGTH), "Success")
device_add_virtio_block(b, base) == Status(add_mmio_map(b, base, VIRTIO_LENGTH), "Success")

cmd_load_elf(b, file, garbage) ==
  LET r == load_elf(b, file, garbage)
  IN  SuccessOr(IF r.ok THEN [r EXCEPT !.bus.entry = file.entry] ELSE r, "CmdError")

cmd_load_bin(b, addr, stream) == SuccessOr(load_from_stream(b, addr, stream), "CmdError")
cmd_load_symbol(b, file, garbage) == SuccessOr(load_symbol(b, file, garbage), "CmdError")

-----------------------------------------------------------------------------
(* x /<n/f/c> addr.  The argument is a sequence of digits and letters.      *)

Letters == {"x", "d", "u", "o", "t", "s", "c", "f", "i"}
Sizes == [b |-> 1, h |-> 2, w |-> 4, g |-> 8]

ShowMemArgs(arg) ==
  LET Read(a, c) ==
        IF c.isDigit THEN [a EXCEPT !.n = 10 * @ + c.digit]
        ELSE IF c.letter \in Letters THEN [a EXCEPT !.format = c.letter]
        ELSE IF c.letter \in DOMAIN Sizes THEN [a EXCEPT !.size = Sizes[c.letter]]
        ELSE a
      read_ == FoldLeft(Read, [n |-> 0, format |-> "x", size |-> 1], arg)
  IN  [count |-> IF read_.n = 0 THEN 1 ELSE read_.n, format |-> read_.format, size |-> read_.size]

(* What of the bytes of a unit is shown: all of them, the lowest filled up  *)
(* with zeros in binary, the first as a character.                          *)
Shown(format, bytes) ==
  CASE format = "t" -> [k \in DOMAIN bytes |-> IF k = 1 THEN bytes[1] ELSE 0]
    [] format = "c" -> <<bytes[1]>>
    [] format = "f" /\ Len(bytes) < 4 -> <<>>
    [] OTHER -> bytes

(* The lines shown: each one the address and the bytes, or cut short.       *)
RECURSIVE ShowUnits(_, _, _, _, _, _, _)
ShowUnits(b, p, memSize, vaddr, count, size, format) ==
  IF count = 0 THEN <<>>
  ELSE IF memSize < size THEN <<[at |-> vaddr, bytes |-> <<>>]>>
  ELSE <<[at |-> vaddr, bytes |-> Shown(format, Peek(b, p, size).out)]>>
       \o ShowUnits(b, After(p, size), memSize - size, Word(vaddr + size), count - 1, size, format)

(* paddr is what core 0 translates vaddr to, or vaddr when it cannot.       *)
show_mem_value_helper(b, count, size, format, vaddr, paddr) ==
  LET p == get_ptr(b, paddr)
  IN  IF p = <<>> THEN <<>>
      ELSE ShowUnits(b, p[1], get_ptr_length(b, paddr), vaddr, count, size, format)

(* isa::disassemble as far as its length goes: one of two, none where too   *)
(* few bytes are left.                                                      *)
disassemble(bytes) ==
  IF Len(bytes) < 2 THEN 0
  ELSE IF bytes[1] = 0 THEN 2
  ELSE IF Len(bytes) < 4 THEN 0 ELSE 4

(* The bytes shown are mem[instLen] down to mem[1]: those behind the first, *)
(* and one behind the instruction, which may lie behind the block.          *)
RECURSIVE ShowInsts(_, _, _, _, _)
ShowInsts(b, p, memSize, vaddr, count) ==
  LET instLen == disassemble(Peek(b, p, memSize).out)
      hex == Peek(b, After(p, 1), instLen)
  IN  IF count = 0 THEN <<>>
      ELSE IF instLen = 0 THEN <<[at |-> vaddr, symbols |-> {}, bytes |-> <<>>]>>
      ELSE <<[at |-> vaddr, symbols |-> addr_match_symbol(b, vaddr),
              bytes |-> IF hex.bus.wild THEN <<"undefined">> ELSE hex.out]>>
           \o ShowInsts(b, After(p, instLen), memSize - instLen, Word(vaddr + instLen), count - 1)

show_inst(b, count, vaddr, paddr) ==
  LET p == get_ptr(b, paddr)
      lines == ShowInsts(b, p[1], get_ptr_length(b, paddr), vaddr, count)
  IN  IF p = <<>> THEN Done(b, "Success", <<>>)
      ELSE Done([b EXCEPT !.wild = @ \/ \E k \in DOMAIN lines : lines[k].bytes = <<"undefined">>],
                "Success", lines)

(* A string ends at a zero byte, which the next one does not skip.  A        *)
(* device has a length and no pointer.                                      *)
show_string(b, count, paddr) ==
  LET p == get_ptr(b, paddr)
      memSize == get_ptr_length(b, paddr)
      rest == Peek(b, p[1], memSize).out
      zero == SelectInSeq(rest, LAMBDA byte : byte = 0)
      text == IF zero = 0 THEN rest ELSE SubSeq(rest, 1, zero - 1)
  IN  IF memSize = 0 THEN Done(b, "Success", <<>>)
      ELSE IF p = <<>> THEN Wild(b)
      ELSE Done(b, "Success", [k \in 1 .. (IF zero = 0 THEN 1 ELSE count) |-> IF k = 1 THEN text ELSE <<>>])

(* translate gives the physical addresses of the pages core 0 has mapped.   *)
show_mem(b, arg, s, translate) ==
  LET a == ShowMemArgs(arg)
      found == string_to_addr(b, s)
      vaddr == found[1]
      valid == vaddr \in DOMAIN translate
      paddr == IF valid THEN translate[vaddr] ELSE vaddr
      size == IF a.format = "c" THEN 1 ELSE a.size
  IN  IF found = <<>> THEN Done(b, "InvalidArgs", <<>>)
      ELSE IF a.format = "s"
      THEN IF valid THEN show_string(b, a.count, paddr) ELSE Done(b, "Success", <<>>)
      ELSE IF a.format = "i" THEN show_inst(b, a.count, vaddr, paddr)
      ELSE Done(b, "Success", show_mem_value_helper(b, a.count, size, a.format, vaddr, paddr))
=============================================================================
