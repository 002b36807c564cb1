----------------------------- MODULE LoadedBus -----------------------------
(***************************************************************************)
(* Memory in use: a bus with a few maps, on which one operation of the     *)
(* harts, the devices or the debugger is done.  The property compares it   *)
(* with one flat memory.                                                   *)
(***************************************************************************)
EXTENDS Loader, TLC

VARIABLES bus, done

(* Maps in the order they are made: two blocks, one within another,         *)
(* neighbours, and devices beside memory, over memory, over each other.     *)
Memory(start, size) == [type |-> "memory", start |-> start, size |-> size]
Uart(start) == [type |-> "uart", start |-> start]
VirtIO(start) == [type |-> "virtio-blk", start |-> start]

Plans ==
  {<<Memory(4, 6), Memory(11, 3), Uart(2)>>,
   <<VirtIO(0), Memory(4, 5), VirtIO(8), Uart(9), Uart(11)>>,
   <<Memory(6, 2), Memory(4, 6)>>,
   <<Memory(4, 3), Memory(7, 3), Memory(6, 4), Memory(8, 3)>>}

(* Zeros and ones by turns.                                                 *)
Pattern(n, first) == [k \in 1 .. n |-> (k + first) % 2]

device_add(b, d, first) ==
  CASE d.type = "memory" -> device_add_memory(b, d.start, Pattern(d.size, first))
    [] d.type = "uart" -> device_add_uart(b, d.start)
    [] d.type = "virtio-blk" -> device_add_virtio_block(b, d.start)

NoBus == [blocks |-> <<>>, mmio |-> <<>>, wild |-> FALSE, symbols |-> 5 :> "old", entry |-> 0]

Build ==
  /\ done.op = "none" /\ done' = [op |-> "build"]
  /\ \E plan \in Plans, first \in {0, 1} :
       bus' = FoldLeft(LAMBDA b, d : device_add(b, d, first).bus, NoBus, plan)

(* The operation o has the result r.                                        *)
Do(o, r) == done.op = "build" /\ bus' = r.bus /\ done' = o @@ [status |-> r.ok]

Addresses == 0 .. WORDS - 1
Strings == {Pattern(n, first) : n \in {1, 2, 5, 7}, first \in {0, 1}}
At(op, addr, bytes) == [op |-> op, addr |-> addr, bytes |-> bytes]

(* bus->write, and load_from_memory and memset, which store alike.          *)
Write ==
  \E addr \in Addresses, bytes \in {<<0>>, <<1, 0>>, <<0, 1>>, <<1, 1, 0, 1>>} :
    Do(At("store", addr, bytes), write(bus, addr, bytes))

LoadMemory ==
  \E addr \in Addresses, bytes \in Strings :
    Do(At("store", addr, bytes), load_from_memory(bus, addr, bytes))

Memset ==
  \E addr \in Addresses, n \in {0, 1, 3}, byte \in {0, 1} :
    Do(At("store", addr, [k \in 1 .. n |-> byte]), memset(bus, addr, n, byte))

Amos == {"SWAP", "ADD", "AND", "OR", "XOR", "MIN", "MAX", "MINU", "MAXU"}

Atomic ==
  \E addr \in Addresses, bytes \in {<<1, 0>>, <<0, 1>>, <<1>>}, amo \in Amos :
    Do(At("atomic", addr, bytes) @@ [amo |-> amo], do_atomic(bus, addr, bytes, amo))

LoadBin ==
  \E addr \in Addresses, bytes \in Strings :
    Do(At("stream", addr, bytes), cmd_load_bin(bus, addr, bytes))

LoadImg ==
  \E bytes \in Strings : Do(At("stream", IMG_BASE, bytes), cmd_mem_img(bus, bytes))

CreateMemory ==
  \E start \in Addresses, n \in {1, 3} : Do([op |-> "map"], cmd_mem_create(bus, start, Pattern(n, 0)))

AddDevice ==
  \E d \in {Uart(a) : a \in Addresses} \cup {VirtIO(a) : a \in Addresses} :
    Do([op |-> "map"], device_add(bus, d, 0))

(* Files of two segments; missing bytes are behind the end of the file.     *)
Segment(vaddr, filesz, memsz, missing) ==
  [load |-> TRUE, vaddr |-> vaddr, filesz |-> filesz, memsz |-> memsz,
   bytes |-> Pattern(filesz - missing, 1)]

Note == [Segment(6, 1, 1, 0) EXCEPT !.load = FALSE]

SymbolTable(symbols, held) == [type |-> "SYMTAB", symbols |-> symbols, held |-> held]
StringTable(names, unreadable, shstrndx) ==
  [type |-> "STRTAB", names |-> names, unreadable |-> unreadable, shstrndx |-> shstrndx]
SectionNames == StringTable(<<"section">>, {}, TRUE)

Symbols ==
  <<[name |-> 1, value |-> 4], [name |-> 2, value |-> 9], [name |-> 0, value |-> 3],
    [name |-> 3, value |-> 6], [name |-> 2, value |-> 12], [name |-> 4, value |-> 4]>>

Tables(held, unreadable) ==
  <<SymbolTable(Symbols, held), StringTable(<<"start", "data", "main", "entry">>, unreadable, FALSE),
    SectionNames>>
WholeTables == Tables(Len(Symbols), {})

File(segments, sections) ==
  [magic |-> <<TRUE, TRUE, TRUE, TRUE>>, class |-> "expected", machine |-> "expected", headers |-> TRUE,
   sectionHeaders |-> TRUE, segments |-> segments, sections |-> sections, entry |-> 4]

Small == File(<<Segment(4, 2, 2, 0)>>, WholeTables)

(* Well-formed files; files that end early, with more bytes than memory or  *)
(* sizes beyond an Elf_Word; and files that are not accepted.               *)
Files ==
  {File(<<Note, Segment(a, n[1], n[2], 0), Segment(b, 2, 3, 0)>>, sections) :
     a \in {4, 5, 8}, b \in {3, 7, 11}, n \in {<<0, 0>>, <<1, 4>>, <<5, 5>>, <<3, 7>>},
     sections \in {<<>>, <<SectionNames>>, WholeTables}}
  \cup {File(<<Segment(4, 5, 5, missing), Segment(11, 1, 2, 0)>>, sections) :
         missing \in 1 .. 5, sections \in {<<>>, WholeTables}}
  \cup {File(<<Segment(a, n[1], n[2], 0), Segment(11, 1, 2, 0)>>, <<>>) :
         a \in {4, 6, 8}, n \in {<<3, 1>>, <<5, 2>>, <<8, 8>>, <<1, 9>>, <<7, 9>>}}
  \cup {[Small EXCEPT !.sections = Tables(held, unreadable)] : held \in {0, 4, 6}, unreadable \in {{}, {2}, {3, 4}}}
  \cup {[Small EXCEPT !.sectionHeaders = FALSE], [Small EXCEPT !.class = "other"],
        [Small EXCEPT !.machine = "other"], [Small EXCEPT !.headers = FALSE]}

LoadElf ==
  \E file \in Files, garbage \in BOOLEAN :
    Do([op |-> "elf", file |-> file], cmd_load_elf(bus, file, garbage))

LoadSymbol ==
  \E file \in Files, garbage \in BOOLEAN :
    Do([op |-> "symbol", file |-> file], cmd_load_symbol(bus, file, garbage))

Init == bus = NoBus /\ done = [op |-> "none"]

Next ==
  \/ Build \/ Write \/ LoadMemory \/ Memset \/ Atomic \/ LoadBin \/ LoadImg
  \/ CreateMemory \/ AddDevice \/ LoadElf \/ LoadSymbol

-----------------------------------------------------------------------------
(* The flat memory: <<byte>> at the addresses that are memory, <<>> at the  *)
(* others.  The highest address is left out: accesses that end there wrap.  *)

Flat(b) ==
  [x \in 0 .. WORDS - 2 |-> IF match_memory(b, x, 1) = 0 THEN <<>> ELSE read(b, x, 1).out]

IsMemory(v, addr, n) == \A x \in addr .. addr + n - 1 : x \in DOMAIN v /\ v[x] # <<>>

(* How many of n bytes fit from addr on.                                    *)
Room(v, addr, n) == CHOOSE k \in 0 .. n : IsMemory(v, addr, k) /\ (k = n \/ ~IsMemory(v, addr, k + 1))

Held(v, addr, n) == [k \in 1 .. n |-> v[addr + k - 1][1]]

Put(v, addr, bytes) ==
  [x \in DOMAIN v |-> IF x - addr + 1 \in DOMAIN bytes THEN <<bytes[x - addr + 1]>> ELSE v[x]]

Whole(v, addr, bytes) == IF IsMemory(v, addr, Len(bytes)) THEN Put(v, addr, bytes) ELSE v

(* A program: segments in order until one has no memory, each one zero but  *)
(* for its bytes.                                                           *)
Program(v, segments) ==
  LET loads == SelectSeq(segments, LAMBDA s : s.load /\ s.memsz > 0)
      Homeless(s) == ~IsMemory(v, s.vaddr, s.memsz)
      first == SelectInSeq(loads, Homeless)
      placed == IF first = 0 THEN loads ELSE SubSeq(loads, 1, first - 1)
      Image(s) == s.bytes \o [k \in 1 .. (s.memsz - s.filesz) |-> 0]
  IN  FoldLeft(LAMBDA w, s : Put(w, s.vaddr, Image(s)), v, placed)

Ours(file) == file.class = "expected" /\ file.machine = "expected" /\ file.headers

FlatAfter(v, o) ==
  CASE o.op = "store" -> Whole(v, o.addr, o.bytes)
    [] o.op = "atomic" ->
         IF IsMemory(v, o.addr, Len(o.bytes))
         THEN Put(v, o.addr, AMO(o.amo, Held(v, o.addr, Len(o.bytes)), o.bytes)) ELSE v
    [] o.op = "stream" -> Put(v, o.addr, SubSeq(o.bytes, 1, Room(v, o.addr, Len(o.bytes))))
    [] o.op = "elf" /\ Ours(o.file) -> Program(v, o.file.segments)
    [] OTHER -> v

(* An access that ends above the highest address is matched as if it ended  *)
(* at the lowest.                                                           *)
Wraps(o) == o.op \in {"store", "atomic"} /\ o.addr + Len(o.bytes) >= WORDS

Covers(m) == m.start .. m.end - 1
Overlap(m, n) == Covers(m) \cap Covers(n) # {}
Encloses(m, n) == m.start < n.start /\ n.end < m.end

(* No block lies in a later one, which nothing prevents.                    *)
Apart(b) == \A i, j \in DOMAIN b.blocks : i # j => ~Overlap(b.blocks[i], b.blocks[j])

(* Segments an accepted file may have that no program should: the file     *)
(* ends within, or its size is beyond an Elf_Word or that of its memory.    *)
Extent(s) == IF s.filesz > s.memsz THEN s.filesz ELSE s.memsz
Truncated(s) == s.load /\ Len(s.bytes) < s.filesz
Overlong(s) == s.load /\ (s.filesz > s.memsz \/ ElfWord(s.memsz) # s.memsz)

HasSegment(o, Bad(_)) == o.op = "elf" /\ \E k \in DOMAIN o.file.segments : Bad(o.file.segments[k])

(* `x /2<unit>' and `x /s' at an address.                                   *)
Show(b, letters, addr) ==
  LET arg == <<[isDigit |-> TRUE, digit |-> 2]>> \o [k \in DOMAIN letters |-> [isDigit |-> FALSE, letter |-> letters[k]]]
  IN  show_mem(b, arg, [isNumber |-> TRUE, number |-> addr], [x \in Addresses |-> x]).out

ShowsText(v, addr, text) ==
  /\ IsMemory(v, addr, Len(text)) /\ \A k \in DOMAIN text : text[k] = 1
  /\ addr + Len(text) \in DOMAIN v => v[addr + Len(text)] # <<1>>

(* Two instructions: each line where the one before ends, cut at the last   *)
(* bytes of the memory.                                                     *)
ShowsCode(v, addr, lines) ==
  LET Rest(x) == Held(v, x, Room(v, x, WORDS - 1 - x))
      next == addr + disassemble(Rest(addr))
  IN  /\ lines[1].at = addr
      /\ IF next = addr THEN Len(lines) = 1 /\ lines[1].bytes = <<>>
         ELSE lines[2].at = next /\ (lines[2].bytes = <<>> <=> disassemble(Rest(next)) = 0)

Unit == <<"b", "h", "q", "w">>

(* What is read at any address and length, dumped, copied or shown.         *)
ReadsAs(b, v) ==
  /\ \A addr \in DOMAIN v, n \in {1, 2, 4} : addr + n < WORDS =>
       LET guest == read(b, addr, n)
           lines == Show(b, <<"x", Unit[n]>>, addr)
       IN  IF IsMemory(v, addr, n)
           THEN /\ guest = Done(b, TRUE, Held(v, addr, n))
                /\ dump(b, addr, n) = guest /\ memcpy(b, addr, n) = guest
                /\ lines[1] = [at |-> addr, bytes |-> guest.out]
                /\ IsMemory(v, addr + n, n) => lines[2] = [at |-> addr + n, bytes |-> Held(v, addr + n, n)]
           ELSE /\ guest.ok => guest.out[1] = "device"
                /\ ~dump(b, addr, n).ok /\ ~memcpy(b, addr, n).ok
                /\ \A k \in DOMAIN lines : lines[k].bytes = <<>>
  /\ \A addr \in DOMAIN v : v[addr] # <<>> =>
       /\ Show(b, <<"c", "w">>, addr)[1] = [at |-> addr, bytes |-> v[addr]]
       /\ ShowsText(v, addr, Show(b, <<"s">>, addr)[1])
       /\ ShowsCode(v, addr, Show(b, <<"i">>, addr))

(* The symbol shown at an address is the nearest one below it, and a name   *)
(* gives back the address; the last symbol alone cannot be looked up.       *)
FoundBothWays(b) ==
  /\ \A a \in DOMAIN b.symbols :
       (\A x \in DOMAIN b.symbols : b.symbols[x] = b.symbols[a] => x <= a)
         => string_to_addr(b, [isNumber |-> FALSE, text |-> b.symbols[a]]) = <<a>>
  /\ \A x \in Addresses : (\E a \in DOMAIN b.symbols : a > x) =>
       LET Nearest(a) == a <= x /\ \A y \in a + 1 .. x : y \notin DOMAIN b.symbols
       IN  addr_match_symbol(b, x)
             = {IF \E a \in DOMAIN b.symbols : Nearest(a) /\ x - a < SYMBOL_RANGE
                THEN LET a == CHOOSE a \in DOMAIN b.symbols : Nearest(a) IN <<b.symbols[a], x - a>>
                ELSE <<>>}

(* The symbols are those of the first n entries of the file's table.        *)
SymbolsOfFirst(n, file, symbols) ==
  LET table == file.sections[1].symbols
      Named(k) == table[k].name # 0
      Again(k) == \E l \in k + 1 .. n : Named(l) /\ table[l].value = table[k].value
  IN  /\ DOMAIN symbols = {table[k].value : k \in {l \in 1 .. n : Named(l)}}
      /\ \A k \in 1 .. n :
           Named(k) /\ ~Again(k) => symbols[table[k].value] = file.sections[2].names[table[k].name]

(* A command that fails keeps the symbols; a file that holds its tables     *)
(* replaces them by its own, one that ends early by the first of them.      *)
SymbolsAfter(o, old, symbols) ==
  LET file == o.file
      size == Len(file.sections[1].symbols)
      intact == file.sections[1].held = size /\ file.sections[2].unreadable = {}
  IN  IF o.status # "Success" \/ Len(file.sections) < 2 THEN symbols = old
      ELSE IF ~file.sectionHeaders \/ HasSegment(o, Truncated) THEN symbols = old \/ symbols = <<>>
      ELSE \E n \in 0 .. size : (intact => n = size) /\ SymbolsOfFirst(n, file, symbols)

(* A step of one flat memory: what Units claims of every step.              *)
OneMemoryStep ==
  done'.op \notin {"none", "build"} /\ Apart(bus) /\ ~Wraps(done') =>
    LET o == done'
        v == Flat(bus)
        after == Flat(bus')
        Kept(x) == v[x] = after[x]
        Overruns(s) == Overlong(s) /\ ~IsMemory(v, s.vaddr, Extent(s))
        Within(s, x) == x - s.vaddr \in 0 .. Extent(s) - 1
    IN  IF bus'.wild THEN HasSegment(o, Overruns) ELSE
        /\ CASE o.op = "map" -> \A x \in DOMAIN v : v[x] # <<>> => Kept(x)
             [] HasSegment(o, Truncated) \/ HasSegment(o, Overlong) ->
                  \A x \in DOMAIN v : Kept(x) \/ HasSegment(o, LAMBDA s : Within(s, x))
             [] OTHER -> after = FlatAfter(v, o)
        /\ \A i, j \in DOMAIN bus'.blocks :
             i < j /\ Overlap(bus'.blocks[i], bus'.blocks[j]) => Encloses(bus'.blocks[j], bus'.blocks[i])
        /\ \A i, j \in DOMAIN bus'.mmio : i # j =>
             bus'.mmio[i].start \notin bus'.mmio[j].start .. bus'.mmio[j].start + bus'.mmio[j].size - 1
        /\ Apart(bus') => ReadsAs(bus', after)
        /\ o.op = "elf" /\ o.status = "Success" => bus'.entry = o.file.entry
        /\ IF o.op \in {"elf", "symbol"} THEN SymbolsAfter(o, bus.symbols, bus'.symbols)
           ELSE bus'.symbols = bus.symbols
        /\ FoundBothWays(bus')
=============================================================================
