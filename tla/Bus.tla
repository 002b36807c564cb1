-------------------------------- MODULE Bus --------------------------------
(***************************************************************************)
(* device/bus.cpp: which memory block or device an address belongs to, and *)
(* what every path into memory does to the bytes: guest reads and writes,  *)
(* atomics, the loaders, dump, memset and memcpy.                          *)
(*                                                                         *)
(* A bus b has the vectors blocks and mmio, and wild, which tells that the *)
(* host touched bytes outside the block it meant.  Addresses are words     *)
(* modulo WORDS; a byte has one bit, and data is a sequence of bytes, the  *)
(* lowest first.  Operations give [bus, ok, out].                          *)
(***************************************************************************)
EXTENDS Integers, SequencesExt

WORDS == 16
BUFFER_SIZE == 2

Word(n) == n % WORDS
Done(b, ok, out) == [bus |-> b, ok |-> ok, out |-> out]

-----------------------------------------------------------------------------
(* The maps.                                                                *)

in_range(m, addr, length) == addr >= m.start /\ Word(addr + length) <= m.end

match_memory(b, addr, length) == SelectInSeq(b.blocks, LAMBDA m : in_range(m, addr, length))

match_mmio(b, addr, length) ==
  SelectInSeq(b.mmio, LAMBDA m : m.start <= addr /\ Word(addr + length) <= Word(m.start + m.size))

(* The bytes of a new block are those the host's allocator left.            *)
MemoryBlock(start, bytes) ==
  [start |-> start, end |-> Word(start + Len(bytes)), data |-> bytes]

add_memory_map(b, start, bytes) ==
  IF \E k \in DOMAIN b.blocks :
       in_range(b.blocks[k], start, 0) \/ in_range(b.blocks[k], Word(start + Len(bytes)), 0)
  THEN Done(b, FALSE, <<>>)
  ELSE Done([b EXCEPT !.blocks = Append(@, MemoryBlock(start, bytes))], TRUE, <<>>)

add_mmio_map(b, start, length) ==
  IF \E k \in DOMAIN b.mmio :
       LET m == b.mmio[k]
       IN  \/ m.start <= start /\ start < Word(m.start + m.size)
           \/ start <= m.start /\ m.start < Word(start + length)
  THEN Done(b, FALSE, <<>>)
  ELSE Done([b EXCEPT !.mmio = Append(@, [start |-> start, size |-> length])], TRUE, <<>>)

-----------------------------------------------------------------------------
(* Host pointers: a block and an offset; none is <<>>.                      *)

Pointer(b, k, addr) == [block |-> k, offset |-> Word(addr - b.blocks[k].start)]

(* The devices have no get_ptr of their own: theirs is null.                *)
get_ptr(b, addr) ==
  LET k == match_memory(b, addr, 0) IN IF k # 0 THEN <<Pointer(b, k, addr)>> ELSE <<>>

get_ptr_length(b, addr) ==
  LET k == match_memory(b, addr, 0)
      d == match_mmio(b, addr, 0)
  IN  IF k # 0 THEN Word(b.blocks[k].end - addr)
      ELSE IF d # 0 THEN Word(b.mmio[d].size - (addr - b.mmio[d].start))
      ELSE 0

Fits(b, p, n) == p.offset + n <= Len(b.blocks[p.block].data)

Wild(b) == Done([b EXCEPT !.wild = TRUE], TRUE, <<>>)

(* memcpy from and to the host address p.                                   *)
Peek(b, p, n) ==
  IF Fits(b, p, n)
  THEN Done(b, TRUE, SubSeq(b.blocks[p.block].data, p.offset + 1, p.offset + n))
  ELSE Wild(b)

Poke(b, p, bytes) ==
  LET Overwritten(data) ==
        [k \in DOMAIN data |->
           IF k - p.offset \in DOMAIN bytes THEN bytes[k - p.offset] ELSE data[k]]
  IN  IF Fits(b, p, Len(bytes))
      THEN Done([b EXCEPT !.blocks[p.block].data = Overwritten(@)], TRUE, <<>>)
      ELSE Wild(b)

-----------------------------------------------------------------------------
(* What the harts and the devices use.  A device answers for itself: out    *)
(* names the one that is asked and the offset.                              *)

Asked(b, d, addr) == Done(b, TRUE, <<"device", d, Word(addr - b.mmio[d].start)>>)

read(b, addr, length) ==
  LET k == match_memory(b, addr, length)
      d == match_mmio(b, addr, length)
  IN  IF k # 0 THEN Peek(b, Pointer(b, k, addr), length)
      ELSE IF d # 0 THEN Asked(b, d, addr)
      ELSE Done(b, FALSE, <<>>)

write(b, addr, bytes) ==
  LET k == match_memory(b, addr, Len(bytes))
      d == match_mmio(b, addr, Len(bytes))
  IN  IF k # 0 THEN Poke(b, Pointer(b, k, addr), bytes)
      ELSE IF d # 0 THEN Asked(b, d, addr)
      ELSE Done(b, FALSE, <<>>)

Unsigned(bytes) == FoldRight(LAMBDA byte, n : 2 * n + byte, bytes, 0)
Signed(bytes) == Unsigned(bytes) - IF Last(bytes) = 1 THEN 2 ^ Len(bytes) ELSE 0
Bytes(n, length) == [k \in 1 .. length |-> (n \div 2 ^ (k - 1)) % 2]

AMO(amo, x, y) ==
  LET Bitwise(Op(_, _)) == [k \in DOMAIN x |-> Op(x[k], y[k])]
      Lower(Value(_)) == IF Value(x) < Value(y) THEN x ELSE y
      Higher(Value(_)) == IF Value(x) > Value(y) THEN x ELSE y
  IN  CASE amo = "SWAP" -> y
        [] amo = "ADD" -> Bytes(Unsigned(x) + Unsigned(y), Len(x))
        [] amo = "AND" -> Bitwise(LAMBDA p, q : p * q)
        [] amo = "OR" -> Bitwise(LAMBDA p, q : p + q - p * q)
        [] amo = "XOR" -> Bitwise(LAMBDA p, q : (p + q) % 2)
        [] amo = "MIN" -> Lower(Signed)
        [] amo = "MAX" -> Higher(Signed)
        [] amo = "MINU" -> Lower(Unsigned)
        [] amo = "MAXU" -> Higher(Unsigned)

(* Memory only.                                                             *)
do_atomic(b, addr, bytes, amo) ==
  LET k == match_memory(b, addr, Len(bytes))
      p == Pointer(b, k, addr)
      old == Peek(b, p, Len(bytes))
  IN  IF k = 0 THEN Done(b, FALSE, <<>>)
      ELSE IF old.bus.wild THEN old
      ELSE [Poke(b, p, AMO(amo, old.out, bytes)) EXCEPT !.out = old.out]

-----------------------------------------------------------------------------
(* What the debugger and the loaders use.                                   *)


After(p, n) == [p EXCEPT !.offset = @ + n]

(* The loop over buffers: copies what is left of the stream to p.           *)
RECURSIVE CopyAll(_, _, _, _)
CopyAll(b, p, left, stream) ==
  LET count == IF Len(stream) < BUFFER_SIZE THEN Len(stream) ELSE BUFFER_SIZE
      copied == Poke(b, p, SubSeq(stream, 1, count))
  IN  IF count >= left THEN Poke(b, p, SubSeq(stream, 1, left))
      ELSE IF count < BUFFER_SIZE \/ copied.bus.wild THEN copied
      ELSE CopyAll(copied.bus, After(p, count), left - count, SubSeq(stream, count + 1, Len(stream)))

load_from_stream(b, addr, stream) ==
  LET p == get_ptr(b, addr)
  IN  IF p = <<>> THEN Done(b, FALSE, <<>>)
      ELSE CopyAll(b, p[1], get_ptr_length(b, addr), stream)

(* As many buffers as length takes; the one the stream ends in is lost.     *)
RECURSIVE CopyLength(_, _, _, _)
CopyLength(b, p, length, stream) ==
  LET count == IF length < BUFFER_SIZE THEN length ELSE BUFFER_SIZE
      copied == Poke(b, p, SubSeq(stream, 1, count))
  IN  IF Len(stream) < count THEN Done(b, TRUE, <<>>)
      ELSE IF length = count \/ copied.bus.wild THEN copied
      ELSE CopyLength(copied.bus, After(p, count), length - count, SubSeq(stream, count + 1, Len(stream)))

(* A length beyond the block is only warned of.                             *)
load_from_stream_length(b, addr, length, stream) ==
  LET p == get_ptr(b, addr)
  IN  IF p = <<>> THEN Done(b, FALSE, <<>>) ELSE CopyLength(b, p[1], length, stream)

(* A pointer with so many bytes behind it.                                  *)
HasRoom(b, addr, length) == get_ptr(b, addr) # <<>> /\ length <= get_ptr_length(b, addr)

load_from_memory(b, addr, bytes) ==
  IF HasRoom(b, addr, Len(bytes)) THEN Poke(b, get_ptr(b, addr)[1], bytes) ELSE Done(b, FALSE, <<>>)

memset(b, addr, length, byte) ==
  IF HasRoom(b, addr, length) THEN Poke(b, get_ptr(b, addr)[1], [k \in 1 .. length |-> byte])
  ELSE Done(b, FALSE, <<>>)

dump(b, addr, length) ==
  IF HasRoom(b, addr, length) THEN Peek(b, get_ptr(b, addr)[1], length) ELSE Done(b, FALSE, <<>>)

memcpy(b, addr, length) == dump(b, addr, length)
=============================================================================
