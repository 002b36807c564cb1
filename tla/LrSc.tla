-------------------------------- MODULE LrSc --------------------------------
(***************************************************************************)
(* LR/SC and AMOs (inst/atomic.cpp) of several harts over the memory of a  *)
(* bus: each hart keeps, for every address it ever load-reserved, the      *)
(* value it got, and an SC compares the word with that value.              *)
(*                                                                         *)
(* The guest keeps to four rules, without which an SC may report a store   *)
(* that never happened: it pairs each SC with an LR of the same address    *)
(* and width; no task of the hart uses LR/SC in between (pending); and no  *)
(* hart brings back the value another has reserved (NoReturn).             *)
(***************************************************************************)
EXTENDS Integers

CONSTANTS Harts,
          Words,       (* addresses of memory                               *)
          Devices,     (* addresses of devices                              *)
          DeviceValues, (* what their registers read as                     *)
          WIDTH,       (* bits of a word                                    *)
          Fault

ASSUME LrScAssumption ==
  /\ WIDTH \in Nat \ {0}
  /\ Words \cap Devices = {}
  /\ DeviceValues \subseteq SUBSET (0 .. WIDTH - 1)

(* A word is the set of its bits that are 1.                                *)
Bits == 0 .. WIDTH - 1
Values == SUBSET Bits
SUCCESS == {}
FAILURE == {0}

VARIABLES
  mem,
  reservedMemory,   (* each hart's values, by address                       *)
  pending,          (* the guest's LR that has no SC yet, and what it got   *)
  dest              (* what the last instruction returned                   *)

vars == <<mem, reservedMemory, pending, dest>>

Init ==
  /\ mem \in [Words -> Values]
  /\ reservedMemory = [h \in Harts |-> <<>>]
  /\ pending = [h \in Harts |-> <<>>]
  /\ dest = [h \in Harts |-> Fault]

Reserved(h) == DOMAIN reservedMemory[h]

Awaits(h) == DOMAIN pending[h]

Returns(h, v) == dest' = [dest EXCEPT ![h] = v]

(* The guest's rule against values that come back.                          *)
NoReturn(harts, a, v) ==
  \A g \in harts :
    a \in Awaits(g) \cap Words /\ pending[g][a] = v => mem[a] = v

-----------------------------------------------------------------------------
(* Arithmetic of the AMOs.                                                  *)

Xor(a, b) == (a \cup b) \ (a \cap b)

Add(a, b) ==
  LET Carry[i \in Bits] ==
        i > 0 /\ \/ i - 1 \in a \cap b
                 \/ i - 1 \in a \cup b /\ Carry[i - 1]
  IN {i \in Bits : (i \in Xor(a, b)) # Carry[i]}

Less(a, b) ==
  \E i \in b \ a : \A j \in Bits : j > i => (j \in a <=> j \in b)

(* Two's complement: the order with the sign bits swapped.                  *)
SignedLess(a, b) == Less(Xor(a, {WIDTH - 1}), Xor(b, {WIDTH - 1}))

Operations == {"SWAP", "ADD", "AND", "OR", "XOR", "MIN", "MAX", "MINU", "MAXU"}

(* MemoryBlock::do_atomic.                                                  *)
AMO(op, old, data) ==
  CASE op = "SWAP" -> data
    [] op = "ADD"  -> Add(old, data)
    [] op = "AND"  -> old \cap data
    [] op = "OR"   -> old \cup data
    [] op = "XOR"  -> Xor(old, data)
    [] op = "MIN"  -> IF SignedLess(data, old) THEN data ELSE old
    [] op = "MAX"  -> IF SignedLess(old, data) THEN data ELSE old
    [] op = "MINU" -> IF Less(data, old) THEN data ELSE old
    [] op = "MAXU" -> IF Less(old, data) THEN data ELSE old

-----------------------------------------------------------------------------

(* memory_load and memory_store of a word.                                  *)
Load(h, a) == Returns(h, mem[a]) /\ UNCHANGED <<mem, reservedMemory, pending>>

Store(h, a, v) ==
  /\ NoReturn(Harts, a, v)
  /\ mem' = [mem EXCEPT ![a] = v]
  /\ UNCHANGED <<reservedMemory, pending, dest>>

(* amo_vaddr_translate_and_set_trap: a misaligned address, a page fault, an *)
(* address no memory or device has.  The code keeps a reservation; the      *)
(* guest, which ends in its handler, does not come back for the SC.         *)
AmoFaults(h) ==
  /\ Returns(h, Fault)
  /\ pending' = [pending EXCEPT ![h] = <<>>]
  /\ UNCHANGED <<mem, reservedMemory>>

(* Mutant: std::map::emplace, which keeps a value already there.            *)
ReserveOnce(h, a, v) ==
  reservedMemory' = [reservedMemory EXCEPT ![h] =
    [b \in DOMAIN @ \cup {a} |-> IF b \in DOMAIN @ THEN @[b] ELSE v]]

(* Mutant: the address is not entered.                                      *)
ReserveNothing(h, a, v) == reservedMemory' = reservedMemory

Reserve(h, a, v) ==
  reservedMemory' = [reservedMemory EXCEPT ![h] =
    [b \in DOMAIN @ \cup {a} |-> IF b = a THEN v ELSE @[b]]]

do_load_reserved(h, a) ==
  \E v \in IF a \in Words THEN {mem[a]} ELSE DeviceValues :
    /\ Returns(h, v)
    /\ Reserve(h, a, v)
    /\ pending' = [pending EXCEPT ![h] = [b \in {a} |-> v]]
    /\ UNCHANGED mem

Erase(h, a) ==
  reservedMemory' = [reservedMemory EXCEPT ![h] = [b \in DOMAIN @ \ {a} |-> @[b]]]

(* Without a reservation the code returns success and stores nothing: the   *)
(* rule keeps the guest from it.  A device has no pointer to compare at.    *)
do_store_conditional(h, a, v) ==
  /\ a \in Awaits(h) /\ NoReturn(Harts \ {h}, a, v)
  /\ pending' = [pending EXCEPT ![h] = <<>>]
  /\ IF a \notin Reserved(h)
     THEN Returns(h, SUCCESS) /\ UNCHANGED <<mem, reservedMemory>>
     ELSE IF a \in Devices
     THEN Returns(h, Fault) /\ UNCHANGED <<mem, reservedMemory>>
     ELSE /\ Erase(h, a)
          /\ IF mem[a] = reservedMemory[h][a]
             THEN mem' = [mem EXCEPT ![a] = v] /\ Returns(h, SUCCESS)
             ELSE UNCHANGED mem /\ Returns(h, FAILURE)

do_amo_inst(h, op, a, data) ==
  /\ UNCHANGED <<reservedMemory, pending>>
  /\ IF a \in Devices THEN Returns(h, Fault) /\ UNCHANGED mem
     ELSE /\ NoReturn(Harts, a, AMO(op, mem[a], data))
          /\ mem' = [mem EXCEPT ![a] = AMO(op, mem[a], data)]
          /\ Returns(h, mem[a])

(* A compare-and-exchange loop that finds another value leaves without SC;  *)
(* a trap's handler that switches tasks does the same for its task.         *)
Abandon(h) ==
  /\ Awaits(h) # {}
  /\ pending' = [pending EXCEPT ![h] = <<>>]
  /\ UNCHANGED <<mem, reservedMemory, dest>>

(* RVCore::reset keeps the reservations.                                    *)
reset(h) ==
  /\ pending' = [pending EXCEPT ![h] = <<>>]
  /\ UNCHANGED <<mem, reservedMemory, dest>>

HartStep(h) ==
  \/ AmoFaults(h) \/ Abandon(h) \/ reset(h)
  \/ \E a \in Words : Load(h, a) \/ \E v \in Values : Store(h, a, v)
  \/ \E a \in Words \cup Devices :
       \/ do_load_reserved(h, a)
       \/ \E v \in Values : do_store_conditional(h, a, v)
       \/ \E v \in Values, op \in Operations : do_amo_inst(h, op, a, v)

Next == \E h \in Harts : HartStep(h)

Spec == Init /\ [][Next]_vars

-----------------------------------------------------------------------------

LrScTypeOK ==
  /\ mem \in [Words -> Values]
  /\ dest \in [Harts -> {Fault} \cup Values]
  /\ DOMAIN reservedMemory = Harts /\ DOMAIN pending = Harts
  /\ \A h \in Harts :
       /\ Reserved(h) \subseteq Words \cup Devices
       /\ \A a \in Reserved(h) : reservedMemory[h][a] \in Values
       /\ Awaits(h) \subseteq Reserved(h)
       /\ \A a, b \in Awaits(h) : a = b
       /\ \A a \in Awaits(h) : pending[h][a] \in Values

(* A reservation holds as long as the word has what the LR got: with it the *)
(* harts' SCs and AMOs are those of AtomicMemory, so that no SC reports a   *)
(* store it did not make, fails without cause, or overwrites another's.     *)
Link == [h \in Harts |-> {a \in Awaits(h) \cap Words : mem[a] = pending[h][a]}]

Promise == INSTANCE AtomicMemory WITH link <- Link

ImplementsAtomicMemory == Promise!Spec

=============================================================================
