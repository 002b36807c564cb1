------------------------------- MODULE VirtIO -------------------------------
(***************************************************************************)
(* The VirtIO block device (virtio.cpp, block.cpp) and its driver: status  *)
(* negotiation, the rings, notify_queue on the hart that writes the        *)
(* register, and the disk.                                                 *)
(*                                                                         *)
(* A descriptor chain is one request.  The driver keeps to these rules:    *)
(* one hart at a time notifies, while others may make requests available   *)
(* and collect answers; it resets a device that is idle; it names queue 0  *)
(* (line 79 lets 1 through); it never sets NO_NOTIFY, which the device     *)
(* reads before it moves the used index, so that an answer could be        *)
(* missed.  The host's file does not fail.                                 *)
(***************************************************************************)
EXTENDS Integers, Sequences

CONSTANTS NUM,         (* queueNum                                          *)
          INDEX_BITS,  (* width of the rings' indices, 16 in the code       *)
          SECTORS,     (* of the image                                      *)
          WRAP_BITS,   (* sector * 512 is computed modulo 2^WRAP_BITS * 512 *)
          Values,      (* contents of a sector                              *)
          Requests     (* requests the driver makes                         *)

(* The driver writes a power of two below the indices' range to QueueNum.   *)
(* What the provers do not know of powers of two is stated.                 *)
ASSUME VirtIOAssumption ==
  /\ NUM \in Nat \ {0} /\ INDEX_BITS \in Nat \ {0}
  /\ 2 ^ INDEX_BITS \in Nat \ {0} /\ NUM < 2 ^ INDEX_BITS
  /\ 2 ^ INDEX_BITS % NUM = 0
  /\ SECTORS \in Nat /\ WRAP_BITS \in Nat /\ 2 ^ WRAP_BITS \in Nat \ {0}
  /\ Requests # {}
  /\ \A r \in Requests :
       /\ r.buffers \in 1 .. 3 /\ r.type \in {"IN", "OUT", "OTHER"}
       /\ r.sector \in Nat /\ r.whole \in BOOLEAN /\ r.value \in Values

Index == 0 .. 2 ^ INDEX_BITS - 1

(* Mutant: the index is held in a wider integer.                            *)
IncWide(i) == i + 1

Inc(i) == (i + 1) % 2 ^ INDEX_BITS

Descs == 0 .. NUM - 1
Sectors == 0 .. SECTORS - 1

VARIABLES
  state, lastAvailIndex, interrupt,
  avail, used,      (* the rings, in the guest's memory                     *)
  chain,            (* the request each descriptor chain makes              *)
  data,             (* its buffer                                           *)
  disk,
  notifying,        (* notify_queue: availIndex and step, while it runs     *)
  phase,            (* the driver's: "off", "setup", "run"                  *)
  written,          (* status bits it wrote since the reset                 *)
  free, lastUsed, handler

driverVars == <<phase, written, free, lastUsed, handler>>
deviceVars == <<state, lastAvailIndex, interrupt>>
vars == <<state, lastAvailIndex, interrupt, avail, used, chain, data,
          disk, notifying, phase, written, free, lastUsed, handler>>

States == <<"IDLE", "ACKNOWLEGED", "DRIVERED", "FEATURES_OK", "DRIVER_OK">>
Bits == <<"ACKNOWLEDGE", "DRIVER", "FEATURES_OK", "DRIVER_OK">>
StatusBits == {Bits[i] : i \in DOMAIN Bits}

Ring == [idx |-> 0, ring |-> [i \in Descs |-> 0]]
NoRequest == CHOOSE r \in Requests : TRUE

(* The constructor leaves state as the memory was.                          *)
Init ==
  /\ state \in 1 .. Len(States)
  /\ lastAvailIndex = 0 /\ interrupt = FALSE
  /\ avail = Ring /\ used = Ring
  /\ chain = [d \in Descs |-> NoRequest]
  /\ data \in {[d \in Descs |-> v] : v \in Values}
  /\ disk \in {[s \in Sectors |-> v] : v \in Values}
  /\ notifying = <<>>
  /\ phase = "off" /\ written = StatusBits
  /\ free = Descs /\ lastUsed = 0 /\ handler = FALSE

-----------------------------------------------------------------------------
(* Status: state is the number of a state of States.                        *)

read_status == {Bits[i] : i \in 1 .. state - 1}

(* Mutant: a later bit is taken without the ones before it.                 *)
AdvancedPastGaps(bits) ==
  CHOOSE n \in state .. Len(States) :
    /\ n = state \/ Bits[n - 1] \in bits
    /\ \A i \in n .. Len(Bits) : Bits[i] \notin bits

(* The cases fall through as far as the bits go.                            *)
Advanced(bits) ==
  CHOOSE n \in state .. Len(States) :
    /\ \A i \in state .. n - 1 : Bits[i] \in bits
    /\ n < Len(States) => Bits[n] \notin bits

write_status(bits) ==
  /\ phase = "setup"
  /\ state' = Advanced(bits)
  /\ written' = written \cup bits
  /\ phase' = IF state' = Len(States) THEN "run" ELSE "setup"
  /\ UNCHANGED <<lastAvailIndex, interrupt, avail, used, chain, data,
                 disk, notifying, free, lastUsed, handler>>

ResetDevice == state' = 1 /\ lastAvailIndex' = 0

(* VirtIO::reset, by a status of 0; the interrupt stays.  The driver then   *)
(* clears the rings.                                                        *)
reset ==
  /\ notifying = <<>> /\ ~handler
  /\ ResetDevice
  /\ phase' = "setup" /\ written' = {}
  /\ avail' = Ring /\ used' = Ring
  /\ free' = Descs /\ lastUsed' = 0
  /\ UNCHANGED <<interrupt, chain, data, disk, notifying, handler>>

-----------------------------------------------------------------------------
(* The disk.                                                                *)

Start(r) == r.sector % 2 ^ WRAP_BITS

(* A request that reaches the image's end is answered without acting.       *)
Fits(r) == Start(r) + 1 < SECTORS

WellFormed(r) == r.buffers = 3 /\ r.type # "OTHER" /\ r.whole

(* virtio_handle_req: a chain of fewer than 3 buffers is answered as done.  *)
IsAnswered(r) == r.buffers < 3 \/ WellFormed(r)

blk_read(r, old) ==
  IF WellFormed(r) /\ r.type = "IN" /\ Fits(r) THEN old[2][Start(r)] ELSE old[1]

blk_write(r, old) ==
  IF WellFormed(r) /\ r.type = "OUT" /\ Fits(r)
  THEN [old EXCEPT ![Start(r)] = r.value] ELSE old

-----------------------------------------------------------------------------
(* notify_queue, a step for each access another hart could come between.    *)

NotifyBegin ==
  /\ phase = "run" /\ notifying = <<>>
  /\ notifying' = [availIndex |-> avail.idx, step |-> "loop", desc |-> 0]
  /\ UNCHANGED <<deviceVars, avail, used, chain, data, disk, driverVars>>

(* Mutant: the slot is not taken modulo the queue's size by the device.     *)
LastSlot == IF lastAvailIndex < NUM THEN lastAvailIndex ELSE NUM - 1

Slot == lastAvailIndex % NUM

InStep(step) == notifying # <<>> /\ notifying.step = step

(* One turn of the loop: the chain is read and the request acts; a failed   *)
(* one is passed over without an answer.                                    *)
HandleRequest ==
  /\ InStep("loop") /\ lastAvailIndex # notifying.availIndex
  /\ LET d == avail.ring[Slot]
         r == chain[d]
     IN /\ disk' = blk_write(r, disk)
        /\ data' = [data EXCEPT ![d] = blk_read(r, <<@, disk>>)]
        /\ IF IsAnswered(r)
           THEN /\ notifying' = [notifying EXCEPT !.step = "done", !.desc = d]
                /\ UNCHANGED lastAvailIndex
           ELSE /\ lastAvailIndex' = Inc(lastAvailIndex)
                /\ UNCHANGED notifying
  /\ UNCHANGED <<state, interrupt, avail, used, chain, driverVars>>

(* virtio_handle_done: the element, then the index.                         *)
virtio_handle_done ==
  /\ InStep("done")
  /\ used' = [idx |-> Inc(used.idx),
              ring |-> [used.ring EXCEPT ![used.idx % NUM] = notifying.desc]]
  /\ notifying' = [notifying EXCEPT !.step = "raise"]
  /\ UNCHANGED <<deviceVars, avail, chain, data, disk, driverVars>>

(* Mutant: the interrupt is raised for the last request only.               *)
RaiseAtLast == interrupt' = (Inc(Inc(lastAvailIndex)) = notifying.availIndex)

Raise == interrupt' = TRUE

RaiseInterrupt ==
  /\ InStep("raise")
  /\ Raise
  /\ lastAvailIndex' = Inc(lastAvailIndex)
  /\ notifying' = [notifying EXCEPT !.step = "loop"]
  /\ UNCHANGED <<state, avail, used, chain, data, disk, driverVars>>

NotifyEnd ==
  /\ InStep("loop") /\ lastAvailIndex = notifying.availIndex
  /\ notifying' = <<>>
  /\ UNCHANGED <<deviceVars, avail, used, chain, data, disk, driverVars>>

-----------------------------------------------------------------------------
(* The driver.                                                              *)

Submit(d, r) ==
  /\ phase = "run" /\ d \in free
  /\ free' = free \ {d}
  /\ chain' = [chain EXCEPT ![d] = r]
  /\ avail' = [idx |-> Inc(avail.idx), ring |-> [avail.ring EXCEPT ![avail.idx % NUM] = d]]
  /\ UNCHANGED <<deviceVars, used, data, disk, notifying, phase, written, lastUsed, handler>>

(* The PLIC's scan clears the flag, then the driver's handler runs.         *)
TakeInterrupt ==
  /\ interrupt /\ ~handler
  /\ interrupt' = FALSE /\ handler' = TRUE
  /\ UNCHANGED <<state, lastAvailIndex, avail, used, chain, data, disk,
                 notifying, phase, written, free, lastUsed>>

Collect ==
  /\ handler /\ lastUsed # used.idx
  /\ free' = free \cup {used.ring[lastUsed % NUM]}
  /\ lastUsed' = Inc(lastUsed)
  /\ UNCHANGED <<deviceVars, avail, used, chain, data, disk, notifying,
                 phase, written, handler>>

HandlerEnd ==
  /\ handler /\ lastUsed = used.idx
  /\ handler' = FALSE
  /\ UNCHANGED <<deviceVars, avail, used, chain, data, disk, notifying,
                 phase, written, free, lastUsed>>

-----------------------------------------------------------------------------

Device == HandleRequest \/ virtio_handle_done \/ RaiseInterrupt \/ NotifyEnd

Handler == TakeInterrupt \/ Collect \/ HandlerEnd

Next ==
  \/ Device \/ Handler \/ NotifyBegin \/ reset
  \/ \E bits \in SUBSET StatusBits \ {{}} : write_status(bits)
  \/ \E d \in Descs, r \in Requests : Submit(d, r)

(* A hart in notify_queue goes on; the driver notifies after it has made a  *)
(* request available, and its interrupts are taken.                         *)
Fairness ==
  /\ WF_vars(Device) /\ WF_vars(Handler)
  /\ WF_vars(NotifyBegin /\ lastAvailIndex # avail.idx)

Spec == Init /\ [][Next]_vars /\ Fairness

-----------------------------------------------------------------------------

VirtIOTypeOK ==
  /\ state \in 1 .. Len(States)
  /\ lastAvailIndex \in Index /\ lastUsed \in Index
  /\ avail \in [idx : Index, ring : [Descs -> Descs]]
  /\ used \in [idx : Index, ring : [Descs -> Descs]]
  /\ chain \in [Descs -> Requests] /\ data \in [Descs -> Values]
  /\ disk \in [Sectors -> Values]
  /\ phase \in {"off", "setup", "run"} /\ written \subseteq StatusBits
  /\ free \subseteq Descs

(* The device never shows a status bit the driver has not written since the *)
(* reset: write_status' cases stop at the first bit that is missing.        *)
StatusWasWritten == phase # "off" => read_status \subseteq written

(* Elements of a ring from one index to another.                            *)
Between(first, last, ring) ==
  [i \in 1 .. (last - first) % 2 ^ INDEX_BITS |-> ring[((first + i - 1) % 2 ^ INDEX_BITS) % NUM]]

Queue ==
  LET next == IF InStep("done") \/ InStep("raise") THEN Inc(lastAvailIndex) ELSE lastAvailIndex
      descs == Between(next, avail.idx, avail.ring)
  IN [i \in DOMAIN descs |-> [desc |-> descs[i], request |-> chain[descs[i]]]]

Taken == IF InStep("done") THEN <<notifying.desc>> ELSE <<>>

(* The rings, whose indices wrap, carry each request once and in order,     *)
(* whatever other harts submit and collect while notify_queue runs.         *)
Promise == INSTANCE BlockQueue WITH
  Disks <- [Sectors -> Values], Datas <- Values,
  Reads <- blk_read, Writes <- blk_write,
  queue <- Queue, taken <- Taken, answers <- Between(lastUsed, used.idx, used.ring)

ImplementsBlockQueue == Promise!Spec

(* Every request the device answers is collected, unless the driver resets: *)
(* none waits for an interrupt that was cleared by another's.               *)
EveryAnswerIsCollected ==
  \A d \in Descs :
    (d \notin free /\ IsAnswered(chain[d])) ~> (d \in free)

=============================================================================
