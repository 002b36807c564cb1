-------------------------- MODULE ExternalInterrupts --------------------------
(***************************************************************************)
(* The path of an external interrupt: the flag of a device on the bus (the *)
(* receiver of kxemu::device::Uart16650 and the used ring of VirtIOBlock), *)
(* PLIC::scan_and_set_interrupt, the external bit of a hart's mip, the     *)
(* guest's driver, and back through the claim register.                    *)
(*                                                                         *)
(* A hart's thread polls now and then (RVCore::update_device, when it gets *)
(* the device mutex): it updates the bus and scans the devices for the     *)
(* PLIC context of the mode the hart is in.  Guest accesses to device      *)
(* registers take no such mutex and fall between the steps of another      *)
(* hart's poll.  Registers nothing here reads (the PLIC's pending bits,    *)
(* IIR, LCR, the divisor latch) are left out; the races for mip are the    *)
(* subject of AClint.                                                      *)
(***************************************************************************)
EXTENDS Integers, Sequences

CONSTANTS CoreCount,
          Modes,        (* the modes the harts run in, for the PLIC         *)
          Uart, Blk,    (* the UART and the VirtIO block device             *)
          BusOrder,     (* Bus::mmioMaps                                    *)
          None,         (* claim 0, no device                               *)
          Priorities,   (* values the guest writes to priority registers    *)
          Thresholds,   (* and to threshold registers                       *)
          Triggers,     (* receive FIFO trigger levels, 1 to 14 in the code *)
          BufferSize,   (* BUFFER_SIZE, 1024 in the code                    *)
          MaxBytes,     (* bound on the bytes received                      *)
          MaxRequests,  (* bound on the requests to the block device        *)
          MaxWrites,    (* bound on the guest's changes of configuration    *)
          MaxResets     (* bound on RVCPU::reset                            *)

Harts == 0 .. CoreCount - 1
Devices == {Uart, Blk}
Contexts == Harts \X Modes

ASSUME CoreAssumption == CoreCount \in Nat \ {0} /\ Modes \subseteq {"M", "S"}
ASSUME DeviceAssumption ==
  /\ Uart # Blk /\ None \notin Devices
  /\ BusOrder \in Seq(Devices)
ASSUME RegisterAssumption ==
  /\ Priorities \subseteq Nat /\ Thresholds \subseteq Nat
  /\ Triggers \subseteq Nat \ {0}
ASSUME BoundAssumption ==
  /\ BufferSize \in Nat \ {0} /\ MaxBytes \in Nat /\ MaxRequests \in Nat
  /\ MaxWrites \in Nat /\ MaxResets \in Nat

VARIABLES
  fifo,          (* bytes in the UART's queue                              *)
  ready,         (* LSR_RX_READY                                           *)
  ier,           (* IER bit 0                                              *)
  trigger,       (* recvFIFOTriggerByteCount                               *)
  flag,          (* what interrupt_pending returns, per device             *)
  priority, enable, threshold, claim,  (* the PLIC                         *)
  eip,           (* contexts whose external bit is set in their hart's mip *)
  scan,          (* what a hart's poll is doing                            *)
  guest,         (* where the guest is on a hart                           *)
  used, seen,    (* VirtIO: used index, and up to where the driver read it *)
  received, writes, resets,
  announced,     (* history: a byte raised the flag and the FIFO has not   *)
                 (* been empty since                                       *)
  orphaned       (* history: contexts whose claim a reset left behind      *)

uartVars == <<fifo, ready, ier, trigger, received, announced>>
plicVars == <<priority, enable, threshold, claim>>
blkVars == <<used, seen>>
boundVars == <<writes, resets, orphaned>>
vars == <<uartVars, plicVars, blkVars, boundVars, flag, eip, scan, guest>>

Off == [stage |-> "off", mode |-> "S", at |-> 1, priority |-> 0,
        claim |-> None, source |-> None]

Main == [pc |-> "main", irq |-> None, mode |-> "S"]

Init ==
  /\ fifo = 0 /\ ready = FALSE /\ ier = FALSE /\ trigger = 1
  /\ flag = [d \in Devices |-> FALSE]
  /\ priority = [d \in Devices |-> 0]
  /\ enable = [c \in Contexts |-> {}]
  /\ threshold = [c \in Contexts |-> 0]
  /\ claim = [c \in Contexts |-> None]
  /\ eip = {}
  /\ scan = [h \in Harts |-> Off]
  /\ guest = [h \in Harts |-> Main]
  /\ used = 0 /\ seen = 0
  /\ received = 0 /\ writes = 0 /\ resets = 0
  /\ announced = FALSE
  /\ orphaned = {}

-----------------------------------------------------------------------------
(* A poll.  The stages other than "off" hold the device mutex.              *)

Polling(h) == scan[h].stage # "off"

MutexFree == \A h \in Harts : ~Polling(h)

Context(h) == <<h, scan[h].mode>>

(* A handler runs in the mode of its context; the program in any mode.      *)
PollBegin(h, mode) ==
  /\ MutexFree
  /\ guest[h].pc # "main" => mode = guest[h].mode
  /\ scan' = [scan EXCEPT ![h] =
                [Off EXCEPT !.stage = "update", !.mode = mode]]
  /\ UNCHANGED <<uartVars, plicVars, blkVars, boundVars, flag, eip, guest>>

(* Mutant: the first byte is one short of the trigger level.                *)
AboveTrigger(n) == n > trigger

Triggered(n) == n >= trigger

(* Mutant: the limit is passed before it is noticed.                        *)
PastFull == fifo > BufferSize

Full == fifo >= BufferSize

(* Uart16650::update hands over what the socket holds, byte by byte; a full *)
(* queue drops it.                                                          *)
recv_byte(h) ==
  /\ scan[h].stage = "update"
  /\ received < MaxBytes
  /\ received' = received + 1
  /\ \/ /\ Full
        /\ UNCHANGED <<fifo, ready, flag, announced>>
     \/ /\ ~Full
        /\ fifo' = fifo + 1
        /\ ready' = TRUE
        /\ IF Triggered(fifo') /\ ier
           THEN flag' = [flag EXCEPT ![Uart] = TRUE] /\ announced' = TRUE
           ELSE UNCHANGED <<flag, announced>>
  /\ UNCHANGED <<ier, trigger, plicVars, blkVars, boundVars, eip, scan, guest>>

(* A context with a claim is not scanned.                                   *)
ScanBegin(h) ==
  /\ scan[h].stage = "update"
  /\ scan' = [scan EXCEPT ![h] =
                IF claim[Context(h)] # None THEN Off
                ELSE [@ EXCEPT !.stage = "visit",
                               !.priority = threshold[Context(h)]]]
  /\ UNCHANGED <<uartVars, plicVars, blkVars, boundVars, flag, eip, guest>>

Reaches(d, level) == priority[d] >= level

(* Mutant: the first pending device stays the source.                       *)
FirstSource(s, d) == IF flag[d] /\ s.source = None THEN d ELSE s.source

NewSource(s, d) == IF flag[d] THEN d ELSE s.source

(* Whatever is pending becomes the source; it becomes the claim only when   *)
(* it is enabled and its priority suffices.                                 *)
ScanVisit(h) ==
  LET s == scan[h]
      d == BusOrder[s.at]
      claims == d \in enable[Context(h)] /\ Reaches(d, s.priority)
  IN
  /\ s.stage = "visit"
  /\ s.at <= Len(BusOrder)
  /\ scan' = [scan EXCEPT ![h] =
                [s EXCEPT !.at = s.at + 1,
                          !.source = NewSource(s, d),
                          !.claim = IF flag[d] /\ claims THEN d ELSE s.claim,
                          !.priority = IF flag[d] /\ claims THEN priority[d]
                                       ELSE s.priority]]
  /\ UNCHANGED <<uartVars, plicVars, blkVars, boundVars, flag, eip, guest>>

ScanEnd(h) ==
  LET s == scan[h] IN
  /\ s.stage = "visit"
  /\ s.at > Len(BusOrder)
  /\ IF s.claim = None THEN UNCHANGED <<claim, flag, eip>>
     ELSE /\ claim' = [claim EXCEPT ![Context(h)] = s.claim]
          /\ flag' = [flag EXCEPT ![s.source] = FALSE]
          /\ eip' = eip \cup {Context(h)}
  /\ scan' = [scan EXCEPT ![h] = Off]
  /\ UNCHANGED <<uartVars, priority, enable, threshold, blkVars, boundVars,
                 guest>>

scan_and_set_interrupt(h) == ScanBegin(h) \/ ScanVisit(h) \/ ScanEnd(h)

-----------------------------------------------------------------------------
(* The guest sets its devices up, each hart its own contexts.  All sources  *)
(* get the same priority, before any is enabled, and a context enables all  *)
(* or none: the scan lowers the flag of the last pending device, which only *)
(* under these rules is sure to be the one it claims.                       *)

Runs(h) == ~Polling(h)

Configures(h) ==
  /\ Runs(h) /\ guest[h].pc = "main"
  /\ writes < MaxWrites
  /\ writes' = writes + 1

WritePriorities(h, p) ==
  /\ Configures(h)
  /\ \A c \in Contexts : enable[c] = {}
  /\ priority' = [d \in Devices |-> p]
  /\ UNCHANGED <<uartVars, enable, threshold, claim, blkVars, resets, orphaned,
                 flag, eip, scan, guest>>

WriteEnable(h, mode, sources) ==
  /\ Configures(h)
  /\ enable' = [enable EXCEPT ![<<h, mode>>] = sources]
  /\ UNCHANGED <<uartVars, priority, threshold, claim, blkVars, resets,
                 orphaned, flag, eip, scan, guest>>

WriteThreshold(h, mode, t) ==
  /\ Configures(h)
  /\ threshold' = [threshold EXCEPT ![<<h, mode>>] = t]
  /\ UNCHANGED <<uartVars, priority, enable, claim, blkVars, resets, orphaned,
                 flag, eip, scan, guest>>

WriteIer(h, value) ==
  /\ Configures(h)
  /\ ier' = value
  /\ UNCHANGED <<fifo, ready, trigger, received, announced, plicVars, blkVars,
                 resets, orphaned, flag, eip, scan, guest>>

WriteFcr(h, level, clear) ==
  /\ Configures(h)
  /\ trigger' = level
  /\ IF clear THEN fifo' = 0 /\ ready' = FALSE /\ announced' = FALSE
     ELSE UNCHANGED <<fifo, ready, announced>>
  /\ UNCHANGED <<ier, received, plicVars, blkVars, resets, orphaned, flag, eip,
                 scan, guest>>

Configuration(h) ==
  \/ \E p \in Priorities : WritePriorities(h, p)
  \/ \E mode \in Modes, sources \in {{}, Devices} :
       WriteEnable(h, mode, sources)
  \/ \E mode \in Modes, t \in Thresholds : WriteThreshold(h, mode, t)
  \/ \E value \in BOOLEAN : WriteIer(h, value)
  \/ \E level \in Triggers, clear \in BOOLEAN : WriteFcr(h, level, clear)

-----------------------------------------------------------------------------
(* The guest's program and its interrupt handler.                           *)

(* The driver of a device runs on one hart at a time, under its own lock.   *)
DriverFree(d) == \A g \in Harts : guest[g].pc = "handler" => guest[g].irq # d

(* The program waits for a request; notify_queue has served it, written the *)
(* used ring and raised the interrupt when the write returns.               *)
notify_queue(h) ==
  /\ Runs(h) /\ guest[h].pc = "main"
  /\ used < MaxRequests
  /\ used' = used + 1
  /\ flag' = [flag EXCEPT ![Blk] = TRUE]
  /\ UNCHANGED <<uartVars, plicVars, boundVars, seen, eip, scan, guest>>

(* The external interrupt is taken and the claim register read.             *)
TakeInterrupt(h, mode) ==
  /\ Runs(h) /\ guest[h].pc = "main"
  /\ <<h, mode>> \in eip
  /\ DriverFree(claim[<<h, mode>>])
  /\ guest' = [guest EXCEPT ![h] = [pc |-> "handler", mode |-> mode,
                                    irq |-> claim[<<h, mode>>]]]
  /\ UNCHANGED <<uartVars, plicVars, blkVars, boundVars, flag, eip, scan>>

Handles(h, d) == Runs(h) /\ guest[h].pc = "handler" /\ guest[h].irq = d

(* Mutant: LSR is not updated with the last byte.                           *)
StillReady(n) == TRUE

ReadyAfter(n) == n # 0

(* A read of RBR with a byte in the queue.                                  *)
ReadByte(h) ==
  /\ Handles(h, Uart)
  /\ ready /\ fifo # 0
  /\ fifo' = fifo - 1
  /\ ready' = ReadyAfter(fifo')
  /\ announced' = (announced /\ fifo' # 0)
  /\ UNCHANGED <<ier, trigger, received, plicVars, blkVars, boundVars, flag,
                 eip, scan, guest>>

GotoComplete(h) == guest' = [guest EXCEPT ![h].pc = "complete"]

UartHandled(h) ==
  /\ Handles(h, Uart)
  /\ ~ready
  /\ GotoComplete(h)
  /\ UNCHANGED <<uartVars, plicVars, blkVars, boundVars, flag, eip, scan>>

BlkHandled(h) ==
  /\ Handles(h, Blk)
  /\ seen' = used
  /\ GotoComplete(h)
  /\ UNCHANGED <<uartVars, plicVars, boundVars, used, flag, eip, scan>>

(* Mutant: the claim is released, the bit stays.                            *)
CompleteKeepsBit(h) ==
  LET c == <<h, guest[h].mode>> IN
  /\ Runs(h) /\ guest[h].pc = "complete"
  /\ claim' = [claim EXCEPT ![c] = None]
  /\ guest' = [guest EXCEPT ![h] = Main]
  /\ UNCHANGED <<uartVars, priority, enable, threshold, blkVars, boundVars,
                 flag, eip, scan>>

Complete(h) ==
  LET c == <<h, guest[h].mode>> IN
  /\ Runs(h) /\ guest[h].pc = "complete"
  /\ IF claim[c] = guest[h].irq
     THEN claim' = [claim EXCEPT ![c] = None] /\ eip' = eip \ {c}
     ELSE UNCHANGED <<claim, eip>>
  /\ guest' = [guest EXCEPT ![h] = Main]
  /\ UNCHANGED <<uartVars, priority, enable, threshold, blkVars, boundVars,
                 flag, scan>>

Handler(h) ==
  \/ \E mode \in Modes : TakeInterrupt(h, mode)
  \/ ReadByte(h) \/ UartHandled(h) \/ BlkHandled(h)
  \/ Complete(h)

-----------------------------------------------------------------------------
(* KDB: uart puts and reset, while the harts stand still between two        *)
(* instructions.                                                            *)

putch ==
  /\ MutexFree
  /\ received < MaxBytes /\ received' = received + 1
  /\ IF Full THEN UNCHANGED <<fifo, ready>>
     ELSE fifo' = fifo + 1 /\ ready' = TRUE
  /\ UNCHANGED <<ier, trigger, announced, plicVars, blkVars, boundVars, flag,
                 eip, scan, guest>>

(* RVCPU::reset clears mip and leaves the PLIC and the devices alone.       *)
reset ==
  /\ MutexFree
  /\ resets < MaxResets /\ resets' = resets + 1
  /\ eip' = {}
  /\ orphaned' = {c \in Contexts : claim[c] # None}
  /\ guest' = [h \in Harts |-> Main]
  /\ UNCHANGED <<uartVars, plicVars, blkVars, writes, flag, scan>>

-----------------------------------------------------------------------------

Poll(h) == (\E mode \in Modes : PollBegin(h, mode)) \/ recv_byte(h)
           \/ scan_and_set_interrupt(h)

Next ==
  \/ \E h \in Harts : Poll(h) \/ Configuration(h) \/ Handler(h)
                      \/ notify_queue(h)
  \/ putch
  \/ reset

(* Each hart polls in every mode its contexts are for, gets the device      *)
(* mutex in the end, finishes its poll, and lets its handler go on.         *)
Fairness ==
  \A h \in Harts :
    /\ \A mode \in Modes : SF_vars(PollBegin(h, mode))
    /\ WF_vars(scan_and_set_interrupt(h))
    /\ SF_vars(Handler(h))

Spec == Init /\ [][Next]_vars /\ Fairness

-----------------------------------------------------------------------------

Scans == [stage : {"off", "update", "visit"}, mode : {"M", "S"}, at : Nat,
          priority : Nat, claim : Devices \cup {None},
          source : Devices \cup {None}]

Guests == [pc : {"main", "handler", "complete"}, irq : Devices \cup {None},
           mode : {"M", "S"}]

ExtTypeOK ==
  /\ fifo \in 0 .. BufferSize /\ ready \in BOOLEAN /\ ier \in BOOLEAN
  /\ trigger \in Nat \ {0}
  /\ flag \in [Devices -> BOOLEAN]
  /\ priority \in [Devices -> Nat]
  /\ enable \in [Contexts -> SUBSET Devices]
  /\ threshold \in [Contexts -> Nat]
  /\ claim \in [Contexts -> Devices \cup {None}]
  /\ eip \subseteq Contexts
  /\ scan \in [Harts -> Scans]
  /\ guest \in [Harts -> Guests]
  /\ used \in Nat /\ seen \in Nat
  /\ received \in Nat /\ writes \in Nat /\ resets \in Nat
  /\ announced \in BOOLEAN
  /\ orphaned \subseteq Contexts

(* No interrupt is dropped on the way: a device's flag is lowered only by   *)
(* becoming the claim of some context.                                      *)
LoweredFlagsAreClaimed ==
  [][\A d \in Devices :
       flag[d] /\ ~flag'[d]
         => \E c \in Contexts : claim[c] = None /\ claim'[c] = d]_vars

(* A claim and the external bit come and go together, or nobody would read  *)
(* or renew the claim: only a reset parts them.                             *)
ClaimsAreAnnounced ==
  \A c \in Contexts : claim[c] # None <=> c \in eip \cup orphaned

Listening(d) ==
  \E c \in Contexts : d \in enable[c] /\ priority[d] >= threshold[c]

(* A received-data interrupt leads to an empty FIFO and a request to the    *)
(* driver's reading of the used ring, while some context listens.           *)
Unserved(d) == IF d = Uart THEN announced ELSE used # seen

InterruptsAreServed ==
  \A d \in Devices :
    (Unserved(d) /\ Listening(d))
      ~> (~Unserved(d) \/ ~Listening(d) \/ orphaned # {})

=============================================================================
