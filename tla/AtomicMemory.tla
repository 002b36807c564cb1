---------------------------- MODULE AtomicMemory ----------------------------
(***************************************************************************)
(* What the memory promises harts that synchronise with LR/SC and AMOs: an *)
(* SC stores, and says so, exactly when its word has not changed since the *)
(* hart's LR; an AMO reads and writes in one step.  LrSc implements this.  *)
(***************************************************************************)
CONSTANTS Harts, Words, Values, SUCCESS, FAILURE, Fault,
          DeviceValues   (* what an LR of a device returns                   *)

VARIABLES
  mem,
  link,      (* the word the hart's reservation holds for, if any           *)
  dest       (* what the hart's last instruction returned                   *)

vars == <<mem, link, dest>>

Init ==
  /\ mem \in [Words -> Values]
  /\ link = [h \in Harts |-> {}]
  /\ dest = [h \in Harts |-> Fault]

(* A word changes: the reservations for it end.                             *)
Stores(a, v) == mem' = [mem EXCEPT ![a] = v]

Kept(g, a) == link'[g] = IF mem'[a] = mem[a] THEN link[g] ELSE link[g] \ {a}
OthersKept(h, a) == \A g \in Harts \ {h} : Kept(g, a)

Returns(h, v) == dest' = [dest EXCEPT ![h] = v]

Load(h, a) == Returns(h, mem[a]) /\ UNCHANGED <<mem, link>>

Store(h, a, v) ==
  /\ Stores(a, v)
  /\ \A g \in Harts : Kept(g, a)
  /\ UNCHANGED dest

ReadModifyWrite(h, a, v) ==
  /\ Stores(a, v)
  /\ \A g \in Harts : Kept(g, a)
  /\ Returns(h, mem[a])

LoadReserved(h, a) ==
  /\ link' = [link EXCEPT ![h] = {a}]
  /\ Returns(h, mem[a])
  /\ UNCHANGED mem

StoreConditional(h, a, v) ==
  /\ IF a \in link[h] THEN Stores(a, v) /\ Returns(h, SUCCESS)
     ELSE UNCHANGED mem /\ Returns(h, FAILURE)
  /\ link'[h] = {}
  /\ OthersKept(h, a)

(* A fault, an access to a device, a reset, an LR given up.                 *)
OtherInstruction(h) ==
  /\ \/ dest' = dest \/ Returns(h, Fault)
     \/ link'[h] = {} /\ \E v \in DeviceValues : Returns(h, v)
  /\ link' = link \/ link' = [link EXCEPT ![h] = {}]
  /\ UNCHANGED mem

HartStep(h) ==
  \/ OtherInstruction(h)
  \/ \E a \in Words :
       \/ Load(h, a) \/ LoadReserved(h, a)
       \/ \E v \in Values :
            Store(h, a, v) \/ ReadModifyWrite(h, a, v) \/ StoreConditional(h, a, v)

Next == \E h \in Harts : HartStep(h)

Spec == Init /\ [][Next]_vars

=============================================================================
