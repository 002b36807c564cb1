----------------------------- MODULE LrScProofs -----------------------------
(* Proofs about LrSc: its type invariant, and that it implements             *)
(* AtomicMemory for any harts, memory, devices and width.                    *)
EXTENDS LrSc, TLAPS

(* What an AMO stores is a word.                                             *)
LEMMA AmoIsAWord ==
  ASSUME NEW op \in Operations, NEW old \in Values, NEW data \in Values
  PROVE  AMO(op, old, data) \in Values
<1>1. Add(old, data) \in Values
  BY DEF Add, Values
<1>2. Xor(old, data) \in Values
  BY DEF Xor, Values
<1>3. old \cap data \in Values /\ old \cup data \in Values
  BY DEF Values
<1> QED
  BY <1>1, <1>2, <1>3 DEF AMO, Operations

(* The steps keep every variable's type: a reservation the guest relies on   *)
(* is in its hart's map (do_load_reserved enters it, only an SC erases it).  *)
THEOREM LrScTypes == Spec => []LrScTypeOK
<1>1. Init => LrScTypeOK
  BY DEF Init, LrScTypeOK, Reserved, Awaits
<1>2. LrScTypeOK /\ [Next]_vars => LrScTypeOK'
  <2> SUFFICES ASSUME LrScTypeOK, [Next]_vars PROVE LrScTypeOK'
    OBVIOUS
  <2> USE DEF LrScTypeOK, Reserved, Awaits, Returns
  <2>1. CASE UNCHANGED vars
    BY <2>1 DEF vars
  <2>2. ASSUME NEW h \in Harts, AmoFaults(h) \/ Abandon(h) \/ reset(h) PROVE LrScTypeOK'
    BY <2>2 DEF AmoFaults, Abandon, reset
  <2>3. ASSUME NEW h \in Harts, NEW a \in Words, Load(h, a) PROVE LrScTypeOK'
    BY <2>3 DEF Load
  <2>4. ASSUME NEW h \in Harts, NEW a \in Words, NEW v \in Values, Store(h, a, v)
        PROVE LrScTypeOK'
    BY <2>4 DEF Store
  <2>5. ASSUME NEW h \in Harts, NEW a \in Words \cup Devices, do_load_reserved(h, a)
        PROVE LrScTypeOK'
    <3>1. PICK v \in IF a \in Words THEN {mem[a]} ELSE DeviceValues :
            /\ Returns(h, v)
            /\ Reserve(h, a, v)
            /\ pending' = [pending EXCEPT ![h] = [b \in {a} |-> v]]
            /\ UNCHANGED mem
      BY <2>5 DEF do_load_reserved
    <3>2. v \in Values
      <4>1. a \in Words => mem[a] \in Values
        OBVIOUS
      <4>2. DeviceValues \subseteq Values
        BY LrScAssumption DEF Values, Bits
      <4> QED
        BY <3>1, <4>1, <4>2
    <3>3. reservedMemory'[h] = [b \in Reserved(h) \cup {a} |-> IF b = a THEN v ELSE reservedMemory[h][b]]
      BY <3>1 DEF Reserve
    <3> QED
      BY <3>1, <3>2, <3>3 DEF Reserve
  <2>6. ASSUME NEW h \in Harts, NEW a \in Words \cup Devices, NEW v \in Values,
               do_store_conditional(h, a, v)
        PROVE LrScTypeOK'
    <3>1. SUCCESS \in Values /\ FAILURE \in Values
      BY LrScAssumption DEF SUCCESS, FAILURE, Values, Bits
    <3>2. CASE UNCHANGED <<mem, reservedMemory>>
      BY <2>6, <3>1, <3>2 DEF do_store_conditional
    <3>3. CASE Erase(h, a)
      <4>1. reservedMemory'[h] = [b \in Reserved(h) \ {a} |-> reservedMemory[h][b]]
        BY <3>3 DEF Erase
      <4>2. \A g \in Harts \ {h} : reservedMemory'[g] = reservedMemory[g]
        BY <3>3 DEF Erase
      <4>3. DOMAIN reservedMemory' = Harts
        BY <3>3 DEF Erase
      <4>4. pending' = [pending EXCEPT ![h] = <<>>]
        BY <2>6 DEF do_store_conditional
      <4>5. mem' \in [Words -> Values] /\ dest' \in [Harts -> {Fault} \cup Values]
        BY <2>6, <3>1 DEF do_store_conditional
      <4>6. ASSUME NEW g \in Harts
            PROVE  /\ Reserved(g)' \subseteq Words \cup Devices
                   /\ \A b \in Reserved(g)' : reservedMemory'[g][b] \in Values
                   /\ Awaits(g)' \subseteq Reserved(g)'
                   /\ \A b, c \in Awaits(g)' : b = c
                   /\ \A b \in Awaits(g)' : pending'[g][b] \in Values
        <5>1. CASE g = h
          BY <4>1, <4>4, <5>1
        <5>2. CASE g # h
          BY <4>2, <4>4, <5>2
        <5> QED
          BY <5>1, <5>2
      <4> QED
        BY <4>3, <4>4, <4>5, <4>6
    <3> QED
      BY <2>6, <3>2, <3>3 DEF do_store_conditional
  <2>7. ASSUME NEW h \in Harts, NEW a \in Words \cup Devices, NEW v \in Values,
               NEW op \in Operations, do_amo_inst(h, op, a, v)
        PROVE LrScTypeOK'
    <3>1. a \in Words => AMO(op, mem[a], v) \in Values
      BY AmoIsAWord
    <3> QED
      BY <2>7, <3>1 DEF do_amo_inst
  <2> QED
    BY <2>1, <2>2, <2>3, <2>4, <2>5, <2>6, <2>7 DEF Next, HartStep
<1> QED
  BY <1>1, <1>2, PTL DEF Spec

(* What an SC will compare with is what the guest's LR returned: no other LR *)
(* of the hart and no SC of another address touches that entry of the map.   *)
Agree == \A h \in Harts : \A a \in Awaits(h) : pending[h][a] = reservedMemory[h][a]

LEMMA ReservationsAgree == Spec => []Agree
<1>1. Init => Agree
  BY DEF Init, Agree, Awaits
<1>2. LrScTypeOK /\ Agree /\ [Next]_vars => Agree'
  <2> SUFFICES ASSUME LrScTypeOK, Agree, [Next]_vars PROVE Agree'
    OBVIOUS
  <2> USE DEF Agree, Awaits
  <2>1. CASE UNCHANGED <<reservedMemory, pending>>
    BY <2>1
  <2>2. ASSUME NEW h \in Harts, UNCHANGED reservedMemory,
               pending' = [pending EXCEPT ![h] = <<>>]
        PROVE Agree'
    BY <2>2 DEF LrScTypeOK
  <2>3. ASSUME NEW h \in Harts, NEW a \in Words \cup Devices, do_load_reserved(h, a)
        PROVE Agree'
    <3>1. PICK v : Reserve(h, a, v) /\ pending' = [pending EXCEPT ![h] = [b \in {a} |-> v]]
      BY <2>3 DEF do_load_reserved
    <3>2. reservedMemory'[h][a] = v /\ \A g \in Harts \ {h} : reservedMemory'[g] = reservedMemory[g]
      BY <3>1 DEF Reserve, LrScTypeOK
    <3> QED
      BY <3>1, <3>2 DEF LrScTypeOK
  <2>4. ASSUME NEW h \in Harts, NEW a \in Words \cup Devices, NEW v \in Values,
               do_store_conditional(h, a, v)
        PROVE Agree'
    <3>1. pending' = [pending EXCEPT ![h] = <<>>]
      BY <2>4 DEF do_store_conditional
    <3>2. \A g \in Harts \ {h} : reservedMemory'[g] = reservedMemory[g]
      BY <2>4 DEF do_store_conditional, Erase, LrScTypeOK
    <3> QED
      BY <3>1, <3>2 DEF LrScTypeOK
  <2>5. ASSUME NEW h \in Harts, HartStep(h) PROVE Agree'
    BY <2>1, <2>2, <2>3, <2>4, <2>5
       DEF HartStep, AmoFaults, Abandon, reset, Load, Store, do_amo_inst
  <2> QED
    BY <2>1, <2>5 DEF Next, vars
<1> QED
  BY <1>1, <1>2, LrScTypes, PTL DEF Spec

-----------------------------------------------------------------------------

(* A store by any hart, under the guest's rule, breaks the reservations of   *)
(* its word and no other, and only if the word changes.                      *)
LEMMA StoreKeeps ==
  ASSUME LrScTypeOK, NEW a \in Words, NEW v \in Values, NEW g \in Harts,
         mem' = [mem EXCEPT ![a] = v],
         NoReturn({g}, a, v),
         pending'[g] = pending[g]
  PROVE  Promise!Kept(g, a)
<1>1. Link[g] = {b \in Awaits(g) \cap Words : mem[b] = pending[g][b]}
  BY DEF Link
<1>2. Link'[g] = {b \in Awaits(g) \cap Words : mem'[b] = pending[g][b]}
  BY DEF Link, Awaits
<1>3. mem'[a] = v /\ \A b \in Words \ {a} : mem'[b] = mem[b]
  BY DEF LrScTypeOK
<1>4. a \in Awaits(g) /\ pending[g][a] = v => mem[a] = v
  BY DEF NoReturn
<1> QED
  BY <1>1, <1>2, <1>3, <1>4 DEF Promise!Kept

(* Each step of a hart is one the abstract memory allows: the reservations   *)
(* that hold are those whose word still has the reserved value.              *)
LEMMA StepImplements ==
  ASSUME LrScTypeOK, Agree, NEW h \in Harts, HartStep(h)
  PROVE  Promise!HartStep(h)
<1> USE DEF Returns, Promise!Returns, Awaits
<1>1. ASSUME pending' = [pending EXCEPT ![h] = <<>>], UNCHANGED <<mem, reservedMemory>>
      PROVE  Link' = [Link EXCEPT ![h] = {}]
  <2>1. DOMAIN pending'[h] = {} /\ \A g \in Harts \ {h} : pending'[g] = pending[g]
    BY <1>1 DEF LrScTypeOK
  <2>2. Link'[h] = {} /\ \A g \in Harts \ {h} : Link'[g] = Link[g]
    BY <1>1, <2>1 DEF Link
  <2> QED
    BY <2>2 DEF Link
<1>2. CASE AmoFaults(h)
  <2>1. Promise!OtherInstruction(h)
    BY <1>1, <1>2 DEF AmoFaults, Promise!OtherInstruction
  <2> QED
    BY <2>1 DEF Promise!HartStep
<1>3. CASE Abandon(h) \/ reset(h)
  <2>1. Promise!OtherInstruction(h)
    BY <1>1, <1>3 DEF Abandon, reset, Promise!OtherInstruction
  <2> QED
    BY <2>1 DEF Promise!HartStep
<1>4. ASSUME NEW a \in Words, Load(h, a) PROVE Promise!HartStep(h)
  <2>1. Link' = Link
    BY <1>4 DEF Load, Link
  <2> QED
    BY <1>4, <2>1 DEF Load, Promise!Load, Promise!HartStep
<1>5. ASSUME NEW a \in Words, NEW v \in Values, Store(h, a, v) PROVE Promise!HartStep(h)
  <2>1. \A g \in Harts : NoReturn({g}, a, v) /\ pending'[g] = pending[g]
    BY <1>5 DEF Store, NoReturn
  <2>2. \A g \in Harts : Promise!Kept(g, a)
    BY <1>5, <2>1, StoreKeeps DEF Store
  <2> QED
    BY <1>5, <2>2 DEF Store, Promise!Store, Promise!Stores, Promise!HartStep
<1>6. ASSUME NEW a \in Words \cup Devices, do_load_reserved(h, a) PROVE Promise!HartStep(h)
  <2>1. PICK v \in IF a \in Words THEN {mem[a]} ELSE DeviceValues :
          /\ Returns(h, v) /\ Reserve(h, a, v)
          /\ pending' = [pending EXCEPT ![h] = [b \in {a} |-> v]] /\ UNCHANGED mem
    BY <1>6 DEF do_load_reserved
  <2>2. /\ reservedMemory'[h][a] = v
        /\ \A g \in Harts \ {h} : reservedMemory'[g] = reservedMemory[g]
    BY <2>1 DEF Reserve, LrScTypeOK
  <2>3. Link' = [Link EXCEPT ![h] = IF a \in Words THEN {a} ELSE {}]
    <3>1. Link'[h] = IF a \in Words THEN {a} ELSE {}
      BY <2>1, <2>2 DEF Link, LrScTypeOK
    <3>2. \A g \in Harts \ {h} : Link'[g] = Link[g]
      BY <2>1, <2>2 DEF Link, LrScTypeOK
    <3> QED
      BY <3>1, <3>2 DEF Link
  <2>4. CASE a \in Words
    BY <2>1, <2>3, <2>4 DEF Promise!LoadReserved, Promise!HartStep
  <2>5. CASE a \notin Words
    <3>1. v \in DeviceValues
      BY <2>1, <2>5, LrScAssumption
    <3>2. Promise!OtherInstruction(h)
      <4>1. Link'[h] = {} /\ dest' = [dest EXCEPT ![h] = v] /\ UNCHANGED mem
        BY <2>1, <2>3, <2>5 DEF Link
      <4> QED
        BY <2>3, <2>5, <3>1, <4>1 DEF Promise!OtherInstruction
    <3> QED
      BY <3>2 DEF Promise!HartStep
  <2> QED
    BY <2>4, <2>5
<1>7. ASSUME NEW a \in Words \cup Devices, NEW v \in Values, do_store_conditional(h, a, v)
      PROVE  Promise!HartStep(h)
  <2>1. a \in Reserved(h)
    BY <1>7 DEF do_store_conditional, LrScTypeOK
  <2>2. CASE a \in Devices
    <3>1. Promise!OtherInstruction(h)
      BY <1>1, <1>7, <2>1, <2>2 DEF do_store_conditional, Promise!OtherInstruction
    <3> QED
      BY <3>1 DEF Promise!HartStep
  <2>3. CASE a \notin Devices
    <3>1. /\ pending' = [pending EXCEPT ![h] = <<>>] /\ NoReturn(Harts \ {h}, a, v)
          /\ Erase(h, a)
          /\ IF mem[a] = reservedMemory[h][a]
             THEN mem' = [mem EXCEPT ![a] = v] /\ Returns(h, SUCCESS)
             ELSE UNCHANGED mem /\ Returns(h, FAILURE)
      BY <1>7, <2>1, <2>3 DEF do_store_conditional
    <3>2. \A g \in Harts \ {h} : pending'[g] = pending[g]
      BY <3>1 DEF Erase, LrScTypeOK
    <3>3. Link'[h] = {}
      BY <3>1 DEF Link, LrScTypeOK
    <3>4. a \in Link[h] <=> mem[a] = reservedMemory[h][a]
      BY <1>7, <2>3 DEF do_store_conditional, Link, Agree
    <3>5. Promise!OthersKept(h, a)
      <4>1. CASE mem' = [mem EXCEPT ![a] = v]
        <5>1. ASSUME NEW g \in Harts \ {h} PROVE Promise!Kept(g, a)
          <6>1. NoReturn({g}, a, v)
            BY <3>1 DEF NoReturn
          <6> QED
            BY <2>3, <3>2, <4>1, <6>1, StoreKeeps
        <5> QED
          BY <5>1 DEF Promise!OthersKept
      <4>2. CASE UNCHANGED mem
        BY <3>2, <4>2 DEF Link, Promise!OthersKept, Promise!Kept
      <4>3. mem' = [mem EXCEPT ![a] = v] \/ UNCHANGED mem
        BY <3>1
      <4> QED
        BY <4>1, <4>2, <4>3
    <3>6. Promise!StoreConditional(h, a, v)
      BY <3>1, <3>3, <3>4, <3>5 DEF Promise!StoreConditional, Promise!Stores
    <3> QED
      BY <2>3, <3>6 DEF Promise!HartStep
  <2> QED
    BY <2>2, <2>3
<1>8. ASSUME NEW a \in Words \cup Devices, NEW data \in Values, NEW op \in Operations,
             do_amo_inst(h, op, a, data)
      PROVE  Promise!HartStep(h)
  <2>1. CASE a \in Devices
    <3>1. Link' = Link
      BY <1>8, <2>1 DEF do_amo_inst, Link
    <3>2. Promise!OtherInstruction(h)
      BY <1>8, <2>1, <3>1 DEF do_amo_inst, Promise!OtherInstruction
    <3> QED
      BY <3>2 DEF Promise!HartStep
  <2>2. CASE a \notin Devices
    <3>1. AMO(op, mem[a], data) \in Values
      BY <2>2, AmoIsAWord DEF LrScTypeOK
    <3>4. \A g \in Harts : NoReturn({g}, a, AMO(op, mem[a], data)) /\ pending'[g] = pending[g]
      BY <1>8, <2>2 DEF do_amo_inst, NoReturn
    <3>2. \A g \in Harts : Promise!Kept(g, a)
      BY <1>8, <2>2, <3>1, <3>4, StoreKeeps DEF do_amo_inst
    <3>3. Promise!ReadModifyWrite(h, a, AMO(op, mem[a], data))
      BY <1>8, <2>2, <3>2 DEF do_amo_inst, Promise!ReadModifyWrite, Promise!Stores
    <3> QED
      BY <2>2, <3>1, <3>3 DEF Promise!HartStep
  <2> QED
    BY <2>1, <2>2
<1> QED
  BY <1>2, <1>3, <1>4, <1>5, <1>6, <1>7, <1>8 DEF HartStep

(* LR, SC and the AMOs of any number of harts implement the atomic memory:   *)
(* what do_store_conditional compares stands for a reservation.              *)
THEOREM LrScImplements == Spec => ImplementsAtomicMemory
<1>1. Init => Promise!Init
  BY DEF Init, Promise!Init, Link, Awaits
<1>2. LrScTypeOK /\ Agree /\ [Next]_vars => [Promise!Next]_(Promise!vars)
  <2> SUFFICES ASSUME LrScTypeOK, Agree, [Next]_vars PROVE [Promise!Next]_(Promise!vars)
    OBVIOUS
  <2>1. CASE UNCHANGED vars
    BY <2>1 DEF vars, Promise!vars, Link, Awaits
  <2>2. CASE Next
    BY <2>2, StepImplements DEF Next, Promise!Next
  <2> QED
    BY <2>1, <2>2
<1> QED
  BY <1>1, <1>2, LrScTypes, ReservationsAgree, PTL DEF Spec, ImplementsAtomicMemory, Promise!Spec
=============================================================================
