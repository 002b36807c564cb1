---------------------------- MODULE Translation ----------------------------
(***************************************************************************)
(* Address translation of the harts (memory.cpp, pte.hpp, addr.hpp), their *)
(* TLBs and instruction caches (icache.cpp, fence.cpp, execute) over one   *)
(* memory, with the steps that must empty them: traps, xRET, writes of     *)
(* satp, fences and reset.                                                 *)
(*                                                                         *)
(* A page is its number; each page of code holds one instruction, of which *)
(* the version matters: a store to the page makes a new one.  A walk reads *)
(* one entry per step, so stores of other harts fall in between.  An       *)
(* instruction that straddles two pages is left out.                       *)
(***************************************************************************)
EXTENDS Integers, FiniteSets

CONSTANTS Harts,
          LEVELS, VPNBITS,
          TLB_SET_BITS, ICACHE_SET_BITS,
          Tables,             (* frames that hold page tables               *)
          Vpns,               (* virtual page numbers in use                *)
          Roots,              (* tables satp may name                       *)
          Bare,               (* satp.mode is BARE                          *)
          PAGE_FAULT, ACCESS_FAULT,
          InitMem,            (* page tables at the start                   *)
          GuestPtes,          (* <<address, entry>> the guest may write     *)
          CodePages,          (* pages the guest stores code to             *)
          MaxWrites, MaxStores, MaxResets   (* bounds                       *)

(* What the provers do not know of powers of two is stated with the shape.  *)
ASSUME ShapeAssumption ==
  /\ LEVELS \in Nat \ {0} /\ VPNBITS \in Nat \ {0} /\ 2 ^ VPNBITS \in Nat \ {0}
  /\ \A level \in 0 .. LEVELS - 1 : 2 ^ (VPNBITS * level) \in Nat \ {0}
ASSUME CacheAssumption ==
  /\ TLB_SET_BITS \in Nat /\ 2 ^ TLB_SET_BITS \in Nat \ {0}
  /\ ICACHE_SET_BITS \in Nat /\ 2 ^ ICACHE_SET_BITS \in Nat \ {0}
  /\ Vpns \subseteq Nat
ASSUME BoundAssumption == MaxWrites \in Nat /\ MaxStores \in Nat /\ MaxResets \in Nat
ASSUME RootAssumption == Roots \subseteq Tables /\ Bare \notin Tables

USER == 0
SUPERVISOR == 1
MACHINE == 3

(* MemType: the permissions an access asks for.                             *)
LOAD == {"R"}
STORE == {"W"}
FETCH == {"X"}
AMO == LOAD \cup STORE
DontCare == {}

Span(level) == 2 ^ (VPNBITS * level)
vpn_index(vpn, level) == (vpn \div Span(level)) % 2 ^ VPNBITS
PteAddrs == Tables \X (0 .. 2 ^ VPNBITS - 1)

(* Page-table entries; G and the bits for software have no part here.       *)
PteBits == {"V", "R", "W", "X", "U", "A", "D"}
Ptes == [flag : SUBSET PteBits, ppn : Nat]

IsLeaf(pte) == pte.flag \cap {"R", "X"} # {}

Reserved(pte) == "R" \notin pte.flag /\ "W" \in pte.flag

IsPointer(pte) == "V" \in pte.flag /\ ~Reserved(pte) /\ ~IsLeaf(pte)

(* The guest keeps its tables in layers, without a pointer in the last one: *)
(* behind such a pointer vaddr_translate_sv runs into std::unreachable.     *)
PointsDown(layer, p, pte) ==
  IsPointer(pte) => /\ layer[p[1]] # 0
                    /\ pte.ppn \in Tables => layer[pte.ppn] = layer[p[1]] - 1

IsLayer(layer) ==
  /\ layer \in [Tables -> 0 .. LEVELS - 1]
  /\ \A table \in Roots : layer[table] = LEVELS - 1
  /\ \A p \in PteAddrs : PointsDown(layer, p, InitMem[p])
  /\ \A w \in GuestPtes : PointsDown(layer, w[1], w[2])

ASSUME GuestAssumption ==
  /\ InitMem \in [PteAddrs -> Ptes] /\ GuestPtes \subseteq PteAddrs \X Ptes
  /\ \E layer \in [Tables -> 0 .. LEVELS - 1] : IsLayer(layer)

tlb_set(vpn) == vpn % 2 ^ TLB_SET_BITS
TlbSets == 0 .. 2 ^ TLB_SET_BITS - 1
icache_set(vpn) == vpn % 2 ^ ICACHE_SET_BITS
IcacheSets == 0 .. 2 ^ ICACHE_SET_BITS - 1

(* No entry, no instruction, no walk.                                       *)
None == {}

VARIABLES
  mem,         (* page-table entries: flag (a set of bits) and ppn          *)
  code,        (* version of the instruction in each page                   *)
  mode, sum,
  satp,
  root,        (* pageTableBase and vaddr_translate_func                    *)
  tlb, icache,
  walk,        (* the translation under way                                 *)
  current,     (* the instruction being executed                            *)
  res,         (* the translation just made                                 *)
  writes, resets,
  seen,        (* history: entries since the hart's last TLB fence          *)
  codeFloor    (* history: versions at the hart's last icache fence         *)

csrVars == <<mode, sum, satp, root>>
memVars == <<mem, code>>
bounds == <<writes, resets>>
vars == <<mem, code, mode, sum, satp, root, tlb, icache, walk, current, res,
          writes, resets, seen, codeFloor>>

Perm(pte) == [pte EXCEPT !.flag = @ \ {"A", "D"}]
Visible == [p \in PteAddrs |-> Perm(mem[p])]

NoTlb == [s \in TlbSets |-> None]
NoIcache == [s \in IcacheSets |-> None]

Init ==
  /\ mem = InitMem
  /\ code = [page \in CodePages |-> 0]
  /\ mode = [h \in Harts |-> MACHINE]
  /\ sum = [h \in Harts |-> FALSE]
  /\ satp = [h \in Harts |-> Bare]
  /\ root = [h \in Harts |-> Bare]
  /\ tlb = [h \in Harts |-> NoTlb]
  /\ icache = [h \in Harts |-> NoIcache]
  /\ walk = [h \in Harts |-> None]
  /\ current = [h \in Harts |-> None]
  /\ res = [h \in Harts |-> None]
  /\ writes = 0 /\ resets = 0
  /\ seen = [h \in Harts |-> [p \in PteAddrs |-> {Visible[p]}]]
  /\ codeFloor = [h \in Harts |-> code]

Version(page) == IF page \in CodePages THEN code[page] ELSE 0

-----------------------------------------------------------------------------
(* What a hart has seen: everything since it last emptied its TLB.          *)

SeenAfter(fencing) ==
  seen' = [g \in Harts |->
             [p \in PteAddrs |-> {Visible'[p]} \cup
                                 IF g \in fencing THEN {} ELSE seen[g][p]]]

(* A step that empties neither cache of any hart.                           *)
NoFence == SeenAfter({}) /\ UNCHANGED codeFloor

-----------------------------------------------------------------------------
(* The caches.                                                              *)

(* Mutant: the entries stay.                                                *)
tlb_fence_forgotten(h) == tlb[h]

tlb_fence(h) == NoTlb

tlb_hit(h, vpn) == {b \in tlb[h][tlb_set(vpn)] : b.vpn = vpn}

(* The block that makes room writes its flags to its entry's first byte.    *)
evict(h, vpn, pteAddr) ==
  mem' = [p \in DOMAIN mem |->
            LET old == {b \in tlb[h][tlb_set(vpn)] : b.pteAddr = p}
            IN IF old = {} THEN mem[p]
               ELSE [mem[p] EXCEPT !.flag = UNION {b.flag : b \in old}]]

(* Mutant: the set is that of the physical page.                            *)
tlb_push_by_page(h, vpn, page, pteAddr, flag) ==
  /\ evict(h, vpn, pteAddr)
  /\ tlb' = [tlb EXCEPT ![h][tlb_set(page)] =
               {[vpn |-> vpn, page |-> page, pteAddr |-> pteAddr, flag |-> flag]}]

tlb_push(h, vpn, page, pteAddr, flag) ==
  /\ evict(h, vpn, pteAddr)
  /\ tlb' = [tlb EXCEPT ![h][tlb_set(vpn)] =
               {[vpn |-> vpn, page |-> page, pteAddr |-> pteAddr, flag |-> flag]}]

(* Mutant: the blocks stay.                                                 *)
icache_fence_forgotten(h) == icache[h]

icache_fence(h) == NoIcache

icache_hit(h, vpn) == {b \in icache[h][icache_set(vpn)] : b.vpn = vpn}

(* The instruction enters the cache only now that it has executed, unless   *)
(* it came from there; origin tells the one that has just emptied it.       *)
icache_push(h, cache, origin) ==
  {[cache EXCEPT ![icache_set(c.vpn)] =
      IF c.cached THEN @
      ELSE {[vpn |-> c.vpn, page |-> c.page, version |-> c.version,
             origin |-> origin]}] : c \in current[h]}

(* The instruction ends without a trap.                                     *)
Completes(h, cache, origin) ==
  /\ icache' \in {[icache EXCEPT ![h] = ic] : ic \in icache_push(h, cache, origin)}
  /\ current' = [current EXCEPT ![h] = None]

CompletesPlainly(h) == Completes(h, icache[h], "fetched")

-----------------------------------------------------------------------------
(* Changes of the address space: both caches are emptied.                   *)

update_vm_translate(h, m, s) ==
  /\ root' = [root EXCEPT ![h] = IF m = MACHINE THEN Bare ELSE s]
  /\ tlb' = [tlb EXCEPT ![h] = tlb_fence(h)]
  /\ SeenAfter({h})
  /\ codeFloor' = [codeFloor EXCEPT ![h] = code]

set_priv_mode(h, m) ==
  /\ mode' = [mode EXCEPT ![h] = m]
  /\ update_vm_translate(h, m, satp[h])
  /\ UNCHANGED <<sum, satp>>

(* enter_trap, interrupt_m and interrupt_s: medeleg and mideleg, which are  *)
(* the guest's, choose the mode; an exception of M-mode may be delegated    *)
(* too.  The instruction does not enter the cache.                          *)
Traps(h) ==
  /\ \E m \in {SUPERVISOR, MACHINE} : set_priv_mode(h, m)
  /\ icache' = [icache EXCEPT ![h] = icache_fence(h)]
  /\ current' = [current EXCEPT ![h] = None]
  /\ walk' = [walk EXCEPT ![h] = None]

-----------------------------------------------------------------------------
(* Translation.                                                             *)

Answers(h, vpn, type, out) ==
  res' = [res EXCEPT ![h] = {[vpn |-> vpn, type |-> type, out |-> out]}]

(* The access goes on: a fetched instruction is executed, a load, store or  *)
(* AMO completes, the debugger has its answer.                              *)
Arrives(h, vpn, type, page) ==
  /\ Answers(h, vpn, type, page)
  /\ walk' = [walk EXCEPT ![h] = None]
  /\ CASE type = FETCH ->
            /\ current' = [current EXCEPT ![h] =
                 {[vpn |-> vpn, page |-> page, version |-> Version(page),
                   cached |-> FALSE]}]
            /\ UNCHANGED icache
       [] type = DontCare -> UNCHANGED <<icache, current>>
       [] OTHER -> CompletesPlainly(h)
  /\ NoFence
  /\ UNCHANGED csrVars

(* The fault is thrown and trapped, or told to the debugger.                *)
Faults(h, vpn, type, fault) ==
  /\ UNCHANGED mem
  /\ Answers(h, vpn, type, fault)
  /\ IF type = DontCare
     THEN /\ walk' = [walk EXCEPT ![h] = None]
          /\ NoFence
          /\ UNCHANGED <<tlb, icache, current, csrVars>>
     ELSE Traps(h)

HitAllows(h, b, type) ==
  /\ type \subseteq b.flag
  /\ IF "U" \in b.flag THEN mode[h] = USER \/ sum[h] ELSE mode[h] = SUPERVISOR

TlbAnswers(h, vpn, type) ==
  \E b \in tlb_hit(h, vpn) :
    IF HitAllows(h, b, type)
    THEN /\ UNCHANGED mem
         /\ tlb' = [tlb EXCEPT ![h][tlb_set(vpn)] =
               {[b EXCEPT !.flag = @ \cup {"A"} \cup IF STORE \subseteq type THEN {"D"} ELSE {}]}]
         /\ Arrives(h, vpn, type, b.page)
    ELSE Faults(h, vpn, type, PAGE_FAULT)

BareAnswers(h, vpn, type) ==
  /\ root[h] = Bare
  /\ UNCHANGED <<mem, tlb>>
  /\ Arrives(h, vpn, type, vpn)

StartWalk(h, vpn, type) ==
  /\ root[h] # Bare
  /\ walk' = [walk EXCEPT ![h] = {[vpn |-> vpn, type |-> type,
                                   level |-> LEVELS - 1, base |-> root[h]]}]
  /\ res' = [res EXCEPT ![h] = None]
  /\ UNCHANGED <<mem, tlb, icache, current, csrVars>>
  /\ NoFence

vaddr_translate_core(h, vpn, type) ==
  /\ IF tlb_hit(h, vpn) # None THEN TlbAnswers(h, vpn, type)
     ELSE BareAnswers(h, vpn, type) \/ StartWalk(h, vpn, type)
  /\ UNCHANGED <<code, bounds>>

LeafAllows(h, pte, w) ==
  /\ pte.ppn % Span(w.level) = 0
  /\ IF "U" \in pte.flag THEN mode[h] = USER \/ sum[h] ELSE mode[h] # USER
  /\ w.type \subseteq pte.flag

(* One turn of vaddr_translate_sv's loop.                                   *)
vaddr_translate_sv(h) ==
  /\ \E w \in walk[h] :
       LET pteAddr == <<w.base, vpn_index(w.vpn, w.level)>>
           pte == mem[pteAddr]
           page == pte.ppn + (w.vpn % Span(w.level))
       IN IF w.base \notin Tables THEN Faults(h, w.vpn, w.type, ACCESS_FAULT)
          ELSE IF "V" \notin pte.flag \/ Reserved(pte)
          THEN Faults(h, w.vpn, w.type, PAGE_FAULT)
          ELSE IF ~IsLeaf(pte)
          THEN /\ UNCHANGED <<mem, tlb, icache, current, res, csrVars>>
               /\ walk' = [walk EXCEPT ![h] =
                     {[w EXCEPT !.level = @ - 1, !.base = pte.ppn]}]
               /\ NoFence
          ELSE IF LeafAllows(h, pte, w)
          THEN /\ tlb_push(h, w.vpn, page, pteAddr, pte.flag)
               /\ Arrives(h, w.vpn, w.type, page)
          ELSE Faults(h, w.vpn, w.type, PAGE_FAULT)
  /\ UNCHANGED <<code, bounds>>

-----------------------------------------------------------------------------
(* Instructions of a hart.                                                  *)

Idle(h) == current[h] = None /\ walk[h] = None
Executes(h) == current[h] # None /\ walk[h] = None

Forget(h) == res' = [res EXCEPT ![h] = None]

(* execute: an instruction comes from the cache, from the physical page in  *)
(* M-mode, or through translation.                                          *)
FetchCached(h, vpn) ==
  /\ Idle(h)
  /\ \E b \in icache_hit(h, vpn) :
       current' = [current EXCEPT ![h] =
         {[vpn |-> vpn, page |-> b.page, version |-> b.version, cached |-> TRUE]}]
  /\ UNCHANGED <<memVars, csrVars, tlb, icache, walk, bounds>>
  /\ Forget(h) /\ NoFence

pm_fetch(h, vpn) ==
  /\ Idle(h) /\ icache_hit(h, vpn) = None
  /\ mode[h] = MACHINE
  /\ current' = [current EXCEPT ![h] =
       {[vpn |-> vpn, page |-> vpn, version |-> Version(vpn), cached |-> FALSE]}]
  /\ UNCHANGED <<memVars, csrVars, tlb, icache, walk, bounds>>
  /\ Forget(h) /\ NoFence

vm_fetch(h, vpn) ==
  /\ Idle(h) /\ icache_hit(h, vpn) = None
  /\ mode[h] # MACHINE
  /\ vaddr_translate_core(h, vpn, FETCH)

(* vm_read, vm_write and amo_vaddr_translate_and_set_trap.                  *)
DataAccess(h, vpn, type) ==
  /\ Executes(h) /\ mode[h] # MACHINE
  /\ vaddr_translate_core(h, vpn, type)

(* An instruction that changes nothing here.                                *)
Plain(h) ==
  /\ Executes(h)
  /\ CompletesPlainly(h)
  /\ UNCHANGED <<memVars, csrVars, tlb, walk, bounds>>
  /\ Forget(h) /\ NoFence

(* An exception, or an interrupt between two instructions.                  *)
TakeTrap(h) ==
  /\ walk[h] = None
  /\ UNCHANGED <<memVars, bounds>>
  /\ Traps(h)
  /\ Forget(h)

(* MRET and SRET.                                                           *)
Return(h, m) ==
  /\ Executes(h) /\ mode[h] # USER
  /\ m <= mode[h]
  /\ UNCHANGED <<memVars, walk, bounds>>
  /\ set_priv_mode(h, m)
  /\ Completes(h, icache_fence(h), "fencer")
  /\ Forget(h)

write_satp(h, s) ==
  /\ Executes(h) /\ mode[h] # USER
  /\ satp' = [satp EXCEPT ![h] = s]
  /\ UNCHANGED <<memVars, mode, sum, walk, bounds>>
  /\ update_vm_translate(h, mode[h], s)
  /\ Completes(h, icache_fence(h), "fencer")
  /\ Forget(h)

write_sum(h) ==
  /\ Executes(h) /\ mode[h] # USER
  /\ sum' = [sum EXCEPT ![h] = ~@]
  /\ CompletesPlainly(h)
  /\ UNCHANGED <<memVars, mode, satp, root, tlb, walk, bounds>>
  /\ Forget(h) /\ NoFence

(* In U-mode SFENCE.VMA is an invalid instruction: TakeTrap.                *)
do_sfence_vma(h) ==
  /\ Executes(h) /\ mode[h] # USER
  /\ tlb' = [tlb EXCEPT ![h] = tlb_fence(h)]
  /\ UNCHANGED <<memVars, csrVars, walk, bounds>>
  /\ SeenAfter({h})
  /\ Completes(h, icache_fence(h), "fencer")
  /\ codeFloor' = [codeFloor EXCEPT ![h] = code]
  /\ Forget(h)

(* FENCE and FENCE.I.                                                       *)
do_fence(h) ==
  /\ Executes(h)
  /\ Completes(h, icache_fence(h), "fencer")
  /\ codeFloor' = [codeFloor EXCEPT ![h] = code]
  /\ UNCHANGED <<memVars, csrVars, tlb, walk, bounds>>
  /\ SeenAfter({})
  /\ Forget(h)

(* The guest, on any hart, stores a page-table entry.                       *)
StorePte(p, pte) ==
  /\ writes < MaxWrites /\ writes' = writes + 1
  /\ mem' = [mem EXCEPT ![p] = pte]
  /\ NoFence
  /\ UNCHANGED <<code, csrVars, tlb, icache, walk, current, res, resets>>

(* The guest, on any hart, stores code.                                     *)
StoreCode(page) ==
  /\ code[page] < MaxStores
  /\ code' = [code EXCEPT ![page] = @ + 1]
  /\ UNCHANGED <<mem, csrVars, tlb, icache, walk, current, res, bounds>>
  /\ NoFence

-----------------------------------------------------------------------------
(* The debugger, while the hart is stopped.                                 *)

Inspect(h, vpn) == Idle(h) /\ vaddr_translate_core(h, vpn, DontCare)

(* RVCore::reset: the copy of SUM and the root stay, and so does the        *)
(* instruction cache: its fence is compiled under a misspelt macro.         *)
reset(h) ==
  /\ Idle(h)
  /\ resets < MaxResets /\ resets' = resets + 1
  /\ mode' = [mode EXCEPT ![h] = MACHINE]
  /\ satp' = [satp EXCEPT ![h] = Bare]
  /\ tlb' = [tlb EXCEPT ![h] = tlb_fence(h)]
  /\ UNCHANGED <<memVars, sum, root, walk, current, writes>>
  /\ SeenAfter({h})
  /\ icache' = [icache EXCEPT ![h] =
       [s \in IcacheSets |-> {[b EXCEPT !.origin = "beforeReset"] : b \in icache[h][s]}]]
  /\ codeFloor' = [codeFloor EXCEPT ![h] = code]
  /\ Forget(h)

-----------------------------------------------------------------------------

Hart(h) ==
  \/ \E vpn \in Vpns :
       \/ FetchCached(h, vpn) \/ pm_fetch(h, vpn) \/ vm_fetch(h, vpn)
       \/ \E type \in {LOAD, STORE, AMO} : DataAccess(h, vpn, type)
  \/ vaddr_translate_sv(h)
  \/ Plain(h) \/ TakeTrap(h)
  \/ \E m \in {USER, SUPERVISOR, MACHINE} : Return(h, m)
  \/ \E s \in Roots \cup {Bare} : write_satp(h, s)
  \/ write_sum(h) \/ do_sfence_vma(h) \/ do_fence(h)

Guest ==
  \/ \E w \in GuestPtes : StorePte(w[1], w[2])
  \/ \E page \in CodePages : StoreCode(page)

Debugger == \E h \in Harts : reset(h) \/ \E vpn \in Vpns : Inspect(h, vpn)

Next == (\E h \in Harts : Hart(h)) \/ Guest \/ Debugger

Spec == Init /\ [][Next]_vars

-----------------------------------------------------------------------------

TranslationTypeOK ==
  /\ mode \in [Harts -> {USER, SUPERVISOR, MACHINE}]
  /\ sum \in [Harts -> BOOLEAN]
  /\ satp \in [Harts -> Roots \cup {Bare}]
  /\ root \in [Harts -> Roots \cup {Bare}]
  /\ \A h \in Harts :
       /\ \A s \in TlbSets : \A b \in tlb[h][s] : tlb[h][s] = {b} /\ tlb_set(b.vpn) = s
       /\ \A s \in IcacheSets : \A b \in icache[h][s] :
            icache[h][s] = {b} /\ icache_set(b.vpn) = s
       /\ \A w \in walk[h] : walk[h] = {w} /\ w.level \in 0 .. LEVELS - 1
       /\ \A c \in current[h] : current[h] = {c} /\ c.vpn \in Vpns

(* Translations, hits of the TLB among them, use entries as they have been  *)
(* since the hart's last fence; the evictions only bring back flags of that *)
(* time.  See VirtualMemory.                                                *)
Promise == INSTANCE VirtualMemory WITH mem <- Visible

ImplementsVirtualMemory == Promise!Spec

(* Pages a fetch from vpn may have used since the last fence, whatever SUM  *)
(* was at the time.                                                         *)
FetchPages(h, vpn) ==
  IF mode[h] = MACHINE THEN {vpn}
  ELSE UNION {Promise!Outcomes([Promise!View(h) EXCEPT !.sum = s], vpn, FETCH) : s \in BOOLEAN}

IsFresh(h, b) ==
  /\ b.page \in FetchPages(h, b.vpn)
  /\ b.page \in CodePages => b.version >= codeFloor[h][b.page]

(* An instruction that runs from the cache is one a fetch could have        *)
(* returned since the hart last emptied the cache, in the mode and address  *)
(* space it is in now.  The exceptions are the instruction that emptied the *)
(* cache last, at most one, and what a reset left.                          *)
CachedCodeIsFresh ==
  \A h \in Harts :
    LET blocks == UNION {icache[h][s] : s \in IcacheSets}
    IN /\ \A b \in blocks : b.origin = "fetched" => IsFresh(h, b)
       /\ Cardinality({b \in blocks : b.origin = "fencer"}) <= 1

=============================================================================
