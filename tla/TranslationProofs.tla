-------------------------- MODULE TranslationProofs --------------------------
(***************************************************************************)
(* Proofs about Translation, for every shape of page tables and caches:    *)
(* its types, that a cached block is code that can still be fetched, and   *)
(* that translation implements VirtualMemory: what a hart translates is    *)
(* what some walk over the entries it may have seen since its last fence   *)
(* gives.                                                                  *)
(*                                                                         *)
(* The invariant IInv says of every hart that each TLB block is a leaf the *)
(* hart may still use for the page (TlbOK), that a walk stands at a base   *)
(* some walk reaches over the entries the hart has seen (WalkOK), that the *)
(* instruction being run is mapped by a fetch (CurrentOK) and that a block *)
(* of the instruction cache is too (IcacheOK).  It needs the guest's       *)
(* tables to be layered (MemOK), what a hart has seen to hold what memory  *)
(* now holds (SeenOK) and no code to be older than what a hart's last      *)
(* fence found (CodeOK).                                                   *)
(***************************************************************************)
EXTENDS Translation, FiniteSetTheorems, WellFoundedInduction, TLAPS

Levels == Promise!Levels
View(h) == Promise!View(h)

(***************************************************************************)
(* Walks over any tables: their levels, and what grows with a view.        *)
(***************************************************************************)
LEMMA LevelsType ==
  /\ Levels = 0 .. LEVELS - 1
  /\ LEVELS - 1 \in Levels
  /\ \A level \in Levels : level # LEVELS - 1 => level + 1 \in Levels
BY ShapeAssumption, SMT DEF Levels, Promise!Levels

(* Every set of levels that is not empty has a highest one.                  *)
LEMMA HighestLevel ==
  ASSUME NEW S \in SUBSET Levels, S # {}
  PROVE  \E m \in S : \A k \in S : k <= m
<1> DEFINE Above(m) == m .. LEVELS - 1
           T == {Above(m) : m \in S}
<1>1. IsFiniteSet(Levels)
  BY FS_Interval, ShapeAssumption, LevelsType
<1>2. IsWellFoundedOn(StrictSubsetOrdering(Levels), SUBSET Levels)
  <2>1. FiniteSubsetsOf(Levels) = SUBSET Levels
    BY <1>1, FS_FiniteSubsetsOfFinite
  <2> QED BY <2>1, FS_StrictSubsetOrderingWellFounded
<1>0. \A m \in S : Above(m) \in SUBSET Levels
  BY LevelsType, SMT
<1>3. T \subseteq SUBSET Levels /\ T # {}
  <2> HIDE DEF Above
  <2> QED BY <1>0
<1>4. \E x \in T : \A y \in T : ~(<<y, x>> \in StrictSubsetOrdering(Levels))
  <2> HIDE DEF T
  <2> QED BY <1>2, <1>3, WFMin
<1>5. PICK m \in S : \A k \in S : <<Above(k), Above(m)>> \notin StrictSubsetOrdering(Levels)
  BY <1>4
<1>6. \A k \in S : ~(m < k)
  <2> SUFFICES ASSUME NEW k \in S, m < k PROVE FALSE
    OBVIOUS
  <2>1. Above(k) \subseteq Above(m) /\ m \in Above(m) /\ m \notin Above(k)
    BY ShapeAssumption, LevelsType, SMT
  <2>2. Above(k) \in SUBSET Levels /\ Above(m) \in SUBSET Levels
    BY <1>0
  <2> HIDE DEF Above
  <2> QED BY <1>5, <2>1, <2>2, Zenon DEF StrictSubsetOrdering
<1> QED
  BY <1>6, LevelsType, SMT

(* The pages the pointers found in some tables lead to.                      *)
Below(view, vpn, tables, level) ==
  {pte.ppn : pte \in {e \in Promise!Entries(view, vpn, tables, level) : Promise!IsPointer(e, level)}}

(* The walks' tables from a level upwards.                                   *)
IsBasesFrom(view, vpn, bottom, b) ==
  b = [level \in bottom .. LEVELS - 1 |->
         IF level = LEVELS - 1 THEN {view.root} ELSE Below(view, vpn, b[level + 1], level + 1)]

LEMMA BasesExist ==
  ASSUME NEW view, NEW vpn
  PROVE  \E b : IsBasesFrom(view, vpn, 0, b)
<1> DEFINE Bad == {level \in Levels : ~\E b : IsBasesFrom(view, vpn, level, b)}
<1>1. SUFFICES Bad = {}
  BY LevelsType, ShapeAssumption, SMT DEF Levels, Promise!Levels
<1>2. SUFFICES ASSUME Bad # {} PROVE FALSE
  OBVIOUS
<1>3. PICK m \in Bad : \A k \in Bad : k <= m
  <2>1. Bad \in SUBSET Levels
    OBVIOUS
  <2> HIDE DEF Bad
  <2> QED BY <1>2, <2>1, HighestLevel
<1>4. CASE m = LEVELS - 1
  <2> DEFINE b == [level \in m .. LEVELS - 1 |-> {view.root}]
  <2>1. IsBasesFrom(view, vpn, m, b)
    BY <1>4, ShapeAssumption, SMT DEF IsBasesFrom
  <2> QED BY <2>1
<1>5. CASE m # LEVELS - 1
  <2>1. m + 1 \in Levels /\ m + 1 \notin Bad
    BY <1>3, <1>5, LevelsType, SMT
  <2>2. PICK a : IsBasesFrom(view, vpn, m + 1, a)
    BY <2>1
  <2> DEFINE b == [level \in m .. LEVELS - 1 |->
                     IF level = m THEN Below(view, vpn, a[m + 1], m + 1) ELSE a[level]]
  <2>3. \A level \in m + 1 .. LEVELS - 1 :
           a[level] = IF level = LEVELS - 1 THEN {view.root}
                      ELSE Below(view, vpn, a[level + 1], level + 1)
    BY <2>2 DEF IsBasesFrom
  <2>4. ASSUME NEW level \in m .. LEVELS - 1
        PROVE  b[level] = IF level = LEVELS - 1 THEN {view.root}
                          ELSE Below(view, vpn, b[level + 1], level + 1)
    <3>1. CASE level = m
      <4>1. b[level] = Below(view, vpn, a[m + 1], m + 1)
        BY <3>1
      <4>2. b[level + 1] = a[m + 1]
        BY <3>1, <1>5, <2>1, LevelsType, SMT
      <4> QED BY <3>1, <4>1, <4>2, <1>5
    <3>2. CASE level # m
      <4>1. level \in m + 1 .. LEVELS - 1
        BY <3>2, LevelsType, ShapeAssumption, SMT
      <4>2. b[level] = a[level]
        BY <3>2
      <4>3. level # LEVELS - 1 => b[level + 1] = a[level + 1]
        BY <4>1, LevelsType, ShapeAssumption, SMT
      <4> QED BY <2>3, <4>1, <4>2, <4>3
    <3> QED BY <3>1, <3>2
  <2>5. b = [level \in m .. LEVELS - 1 |->
               IF level = LEVELS - 1 THEN {view.root} ELSE Below(view, vpn, b[level + 1], level + 1)]
    <3> DEFINE c == [level \in m .. LEVELS - 1 |->
               IF level = LEVELS - 1 THEN {view.root} ELSE Below(view, vpn, b[level + 1], level + 1)]
    <3>1. \A level \in m .. LEVELS - 1 : b[level] = c[level]
      BY <2>4
    <3>2. b = [level \in m .. LEVELS - 1 |-> b[level]] /\ c = [level \in m .. LEVELS - 1 |-> c[level]]
      OBVIOUS
    <3> HIDE DEF b, c
    <3>3. b = c
      BY <3>1, <3>2
    <3> QED BY <3>3 DEF c
  <2> HIDE DEF b
  <2>6. IsBasesFrom(view, vpn, m, b)
    BY <2>5 DEF IsBasesFrom
  <2> QED BY <2>6, <1>3
<1> QED
  BY <1>4, <1>5

LEMMA BasesDef ==
  ASSUME NEW view, NEW vpn
  PROVE  /\ Promise!Bases(view, vpn)[LEVELS - 1] = {view.root}
         /\ \A level \in Levels : level # LEVELS - 1 =>
              Promise!Bases(view, vpn)[level] =
                Below(view, vpn, Promise!Bases(view, vpn)[level + 1], level + 1)
<1>1. Promise!Bases(view, vpn) = CHOOSE b : IsBasesFrom(view, vpn, 0, b)
  BY DEF Promise!Bases, IsBasesFrom, Below, Levels, Promise!Levels
<1>2. IsBasesFrom(view, vpn, 0, Promise!Bases(view, vpn))
  BY <1>1, BasesExist, Zenon
<1> HIDE DEF Promise!Bases
<1> QED BY <1>2, LevelsType, ShapeAssumption DEF IsBasesFrom

LEMMA SameShape ==
  /\ Promise!PteAddrs = PteAddrs
  /\ \A level : Promise!Span(level) = Span(level)
  /\ \A vpn, level : Promise!vpn_index(vpn, level) = vpn_index(vpn, level)
  /\ \A pte : Promise!IsLeaf(pte) = IsLeaf(pte)
BY DEF Promise!PteAddrs, PteAddrs, Promise!Span, Span, Promise!vpn_index, vpn_index,
       Promise!IsLeaf, IsLeaf

LEMMA AddressType ==
  ASSUME NEW vpn \in Vpns, NEW level \in Levels, NEW table \in Tables
  PROVE  <<table, vpn_index(vpn, level)>> \in PteAddrs
<1> DEFINE span == 2 ^ (VPNBITS * level)
           size == 2 ^ VPNBITS
<1>1. span \in Nat \ {0} /\ size \in Nat \ {0} /\ vpn \in Nat
  BY ShapeAssumption, CacheAssumption, LevelsType
<1>2. vpn_index(vpn, level) = (vpn \div span) % size
  BY DEF vpn_index, Span
<1>3. (vpn \div span) % size \in 0 .. size - 1
  <2> HIDE DEF span, size
  <2> QED BY <1>1, SMT
<1> QED
  BY <1>2, <1>3 DEF PteAddrs

Grows(v, w) ==
  /\ v.root = w.root
  /\ \A p \in PteAddrs : v.seen[p] \subseteq w.seen[p]

LEMMA EntriesGrow ==
  ASSUME NEW v, NEW w, Grows(v, w), NEW vpn \in Vpns, NEW level \in Levels,
         NEW S, NEW T, S \subseteq T
  PROVE  Promise!Entries(v, vpn, S, level) \subseteq Promise!Entries(w, vpn, T, level)
BY AddressType, SameShape DEF Grows, Promise!Entries

LEMMA BasesGrow ==
  ASSUME NEW v, NEW w, Grows(v, w), NEW vpn \in Vpns
  PROVE  \A level \in Levels : Promise!Bases(v, vpn)[level] \subseteq Promise!Bases(w, vpn)[level]
<1> DEFINE a == Promise!Bases(v, vpn)
           b == Promise!Bases(w, vpn)
           Bad == {level \in Levels : ~(a[level] \subseteq b[level])}
<1>1. SUFFICES ASSUME Bad # {} PROVE FALSE
  OBVIOUS
<1>2. PICK m \in Bad : \A k \in Bad : k <= m
  <2>1. Bad \in SUBSET Levels
    OBVIOUS
  <2> HIDE DEF Bad
  <2> QED BY <1>1, <2>1, HighestLevel
<1>3. m # LEVELS - 1
  BY <1>2, BasesDef DEF Grows
<1>4. m + 1 \in Levels /\ a[m + 1] \subseteq b[m + 1]
  BY <1>2, <1>3, LevelsType, SMT
<1>5. a[m] = Below(v, vpn, a[m + 1], m + 1) /\ b[m] = Below(w, vpn, b[m + 1], m + 1)
  BY <1>2, <1>3, BasesDef
<1> HIDE DEF a, b
<1>6. a[m] \subseteq b[m]
  BY <1>4, <1>5, EntriesGrow DEF Below
<1> QED
  BY <1>2, <1>6

LEMMA OutcomesGrow ==
  ASSUME NEW v, NEW w, Grows(v, w), v.mode = w.mode, v.sum = w.sum,
         NEW vpn \in Vpns, NEW type
  PROVE  Promise!Outcomes(v, vpn, type) \subseteq Promise!Outcomes(w, vpn, type)
<1> DEFINE At(view, level) ==
             Promise!OutcomesAt(view, vpn, type, Promise!Bases(view, vpn)[level], level)
<1>1. ASSUME NEW level \in Levels
      PROVE  At(v, level) \subseteq At(w, level)
  <2> DEFINE S == Promise!Bases(v, vpn)[level]
             T == Promise!Bases(w, vpn)[level]
  <2>1. S \subseteq T
    BY BasesGrow
  <2> HIDE DEF S, T
  <2>2. Promise!Entries(v, vpn, S, level) \subseteq Promise!Entries(w, vpn, T, level)
    BY <2>1, EntriesGrow
  <2>3. \A e : /\ Promise!MayUse(v, e, type) = Promise!MayUse(w, e, type)
               /\ Promise!MayRefuse(v, e, type) = Promise!MayRefuse(w, e, type)
    BY DEF Promise!MayUse, Promise!MayRefuse
  <2>4. Promise!OutcomesAt(v, vpn, type, S, level) \subseteq Promise!OutcomesAt(w, vpn, type, T, level)
    BY <2>1, <2>2, <2>3 DEF Promise!OutcomesAt, Promise!Usable, Promise!Refused
  <2> QED BY <2>4 DEF S, T
<1> QED
  BY <1>1 DEF Promise!Outcomes, Grows, Levels

(* What a walk may tell of an entry it has come to.                          *)
Reaches(view, vpn, level, pte) ==
  /\ level \in Levels
  /\ \E table \in Tables \cap Promise!Bases(view, vpn)[level] :
       pte \in view.seen[<<table, vpn_index(vpn, level)>>]

LEMMA ReachedOutcome ==
  ASSUME NEW view, view.root # Bare, NEW vpn \in Vpns, NEW type,
         NEW level, NEW pte, Reaches(view, vpn, level, pte)
  PROVE  /\ (\/ ~Promise!IsWellFormed(pte, level)
             \/ IsLeaf(pte) /\ Promise!MayRefuse(view, pte, type))
            => PAGE_FAULT \in Promise!Outcomes(view, vpn, type)
         /\ (Promise!IsWellFormed(pte, level) /\ IsLeaf(pte) /\ Promise!MayUse(view, pte, type))
            => pte.ppn + (vpn % Span(level)) \in Promise!Outcomes(view, vpn, type)
<1> DEFINE T == Promise!Bases(view, vpn)[level]
           At == Promise!OutcomesAt(view, vpn, type, T, level)
<1>1. pte \in Promise!Entries(view, vpn, T, level)
  BY SameShape DEF Reaches, Promise!Entries
<1>2. At \subseteq Promise!Outcomes(view, vpn, type)
  BY DEF Promise!Outcomes, Reaches, Levels
<1> HIDE DEF T
<1>3. (\/ ~Promise!IsWellFormed(pte, level)
       \/ IsLeaf(pte) /\ Promise!MayRefuse(view, pte, type))
      => PAGE_FAULT \in At
  BY <1>1, SameShape DEF Promise!OutcomesAt, Promise!Refused
<1>4. (Promise!IsWellFormed(pte, level) /\ IsLeaf(pte) /\ Promise!MayUse(view, pte, type))
      => pte.ppn + (vpn % Span(level)) \in At
  BY <1>1, SameShape DEF Promise!OutcomesAt, Promise!Usable
<1> HIDE DEF At
<1> QED
  BY <1>2, <1>3, <1>4

LEMMA MissingTable ==
  ASSUME NEW view, view.root # Bare, NEW vpn \in Vpns, NEW type, NEW level \in Levels,
         NEW base \in Promise!Bases(view, vpn)[level], base \notin Tables
  PROVE  ACCESS_FAULT \in Promise!Outcomes(view, vpn, type)
<1>1. ACCESS_FAULT \in Promise!OutcomesAt(view, vpn, type, Promise!Bases(view, vpn)[level], level)
  BY DEF Promise!OutcomesAt
<1> QED
  BY <1>1 DEF Promise!Outcomes, Levels

LEMMA PointerDown ==
  ASSUME NEW view, NEW vpn \in Vpns, NEW level \in Levels, level # 0,
         NEW pte, Reaches(view, vpn, level, pte), Promise!IsPointer(pte, level)
  PROVE  level - 1 \in Levels /\ pte.ppn \in Promise!Bases(view, vpn)[level - 1]
<1>1. level - 1 \in Levels /\ level - 1 # LEVELS - 1 /\ (level - 1) + 1 = level
  BY LevelsType, ShapeAssumption, SMT
<1>2. Promise!Bases(view, vpn)[level - 1] = Below(view, vpn, Promise!Bases(view, vpn)[level], level)
  BY <1>1, BasesDef
<1>3. pte \in Promise!Entries(view, vpn, Promise!Bases(view, vpn)[level], level)
  BY SameShape DEF Reaches, Promise!Entries
<1> QED
  BY <1>1, <1>2, <1>3 DEF Below

(* A walk's level is the layer of the table it reads.                        *)
Layer == CHOOSE layer \in [Tables -> 0 .. LEVELS - 1] : IsLayer(layer)

Types == {LOAD, STORE, FETCH, AMO, DontCare}

Pages == {ppn + (vpn % Span(level)) : ppn \in Nat, vpn \in Vpns, level \in Levels}

TlbBlocks == [vpn : Vpns, page : Pages, pteAddr : PteAddrs, flag : SUBSET PteBits]
IcacheBlocks == [vpn : Vpns, page : Pages \cup Vpns, version : Nat,
                 origin : {"fetched", "fencer", "beforeReset"}]
Walks == [vpn : Vpns, type : Types, level : Levels, base : Nat \cup Tables]
Instructions == [vpn : Vpns, page : Pages \cup Vpns, version : Nat, cached : BOOLEAN]

TypedMem == mem \in [PteAddrs -> Ptes] /\ code \in [CodePages -> Nat]
TypedTlb == tlb \in [Harts -> [TlbSets -> SUBSET TlbBlocks]]
TypedRest ==
  /\ mode \in [Harts -> {USER, SUPERVISOR, MACHINE}] /\ sum \in [Harts -> BOOLEAN]
  /\ satp \in [Harts -> Roots \cup {Bare}] /\ root \in [Harts -> Roots \cup {Bare}]
  /\ icache \in [Harts -> [IcacheSets -> SUBSET IcacheBlocks]]
  /\ walk \in [Harts -> SUBSET Walks] /\ current \in [Harts -> SUBSET Instructions]
  /\ res = [h \in Harts |-> res[h]]
  /\ seen \in [Harts -> [PteAddrs -> SUBSET Ptes]]
  /\ codeFloor \in [Harts -> [CodePages -> Nat]]
Typed == TypedMem /\ TypedTlb /\ TypedRest

(***************************************************************************)
(* The inductive invariant.                                                *)
(***************************************************************************)
(* The guest's tables stay in layers: an eviction writes a leaf's flags.     *)
MemOK == \A p \in PteAddrs : PointsDown(Layer, p, mem[p])

(* What is in memory has been seen; no version is older than a fence's.      *)
SeenOK == \A h \in Harts, p \in PteAddrs : Visible[p] \in seen[h][p]
CodeOK == \A h \in Harts, page \in CodePages : codeFloor[h][page] <= code[page]

(* A block of the TLB is a leaf seen since the fence, reached by a walk that *)
(* used what was seen since then.                                            *)
IsSeenLeaf(h, b, level, pte) ==
  /\ b.pteAddr[1] \in Promise!Bases(View(h), b.vpn)[level]
  /\ b.pteAddr = <<b.pteAddr[1], vpn_index(b.vpn, level)>>
  /\ pte \in seen[h][b.pteAddr]
  /\ pte.flag = b.flag \ {"A", "D"}
  /\ Promise!IsWellFormed(pte, level) /\ IsLeaf(pte)
  /\ b.page = pte.ppn + (b.vpn % Span(level))

BlockOK(h, b) ==
  /\ root[h] # Bare
  /\ \E level \in Levels, pte \in Ptes : IsSeenLeaf(h, b, level, pte)

TlbOK(h) ==
  \A s \in TlbSets : \A b \in tlb[h][s] :
    tlb[h][s] = {b} /\ tlb_set(b.vpn) = s /\ BlockOK(h, b)

(* A walk is at a table, or a page that is none, that it may have come to.   *)
WalkOK(h) ==
  \A w \in walk[h] :
    /\ walk[h] = {w} /\ root[h] # Bare /\ res[h] = {}
    /\ w.base \in Promise!Bases(View(h), w.vpn)[w.level]
    /\ w.base \in Tables => Layer[w.base] = w.level
    /\ w.type = FETCH => mode[h] # MACHINE

(* The instruction being executed, unless it came from the cache, is one a   *)
(* fetch may return now.                                                     *)
CurrentOK(h) ==
  \A c \in current[h] : current[h] = {c} /\ (c.cached \/ IsFresh(h, c))

IcacheOK(h) ==
  /\ \A s \in IcacheSets : \A b \in icache[h][s] :
       /\ icache[h][s] = {b} /\ icache_set(b.vpn) = s
       /\ b.origin = "fetched" => IsFresh(h, b)
  /\ \A s, t \in IcacheSets : \A b \in icache[h][s], c \in icache[h][t] :
       b.origin = "fencer" /\ c.origin = "fencer" => b = c

HartOK(h) == TlbOK(h) /\ WalkOK(h) /\ CurrentOK(h) /\ IcacheOK(h)

IInv == Typed /\ MemOK /\ SeenOK /\ CodeOK /\ \A h \in Harts : HartOK(h)


-----------------------------------------------------------------------------
LEMMA LayerDef == IsLayer(Layer)
BY GuestAssumption, Zenon DEF Layer

LEMMA PermFacts ==
  ASSUME NEW pte \in Ptes
  PROVE  /\ Perm(pte) \in Ptes /\ Perm(pte).flag = pte.flag \ {"A", "D"}
         /\ Perm(pte).ppn = pte.ppn /\ Perm(Perm(pte)) = Perm(pte)
BY DEF Perm, Ptes, PteBits

(* The accessed and dirty bits have no part in a translation.                *)
LEMMA SamePerms ==
  ASSUME NEW a, NEW b, a.flag \ {"A", "D"} = b.flag \ {"A", "D"}
  PROVE  /\ IsLeaf(a) = IsLeaf(b) /\ Reserved(a) = Reserved(b)
         /\ ("V" \in a.flag) = ("V" \in b.flag) /\ ("U" \in a.flag) = ("U" \in b.flag)
         /\ \A type \in Types : (type \subseteq a.flag) = (type \subseteq b.flag)
<1>1. \A x : x \notin {"A", "D"} => (x \in a.flag <=> x \in b.flag)
  OBVIOUS
<1>2. ("V" \in a.flag <=> "V" \in b.flag) /\ ("R" \in a.flag <=> "R" \in b.flag)
      /\ ("W" \in a.flag <=> "W" \in b.flag) /\ ("X" \in a.flag <=> "X" \in b.flag)
      /\ ("U" \in a.flag <=> "U" \in b.flag)
  BY <1>1
<1>3. IsLeaf(a) = IsLeaf(b) /\ Reserved(a) = Reserved(b)
  BY <1>2 DEF IsLeaf, Reserved
<1>4. \A type \in Types : (type \subseteq a.flag) = (type \subseteq b.flag)
  BY <1>2 DEF Types, LOAD, STORE, FETCH, AMO, DontCare
<1> QED
  BY <1>2, <1>3, <1>4

LEMMA VisibleFacts ==
  ASSUME TypedMem
  PROVE  /\ Visible \in [PteAddrs -> Ptes]
         /\ \A p \in PteAddrs : Visible[p] = Perm(mem[p])
BY PermFacts DEF TypedMem, Visible

LEMMA SetTypes ==
  ASSUME NEW vpn \in Vpns
  PROVE  tlb_set(vpn) \in TlbSets /\ icache_set(vpn) \in IcacheSets
<1> DEFINE T == 2 ^ TLB_SET_BITS
           I == 2 ^ ICACHE_SET_BITS
<1>1. T \in Nat \ {0} /\ I \in Nat \ {0} /\ vpn \in Nat
  BY CacheAssumption
<1>2. vpn % T \in 0 .. T - 1 /\ vpn % I \in 0 .. I - 1
  <2> HIDE DEF T, I
  <2> QED BY <1>1, SMT
<1> QED
  BY <1>2 DEF tlb_set, TlbSets, icache_set, IcacheSets

-----------------------------------------------------------------------------
(* A hart that does not fence.                                               *)
Keeps(h) ==
  /\ Promise!Remembers(h)
  /\ mode'[h] = mode[h] /\ root'[h] = root[h]

LEMMA ViewGrows ==
  ASSUME NEW h \in Harts, Keeps(h)
  PROVE  /\ Grows(View(h), View(h)')
         /\ \A p \in PteAddrs : seen[h][p] \subseteq seen[h]'[p]
BY SameShape DEF Keeps, Promise!Remembers, Grows, View, Promise!View

LEMMA BlockKept ==
  ASSUME NEW h \in Harts, Keeps(h), NEW b \in TlbBlocks, BlockOK(h, b)
  PROVE  BlockOK(h, b)'
<1>1. PICK level \in Levels, pte \in Ptes : IsSeenLeaf(h, b, level, pte)
  BY DEF BlockOK
<1>2. b.vpn \in Vpns /\ b.pteAddr \in PteAddrs
  BY DEF TlbBlocks
<1>3. b.pteAddr[1] \in Promise!Bases(View(h)', b.vpn)[level]
  BY <1>1, <1>2, ViewGrows, BasesGrow DEF IsSeenLeaf
<1>4. pte \in seen'[h][b.pteAddr]
  BY <1>1, <1>2, ViewGrows DEF IsSeenLeaf
<1>5. IsSeenLeaf(h, b, level, pte)'
  BY <1>1, <1>3, <1>4 DEF IsSeenLeaf
<1>6. root'[h] # Bare
  BY DEF Keeps, BlockOK
<1> QED
  BY <1>5, <1>6 DEF BlockOK, Levels, Promise!Levels

LEMMA TlbKept ==
  ASSUME NEW h \in Harts, TypedTlb, Keeps(h), TlbOK(h), tlb'[h] = tlb[h]
  PROVE  TlbOK(h)'
BY BlockKept DEF TlbOK, TypedTlb

LEMMA WalkKept ==
  ASSUME NEW h \in Harts, TypedRest, Keeps(h), WalkOK(h),
         walk'[h] = walk[h], res'[h] = res[h]
  PROVE  WalkOK(h)'
<1> SUFFICES ASSUME NEW w \in walk[h]
             PROVE  w.base \in Promise!Bases(View(h)', w.vpn)[w.level]
  BY DEF WalkOK, Keeps
<1>1. w.vpn \in Vpns /\ w.level \in Levels
  BY DEF TypedRest, Walks
<1> QED
  BY <1>1, ViewGrows, BasesGrow DEF WalkOK

LEMMA FetchPagesKept ==
  ASSUME NEW h \in Harts, Keeps(h), NEW vpn \in Vpns
  PROVE  FetchPages(h, vpn) \subseteq FetchPages(h, vpn)'
<1>1. CASE mode[h] = MACHINE
  BY <1>1 DEF FetchPages, Keeps
<1>2. CASE mode[h] # MACHINE
  <2> DEFINE v(s) == [View(h) EXCEPT !.sum = s]
             w(s) == [View(h)' EXCEPT !.sum = s]
  <2>1. ASSUME NEW s \in BOOLEAN
        PROVE  Promise!Outcomes(v(s), vpn, FETCH) \subseteq Promise!Outcomes(w(s), vpn, FETCH)
    <3>1. Grows(v(s), w(s)) /\ v(s).mode = w(s).mode /\ v(s).sum = w(s).sum
      BY ViewGrows DEF Grows, View, Promise!View, Keeps
    <3> HIDE DEF v, w
    <3> QED BY <3>1, OutcomesGrow
  <2>2. mode'[h] # MACHINE
    BY <1>2 DEF Keeps
  <2> QED BY <1>2, <2>1, <2>2 DEF FetchPages, View
<1> QED
  BY <1>1, <1>2

LEMMA FreshKept ==
  ASSUME NEW h \in Harts, Keeps(h), codeFloor'[h] = codeFloor[h],
         NEW b, b.vpn \in Vpns, IsFresh(h, b)
  PROVE  IsFresh(h, b)'
BY FetchPagesKept DEF IsFresh

LEMMA CurrentKept ==
  ASSUME NEW h \in Harts, TypedRest, Keeps(h), codeFloor'[h] = codeFloor[h],
         CurrentOK(h), current'[h] = current[h]
  PROVE  CurrentOK(h)'
BY FreshKept DEF CurrentOK, TypedRest, Instructions

LEMMA IcacheKept ==
  ASSUME NEW h \in Harts, TypedRest, Keeps(h), codeFloor'[h] = codeFloor[h],
         IcacheOK(h), icache'[h] = icache[h]
  PROVE  IcacheOK(h)'
BY FreshKept DEF IcacheOK, TypedRest, IcacheBlocks

(***************************************************************************)
(* What a step may do, and what it leaves.                                 *)
(***************************************************************************)
(* What a hart's step may do to the others.                                  *)
Quiet(g) ==
  /\ Keeps(g)
  /\ sum'[g] = sum[g] /\ walk'[g] = walk[g] /\ current'[g] = current[g]
  /\ icache'[g] = icache[g] /\ codeFloor'[g] = codeFloor[g] /\ res'[g] = res[g]

MemStep(h) ==
  /\ TypedMem' /\ MemOK'
  /\ Visible' = Visible \/ Promise!WritesBack(h)

TlbStep(h) ==
  /\ TypedTlb' /\ TlbOK(h)'
  /\ \A g \in Harts \ {h} : tlb'[g] = tlb[g]

RestStep(h) ==
  /\ TypedRest' /\ SeenOK' /\ CodeOK'
  /\ WalkOK(h)' /\ CurrentOK(h)' /\ IcacheOK(h)'
  /\ res'[h] = {} \/ Promise!Translates(h)
  /\ Promise!Fences(h) \/ Keeps(h)
  /\ \A g \in Harts \ {h} : Quiet(g)

HartGood(h) == MemStep(h) /\ TlbStep(h) /\ RestStep(h)

LEMMA AfterFacts ==
  ASSUME TypedMem', TypedRest, NEW fencing \in SUBSET Harts, SeenAfter(fencing)
  PROVE  /\ seen' \in [Harts -> [PteAddrs -> SUBSET Ptes]] /\ SeenOK'
         /\ \A g \in Harts \ fencing : Promise!Remembers(g)
         /\ \A g \in fencing : Promise!Fences(g)
<1>1. /\ Visible' \in [PteAddrs -> Ptes]
      /\ \A p \in PteAddrs : Visible'[p] = Perm(mem'[p])
  <2>1. \A p \in PteAddrs : Perm(mem'[p]) \in Ptes
    BY PermFacts DEF TypedMem
  <2> QED BY <2>1 DEF Visible
<1>2. seen \in [Harts -> [PteAddrs -> SUBSET Ptes]]
  BY DEF TypedRest
<1>3. \A g \in Harts, p \in PteAddrs :
        seen'[g][p] = {Visible'[p]} \cup IF g \in fencing THEN {} ELSE seen[g][p]
  BY DEF SeenAfter
<1>4. seen' \in [Harts -> [PteAddrs -> SUBSET Ptes]]
  <2>1. \A g \in Harts, p \in PteAddrs :
          ({Visible'[p]} \cup IF g \in fencing THEN {} ELSE seen[g][p]) \in SUBSET Ptes
    BY <1>1, <1>2
  <2> QED BY <2>1 DEF SeenAfter
<1>5. SeenOK'
  BY <1>3 DEF SeenOK
<1>6. ASSUME NEW g \in Harts \ fencing PROVE Promise!Remembers(g)
  BY SameShape DEF SeenAfter, Promise!Remembers
<1>7. ASSUME NEW g \in fencing PROVE Promise!Fences(g)
  BY SameShape DEF SeenAfter, Promise!Fences, Promise!Now
<1> QED
  BY <1>4, <1>5, <1>6, <1>7

LEMMA NoFenceFacts ==
  ASSUME TypedMem', TypedRest, NoFence
  PROVE  /\ seen' \in [Harts -> [PteAddrs -> SUBSET Ptes]] /\ SeenOK'
         /\ \A g \in Harts : Promise!Remembers(g)
         /\ codeFloor' = codeFloor
BY AfterFacts DEF NoFence

(* Writes of the page tables and the TLB that a step of a hart may make.     *)
LEMMA MemSame ==
  ASSUME NEW h \in Harts, TypedMem, MemOK, UNCHANGED <<mem, code>>
  PROVE  MemStep(h)
BY DEF MemStep, TypedMem, MemOK, Visible, PteAddrs, Perm, PointsDown, IsPointer, Reserved, IsLeaf

LEMMA TlbSame ==
  ASSUME NEW h \in Harts, TypedTlb, TlbOK(h), Keeps(h), UNCHANGED tlb
  PROVE  TlbStep(h)
BY TlbKept DEF TlbStep, TypedTlb

LEMMA TlbEmptied ==
  ASSUME NEW h \in Harts, TypedTlb, tlb' = [tlb EXCEPT ![h] = tlb_fence(h)]
  PROVE  TlbStep(h)
<1>1. tlb'[h] = [s \in TlbSets |-> {}]
  BY DEF TypedTlb, tlb_fence, NoTlb, None
<1>2. TlbOK(h)'
  BY <1>1 DEF TlbOK
<1>3. TypedTlb'
  BY <1>1 DEF TypedTlb, tlb_fence, NoTlb, None
<1> QED
  BY <1>2, <1>3 DEF TlbStep, TypedTlb

LEMMA TlbFilled ==
  ASSUME NEW h \in Harts, TypedTlb, TlbOK(h), Keeps(h),
         NEW b \in TlbBlocks, BlockOK(h, b),
         tlb' = [tlb EXCEPT ![h][tlb_set(b.vpn)] = {b}]
  PROVE  TlbStep(h)
<1> DEFINE s == tlb_set(b.vpn)
<1>1. s \in TlbSets
  BY SetTypes DEF TlbBlocks
<1>2. /\ tlb'[h][s] = {b}
      /\ \A t \in TlbSets \ {s} : tlb'[h][t] = tlb[h][t]
      /\ \A g \in Harts \ {h} : tlb'[g] = tlb[g]
  BY <1>1 DEF TypedTlb
<1>3. TypedTlb'
  BY <1>1 DEF TypedTlb
<1>4. ASSUME NEW t \in TlbSets, NEW c \in tlb'[h][t]
      PROVE  tlb'[h][t] = {c} /\ tlb_set(c.vpn) = t /\ BlockOK(h, c)'
  <2>1. CASE t = s
    BY <1>2, <2>1, BlockKept
  <2>2. CASE t # s
    <3>1. c \in tlb[h][t] /\ tlb'[h][t] = tlb[h][t]
      BY <1>2, <2>2
    <3>2. c \in TlbBlocks
      BY <3>1 DEF TypedTlb
    <3> QED BY <3>1, <3>2, BlockKept DEF TlbOK
  <2> QED BY <2>1, <2>2
<1> QED
  BY <1>2, <1>3, <1>4 DEF TlbStep, TlbOK

(* The eviction: the flags of an older leaf, of which the hart's TLB is the  *)
(* witness, return to its entry.                                             *)
LEMMA Evicted ==
  ASSUME NEW h \in Harts, TypedMem, TypedTlb, TypedRest, MemOK, TlbOK(h), NEW vpn \in Vpns,
         NEW pteAddr, evict(h, vpn, pteAddr), UNCHANGED code
  PROVE  MemStep(h)
<1> DEFINE s == tlb_set(vpn)
<1>1. s \in TlbSets /\ tlb[h][s] \in SUBSET TlbBlocks
  BY SetTypes DEF TypedTlb
<1>2. CASE tlb[h][s] = {}
  <2>1. mem' = mem
    BY <1>2 DEF evict, TypedMem
  <2> QED BY <2>1, MemSame
<1>3. ASSUME NEW b \in tlb[h][s] PROVE MemStep(h)
  <2> DEFINE p == b.pteAddr
  <2>1. b \in TlbBlocks /\ p \in PteAddrs /\ b.flag \in SUBSET PteBits
    BY <1>1, <1>3 DEF TlbBlocks
  <2>2. tlb[h][s] = {b} /\ BlockOK(h, b)
    BY <1>1, <1>3 DEF TlbOK
  <2>3. PICK level \in Levels, pte \in Ptes : IsSeenLeaf(h, b, level, pte)
    BY <2>2 DEF BlockOK
  <2>4. mem' = [mem EXCEPT ![p] = [mem[p] EXCEPT !.flag = b.flag]]
    <3> HIDE DEF s
    <3>1. \A q \in PteAddrs : q # p => {c \in tlb[h][s] : c.pteAddr = q} = {}
      BY <2>2
    <3>2. {c \in tlb[h][s] : c.pteAddr = p} = {b}
      BY <2>2
    <3>3. UNION {c.flag : c \in {b}} = b.flag
      OBVIOUS
    <3>4. mem' = [q \in PteAddrs |-> IF q = p THEN [mem[q] EXCEPT !.flag = b.flag] ELSE mem[q]]
      BY <3>1, <3>2, <3>3 DEF evict, TypedMem, s
    <3> QED BY <3>4, <2>1 DEF TypedMem
  <2>5. mem'[p] = [flag |-> b.flag, ppn |-> mem[p].ppn] /\ \A q \in PteAddrs \ {p} : mem'[q] = mem[q]
    BY <2>1, <2>4 DEF TypedMem, Ptes
  <2>6. TypedMem'
    BY <2>1, <2>4, <2>5 DEF TypedMem, Ptes
  <2>7. IsLeaf(mem'[p])
    <3>1. pte.flag \ {"A", "D"} = b.flag \ {"A", "D"} /\ IsLeaf(pte)
      BY <2>3 DEF IsSeenLeaf
    <3>2. mem'[p].flag \ {"A", "D"} = pte.flag \ {"A", "D"}
      BY <3>1, <2>5
    <3> QED BY <3>1, <3>2, SamePerms
  <2>8. MemOK'
    BY <2>5, <2>7 DEF MemOK, PointsDown, IsPointer
  <2>9. Promise!WritesBack(h)
    <3>1. Visible'[p] = [flag |-> b.flag \ {"A", "D"}, ppn |-> mem[p].ppn]
      <4>1. Visible'[p] = Perm(mem'[p]) /\ mem'[p] \in Ptes
        BY <2>1, <2>6 DEF Visible, TypedMem
      <4>2. Perm(mem'[p]) \in Ptes /\ Perm(mem'[p]).flag = b.flag \ {"A", "D"}
            /\ Perm(mem'[p]).ppn = mem[p].ppn
        BY <4>1, <2>5, PermFacts
      <4> QED BY <4>1, <4>2 DEF Ptes
    <3>2. \A q \in PteAddrs \ {p} : Visible'[q] = Visible[q]
      BY <2>5 DEF Visible
    <3>3. Visible[p] = [flag |-> mem[p].flag \ {"A", "D"}, ppn |-> mem[p].ppn]
      BY <2>1 DEF Visible, Perm, TypedMem, Ptes
    <3>4. Visible' = [Visible EXCEPT ![p].flag = pte.flag]
      <4>1. pte.flag = b.flag \ {"A", "D"}
        BY <2>3 DEF IsSeenLeaf
      <4>2. Visible'[p] = [Visible[p] EXCEPT !.flag = pte.flag]
        <5> DEFINE v == Visible[p]
        <5>1. v = [flag |-> mem[p].flag \ {"A", "D"}, ppn |-> mem[p].ppn]
          BY <3>3
        <5>2. [v EXCEPT !.flag = pte.flag] = [flag |-> pte.flag, ppn |-> mem[p].ppn]
          BY <5>1
        <5> QED BY <3>1, <4>1, <5>2
      <4>3. Visible = [q \in PteAddrs |-> Visible[q]] /\ Visible' = [q \in PteAddrs |-> Visible'[q]]
        BY DEF Visible
      <4>4. [Visible EXCEPT ![p].flag = pte.flag] =
              [q \in PteAddrs |-> IF q = p THEN [Visible[p] EXCEPT !.flag = pte.flag] ELSE Visible[q]]
        BY <4>3, <2>1
      <4> QED BY <3>2, <4>2, <4>3, <4>4
    <3>5. pte \in seen[h][p]
      BY <2>3 DEF IsSeenLeaf
    <3> QED BY <2>1, <3>4, <3>5, SameShape DEF Promise!WritesBack
  <2> QED BY <2>6, <2>8, <2>9 DEF MemStep
<1> QED
  BY <1>2, <1>3

LEMMA CompletesFacts ==
  ASSUME TypedRest, NEW h \in Harts, CurrentOK(h),
         NEW cache \in [IcacheSets -> SUBSET IcacheBlocks],
         NEW origin \in {"fetched", "fencer"}, Completes(h, cache, origin)
  PROVE  \E c \in current[h] :
           /\ current' = [current EXCEPT ![h] = {}]
           /\ icache' = [icache EXCEPT ![h] =
                           IF c.cached THEN cache
                           ELSE [cache EXCEPT ![icache_set(c.vpn)] =
                                   {[vpn |-> c.vpn, page |-> c.page, version |-> c.version,
                                     origin |-> origin]}]]
           /\ current' \in [Harts -> SUBSET Instructions]
           /\ icache' \in [Harts -> [IcacheSets -> SUBSET IcacheBlocks]]
<1>1. PICK ic \in icache_push(h, cache, origin) : icache' = [icache EXCEPT ![h] = ic]
  BY DEF Completes
<1>2. PICK c \in current[h] :
        ic = [cache EXCEPT ![icache_set(c.vpn)] =
                IF c.cached THEN @
                ELSE {[vpn |-> c.vpn, page |-> c.page, version |-> c.version, origin |-> origin]}]
  BY <1>1 DEF icache_push
<1>3. c \in Instructions /\ icache_set(c.vpn) \in IcacheSets
  BY SetTypes DEF TypedRest, Instructions
<1> DEFINE b == [vpn |-> c.vpn, page |-> c.page, version |-> c.version, origin |-> origin]
<1>4. b \in IcacheBlocks
  BY <1>3 DEF Instructions, IcacheBlocks
<1> HIDE DEF b
<1>5. ic = IF c.cached THEN cache ELSE [cache EXCEPT ![icache_set(c.vpn)] = {b}]
  BY <1>2, <1>3 DEF b
<1>6. ic \in [IcacheSets -> SUBSET IcacheBlocks]
  BY <1>3, <1>4, <1>5
<1>7. icache' \in [Harts -> [IcacheSets -> SUBSET IcacheBlocks]]
  BY <1>1, <1>6 DEF TypedRest
<1>8. current' = [current EXCEPT ![h] = {}] /\ current' \in [Harts -> SUBSET Instructions]
  BY DEF Completes, None, TypedRest
<1> QED
  BY <1>1, <1>5, <1>7, <1>8 DEF b

(* The instruction that ends enters the cache as fresh as it was fetched.    *)
LEMMA CompletesPlainlyFacts ==
  ASSUME TypedRest, NEW h \in Harts, CurrentOK(h), IcacheOK(h), CompletesPlainly(h),
         Keeps(h), codeFloor'[h] = codeFloor[h]
  PROVE  /\ current' \in [Harts -> SUBSET Instructions]
         /\ icache' \in [Harts -> [IcacheSets -> SUBSET IcacheBlocks]]
         /\ CurrentOK(h)' /\ IcacheOK(h)'
         /\ \A g \in Harts \ {h} : current'[g] = current[g] /\ icache'[g] = icache[g]
<1>1. icache[h] \in [IcacheSets -> SUBSET IcacheBlocks]
  BY DEF TypedRest
<1>2. PICK c \in current[h] :
           /\ current' = [current EXCEPT ![h] = {}]
           /\ icache' = [icache EXCEPT ![h] =
                           IF c.cached THEN icache[h]
                           ELSE [icache[h] EXCEPT ![icache_set(c.vpn)] =
                                   {[vpn |-> c.vpn, page |-> c.page, version |-> c.version,
                                     origin |-> "fetched"]}]]
           /\ current' \in [Harts -> SUBSET Instructions]
           /\ icache' \in [Harts -> [IcacheSets -> SUBSET IcacheBlocks]]
  BY <1>1, CompletesFacts DEF CompletesPlainly
<1>3. \A g \in Harts \ {h} : current'[g] = current[g] /\ icache'[g] = icache[g]
  BY <1>2 DEF TypedRest
<1>4. current'[h] = {}
  BY <1>2 DEF TypedRest
<1>5. CurrentOK(h)'
  BY <1>4 DEF CurrentOK
<1>6. CASE c.cached
  <2>1. icache'[h] = icache[h]
    BY <1>2, <1>6 DEF TypedRest
  <2> QED BY <2>1, <1>2, <1>3, <1>5, IcacheKept
<1>7. CASE ~c.cached
  <2> DEFINE b == [vpn |-> c.vpn, page |-> c.page, version |-> c.version, origin |-> "fetched"]
             s == icache_set(c.vpn)
  <2>1. c \in Instructions /\ s \in IcacheSets /\ c.vpn \in Vpns
    BY SetTypes DEF TypedRest, Instructions
  <2>2. b.vpn = c.vpn /\ b.page = c.page /\ b.version = c.version /\ b.origin = "fetched"
    OBVIOUS
  <2> HIDE DEF b
  <2>3. icache'[h] = [icache[h] EXCEPT ![s] = {b}]
    BY <1>2, <1>7 DEF TypedRest, b
  <2> HIDE DEF s
  <2>4. icache'[h][s] = {b} /\ \A t \in IcacheSets \ {s} : icache'[h][t] = icache[h][t]
    BY <2>1, <2>3, <1>1
  <2>5. IsFresh(h, c)
    BY <1>7 DEF CurrentOK
  <2>6. IsFresh(h, c)'
    BY <2>1, <2>5, FreshKept
  <2>7. IsFresh(h, b)'
    BY <2>2, <2>6 DEF IsFresh
  <2>8. ASSUME NEW t \in IcacheSets, NEW d \in icache'[h][t]
        PROVE  /\ icache'[h][t] = {d} /\ icache_set(d.vpn) = t
               /\ d.origin = "fetched" => IsFresh(h, d)'
               /\ d.origin = "fencer" => d \in icache[h][t]
    <3>1. CASE t = s
      BY <3>1, <2>4, <2>7, <2>2 DEF s
    <3>2. CASE t # s
      <4>1. d \in icache[h][t] /\ icache'[h][t] = icache[h][t] /\ d.vpn \in Vpns
        BY <3>2, <2>4, <1>1 DEF IcacheBlocks
      <4> QED BY <4>1, FreshKept DEF IcacheOK
    <3> QED BY <3>1, <3>2
  <2>9. IcacheOK(h)'
    BY <2>8 DEF IcacheOK
  <2> QED BY <2>9, <1>2, <1>3, <1>5
<1> QED
  BY <1>6, <1>7

(* Only the instruction that empties the cache is in it afterwards.          *)
LEMMA CompletesFencingFacts ==
  ASSUME TypedRest, NEW h \in Harts, CurrentOK(h), Completes(h, icache_fence(h), "fencer")
  PROVE  /\ current' \in [Harts -> SUBSET Instructions]
         /\ icache' \in [Harts -> [IcacheSets -> SUBSET IcacheBlocks]]
         /\ CurrentOK(h)' /\ IcacheOK(h)'
         /\ \A g \in Harts \ {h} : current'[g] = current[g] /\ icache'[g] = icache[g]
<1>1. /\ icache_fence(h) \in [IcacheSets -> SUBSET IcacheBlocks]
      /\ \A t \in IcacheSets : icache_fence(h)[t] = {}
  BY DEF icache_fence, NoIcache, None
<1>2. PICK c \in current[h] :
           /\ current' = [current EXCEPT ![h] = {}]
           /\ icache' = [icache EXCEPT ![h] =
                           IF c.cached THEN icache_fence(h)
                           ELSE [icache_fence(h) EXCEPT ![icache_set(c.vpn)] =
                                   {[vpn |-> c.vpn, page |-> c.page, version |-> c.version,
                                     origin |-> "fencer"]}]]
           /\ current' \in [Harts -> SUBSET Instructions]
           /\ icache' \in [Harts -> [IcacheSets -> SUBSET IcacheBlocks]]
  BY <1>1, CompletesFacts
<1>3. \A g \in Harts \ {h} : current'[g] = current[g] /\ icache'[g] = icache[g]
  BY <1>2 DEF TypedRest
<1>4. current'[h] = {}
  BY <1>2 DEF TypedRest
<1>5. CurrentOK(h)'
  BY <1>4 DEF CurrentOK
<1> DEFINE b == [vpn |-> c.vpn, page |-> c.page, version |-> c.version, origin |-> "fencer"]
           s == icache_set(c.vpn)
<1>6. s \in IcacheSets
  BY SetTypes DEF TypedRest, Instructions
<1>7. b.vpn = c.vpn /\ b.origin = "fencer"
  OBVIOUS
<1> HIDE DEF b
<1>8. icache'[h] = IF c.cached THEN icache_fence(h) ELSE [icache_fence(h) EXCEPT ![s] = {b}]
  BY <1>2 DEF TypedRest, b
<1> HIDE DEF s
<1>9. \A t \in IcacheSets : icache'[h][t] = {} \/ (t = s /\ icache'[h][t] = {b})
  BY <1>1, <1>6, <1>8
<1>10. icache_set(b.vpn) = s
  BY <1>7 DEF s
<1>11. IcacheOK(h)'
  BY <1>7, <1>9, <1>10 DEF IcacheOK
<1> QED
  BY <1>2, <1>3, <1>5, <1>11

(* What a step of a hart leaves of each part of its state.                   *)
ResStep(h) ==
  /\ res' = [g \in Harts |-> res'[g]]
  /\ res'[h] = {} \/ Promise!Translates(h)
  /\ \A g \in Harts \ {h} : res'[g] = res[g]

CsrStep(h) ==
  /\ mode' \in [Harts -> {USER, SUPERVISOR, MACHINE}] /\ sum' \in [Harts -> BOOLEAN]
  /\ satp' \in [Harts -> Roots \cup {Bare}] /\ root' \in [Harts -> Roots \cup {Bare}]
  /\ \A g \in Harts \ {h} : mode'[g] = mode[g] /\ sum'[g] = sum[g] /\ root'[g] = root[g]

CodeStep(h) ==
  /\ current' \in [Harts -> SUBSET Instructions]
  /\ icache' \in [Harts -> [IcacheSets -> SUBSET IcacheBlocks]]
  /\ CurrentOK(h)' /\ IcacheOK(h)'
  /\ \A g \in Harts \ {h} : current'[g] = current[g] /\ icache'[g] = icache[g]

WalkStep(h) ==
  /\ walk' \in [Harts -> SUBSET Walks] /\ WalkOK(h)'
  /\ \A g \in Harts \ {h} : walk'[g] = walk[g]

LEMMA FencedRest ==
  ASSUME IInv, NEW h \in Harts, TypedMem', code' = code, SeenAfter({h}),
         codeFloor' = [codeFloor EXCEPT ![h] = code],
         ResStep(h), CsrStep(h), CodeStep(h), WalkStep(h)
  PROVE  RestStep(h)
<1>1. /\ seen' \in [Harts -> [PteAddrs -> SUBSET Ptes]] /\ SeenOK'
      /\ \A g \in Harts \ {h} : Promise!Remembers(g)
      /\ Promise!Fences(h)
  BY AfterFacts DEF IInv, Typed
<1>2. codeFloor' \in [Harts -> [CodePages -> Nat]] /\ CodeOK'
  BY DEF IInv, Typed, TypedMem, TypedRest, CodeOK
<1>3. TypedRest'
  BY <1>1, <1>2 DEF TypedRest, ResStep, CsrStep, CodeStep, WalkStep
<1>4. ASSUME NEW g \in Harts \ {h} PROVE Quiet(g)
  BY <1>1 DEF Quiet, Keeps, ResStep, CsrStep, CodeStep, WalkStep, IInv, Typed, TypedRest
<1> QED
  BY <1>1, <1>2, <1>3, <1>4 DEF RestStep, ResStep, CodeStep, WalkStep

LEMMA KeptRest ==
  ASSUME IInv, NEW h \in Harts, TypedMem', code' = code, SeenAfter({}),
         codeFloor' = codeFloor \/ codeFloor' = [codeFloor EXCEPT ![h] = code],
         mode'[h] = mode[h], root'[h] = root[h],
         ResStep(h), CsrStep(h), CodeStep(h), WalkStep(h)
  PROVE  RestStep(h)
<1>1. /\ seen' \in [Harts -> [PteAddrs -> SUBSET Ptes]] /\ SeenOK'
      /\ \A g \in Harts : Promise!Remembers(g)
  BY AfterFacts DEF IInv, Typed
<1>2. codeFloor' \in [Harts -> [CodePages -> Nat]] /\ CodeOK'
  <2>1. CASE codeFloor' = codeFloor
    BY <2>1 DEF IInv, Typed, TypedMem, TypedRest, CodeOK
  <2>2. CASE codeFloor' = [codeFloor EXCEPT ![h] = code]
    BY <2>2 DEF IInv, Typed, TypedMem, TypedRest, CodeOK
  <2> QED BY <2>1, <2>2
<1>3. TypedRest'
  BY <1>1, <1>2 DEF TypedRest, ResStep, CsrStep, CodeStep, WalkStep
<1>4. ASSUME NEW g \in Harts \ {h} PROVE Quiet(g)
  BY <1>1 DEF Quiet, Keeps, ResStep, CsrStep, CodeStep, WalkStep, IInv, Typed, TypedRest
<1>5. Keeps(h)
  BY <1>1 DEF Keeps
<1> QED
  BY <1>1, <1>2, <1>3, <1>4, <1>5 DEF RestStep, ResStep, CodeStep, WalkStep

LEMMA KeepsFacts ==
  ASSUME TypedMem', TypedRest, NEW h \in Harts, SeenAfter({}), mode'[h] = mode[h], root'[h] = root[h]
  PROVE  Keeps(h)
BY AfterFacts DEF Keeps

LEMMA ForgetStep ==
  ASSUME TypedRest, NEW h \in Harts, res' = [res EXCEPT ![h] = None]
  PROVE  ResStep(h)
BY DEF TypedRest, ResStep, None

LEMMA AnswersStep ==
  ASSUME TypedRest, NEW h \in Harts, NEW vpn, NEW type, NEW out, Answers(h, vpn, type, out),
         out \in Promise!Outcomes(View(h), vpn, type)
  PROVE  ResStep(h)
<1>1. res' = [res EXCEPT ![h] = {[vpn |-> vpn, type |-> type, out |-> out]}]
  BY DEF Answers
<1>2. res'[h] = {[vpn |-> vpn, type |-> type, out |-> out]}
      /\ \A g \in Harts \ {h} : res'[g] = res[g]
  BY <1>1 DEF TypedRest
<1>3. Promise!Translates(h)
  BY <1>2 DEF Promise!Translates, View
<1>4. res' = [g \in Harts |-> res'[g]]
  BY <1>1 DEF TypedRest
<1> QED
  BY <1>2, <1>3, <1>4 DEF ResStep

LEMMA CsrSame ==
  ASSUME TypedRest, NEW h \in Harts, UNCHANGED csrVars
  PROVE  CsrStep(h)
BY DEF TypedRest, CsrStep, csrVars

LEMMA WalkCleared ==
  ASSUME TypedRest, NEW h \in Harts,
         walk' = [walk EXCEPT ![h] = None] \/ (UNCHANGED walk /\ walk[h] = None)
  PROVE  WalkStep(h)
BY DEF TypedRest, WalkStep, WalkOK, None

LEMMA WalkSame ==
  ASSUME TypedRest, NEW h \in Harts, Keeps(h), WalkOK(h), UNCHANGED <<walk, res>>
  PROVE  WalkStep(h)
BY WalkKept DEF TypedRest, WalkStep

LEMMA CodeSame ==
  ASSUME TypedRest, NEW h \in Harts, Keeps(h), codeFloor'[h] = codeFloor[h],
         CurrentOK(h), IcacheOK(h), UNCHANGED <<current, icache>>
  PROVE  CodeStep(h)
BY CurrentKept, IcacheKept DEF TypedRest, CodeStep

LEMMA CodeFetched ==
  ASSUME TypedRest, NEW h \in Harts, Keeps(h), codeFloor'[h] = codeFloor[h],
         IcacheOK(h), UNCHANGED icache,
         NEW c \in Instructions, c.cached \/ IsFresh(h, c),
         current' = [current EXCEPT ![h] = {c}]
  PROVE  CodeStep(h)
<1>1. current'[h] = {c} /\ c.vpn \in Vpns
  BY DEF TypedRest, Instructions
<1>2. CurrentOK(h)'
  BY <1>1, FreshKept DEF CurrentOK
<1> QED
  BY <1>2, IcacheKept DEF TypedRest, CodeStep

LEMMA CodeCompletes ==
  ASSUME TypedRest, NEW h \in Harts, CurrentOK(h), IcacheOK(h),
         \/ CompletesPlainly(h) /\ Keeps(h) /\ codeFloor'[h] = codeFloor[h]
         \/ Completes(h, icache_fence(h), "fencer")
  PROVE  CodeStep(h)
BY CompletesPlainlyFacts, CompletesFencingFacts DEF CodeStep

LEMMA CodeDropped ==
  ASSUME TypedRest, NEW h \in Harts,
         icache' = [icache EXCEPT ![h] = icache_fence(h)], current' = [current EXCEPT ![h] = None]
  PROVE  CodeStep(h)
<1>1. icache_fence(h) \in [IcacheSets -> SUBSET IcacheBlocks] /\ \A s \in IcacheSets : icache_fence(h)[s] = {}
  BY DEF icache_fence, NoIcache, None
<1>2. icache'[h] = icache_fence(h) /\ current'[h] = {}
  BY DEF TypedRest, None
<1>3. CurrentOK(h)' /\ IcacheOK(h)'
  BY <1>1, <1>2 DEF CurrentOK, IcacheOK
<1> QED
  BY <1>1, <1>3 DEF TypedRest, CodeStep, None

LEMMA UpdateVm ==
  ASSUME TypedRest, NEW h \in Harts, NEW m \in {USER, SUPERVISOR, MACHINE},
         NEW s \in Roots \cup {Bare}, update_vm_translate(h, m, s),
         mode' = mode \/ mode' = [mode EXCEPT ![h] = m], sum' = sum,
         satp' = satp \/ satp' = [satp EXCEPT ![h] = s]
  PROVE  CsrStep(h)
BY DEF TypedRest, CsrStep, update_vm_translate

LEMMA TrapsRest ==
  ASSUME IInv, NEW h \in Harts, Traps(h), UNCHANGED <<mem, code>>, ResStep(h)
  PROVE  HartGood(h)
<1> USE DEF IInv, Typed
<1>1. PICK m \in {SUPERVISOR, MACHINE} : set_priv_mode(h, m)
  BY DEF Traps
<1>2. CsrStep(h)
  <2>1. satp[h] \in Roots \cup {Bare} /\ m \in {USER, SUPERVISOR, MACHINE}
    BY DEF TypedRest
  <2> QED BY <1>1, <2>1, UpdateVm DEF set_priv_mode
<1>3. WalkStep(h) /\ CodeStep(h)
  BY WalkCleared, CodeDropped DEF Traps
<1>4. MemStep(h)
  BY MemSame
<1>5. SeenAfter({h}) /\ codeFloor' = [codeFloor EXCEPT ![h] = code]
      /\ tlb' = [tlb EXCEPT ![h] = tlb_fence(h)]
  BY <1>1 DEF set_priv_mode, update_vm_translate
<1>6. RestStep(h)
  BY <1>2, <1>3, <1>4, <1>5, FencedRest DEF MemStep
<1>7. TlbStep(h)
  BY <1>5, TlbEmptied
<1> QED
  BY <1>4, <1>6, <1>7 DEF HartGood

(***************************************************************************)
(* Every step of a hart.                                                   *)
(***************************************************************************)
(* The access that a translation was made for goes on.                       *)
LEMMA ArrivesRest ==
  ASSUME IInv, NEW h \in Harts, NEW vpn \in Vpns, NEW type \in Types,
         NEW page \in Pages \cup Vpns, page \in Promise!Outcomes(View(h), vpn, type),
         type = FETCH => mode[h] # MACHINE, TypedMem', UNCHANGED code,
         Arrives(h, vpn, type, page)
  PROVE  RestStep(h) /\ Keeps(h)
<1> USE DEF IInv, Typed
<1>1. /\ SeenAfter({}) /\ codeFloor' = codeFloor /\ UNCHANGED csrVars
      /\ walk' = [walk EXCEPT ![h] = None] /\ Answers(h, vpn, type, page)
  BY DEF Arrives, NoFence
<1>2. mode' = mode /\ root' = root
  BY <1>1 DEF csrVars
<1>3. Keeps(h)
  BY <1>1, <1>2, KeepsFacts
<1>4. ResStep(h) /\ CsrStep(h) /\ WalkStep(h)
  BY <1>1, AnswersStep, CsrSame, WalkCleared
<1>5. CodeStep(h)
  <2>1. CASE type = FETCH
    <3> DEFINE c == [vpn |-> vpn, page |-> page, version |-> Version(page), cached |-> FALSE]
    <3>1. current' = [current EXCEPT ![h] = {c}] /\ UNCHANGED icache
      BY <2>1 DEF Arrives, FETCH, DontCare
    <3>2. c \in Instructions
      BY DEF Instructions, Version, TypedMem
    <3>3. page \in FetchPages(h, vpn)
      <4>1. [View(h) EXCEPT !.sum = sum[h]] = View(h) /\ sum[h] \in BOOLEAN
        BY DEF View, Promise!View, TypedRest
      <4> QED BY <4>1, <2>1 DEF FetchPages, View
    <3>4. IsFresh(h, c)
      BY <3>3 DEF IsFresh, Version, CodeOK, TypedMem, TypedRest
    <3> HIDE DEF c
    <3> QED BY <3>1, <3>2, <3>4, <1>1, <1>3, CodeFetched DEF HartOK
  <2>2. CASE type = DontCare
    <3>1. UNCHANGED <<icache, current>>
      BY <2>2 DEF Arrives, DontCare, FETCH
    <3> QED BY <3>1, <1>1, <1>3, CodeSame DEF HartOK
  <2>3. CASE type # FETCH /\ type # DontCare
    <3>1. CompletesPlainly(h)
      BY <2>3 DEF Arrives
    <3> QED BY <3>1, <1>1, <1>3, CodeCompletes DEF HartOK
  <2> QED BY <2>1, <2>2, <2>3
<1> QED
  BY <1>1, <1>2, <1>3, <1>4, <1>5, KeptRest

LEMMA FaultsGood ==
  ASSUME IInv, NEW h \in Harts, NEW vpn \in Vpns, NEW type \in Types, NEW fault,
         fault \in Promise!Outcomes(View(h), vpn, type), UNCHANGED code,
         Faults(h, vpn, type, fault)
  PROVE  HartGood(h)
<1> USE DEF IInv, Typed
<1>1. MemStep(h)
  BY MemSame DEF Faults
<1>2. ResStep(h)
  BY AnswersStep DEF Faults
<1>3. CASE type # DontCare
  BY <1>2, <1>3, TrapsRest DEF Faults
<1>4. CASE type = DontCare
  <2>1. /\ SeenAfter({}) /\ codeFloor' = codeFloor /\ UNCHANGED csrVars
        /\ walk' = [walk EXCEPT ![h] = None] /\ UNCHANGED <<tlb, icache, current>>
    BY <1>4 DEF Faults, NoFence
  <2>2. mode' = mode /\ root' = root
    BY <2>1 DEF csrVars
  <2>3. Keeps(h)
    BY <1>1, <2>1, <2>2, KeepsFacts DEF MemStep
  <2>4. CsrStep(h) /\ WalkStep(h) /\ CodeStep(h)
    BY <2>1, <2>3, CsrSame, WalkCleared, CodeSame DEF HartOK
  <2>5. RestStep(h)
    BY <1>1, <1>2, <2>1, <2>2, <2>4, KeptRest DEF MemStep
  <2>6. TlbStep(h)
    BY <2>1, <2>3, TlbSame DEF HartOK
  <2> QED BY <1>1, <2>5, <2>6 DEF HartGood
<1> QED
  BY <1>3, <1>4

LEMMA WellFormedSame ==
  ASSUME NEW pte, NEW level
  PROVE  Promise!IsWellFormed(pte, level)
         <=> "V" \in pte.flag /\ ~Reserved(pte) /\ (IsLeaf(pte) => pte.ppn % Span(level) = 0)
BY SameShape DEF Promise!IsWellFormed, Reserved

(* A hit answers by the leaf the block was made of.                          *)
LEMMA HitGood ==
  ASSUME IInv, NEW h \in Harts, NEW vpn \in Vpns, NEW type \in Types,
         type = FETCH => mode[h] # MACHINE, UNCHANGED code, TlbAnswers(h, vpn, type)
  PROVE  HartGood(h)
<1> USE DEF IInv, Typed
<1> DEFINE s == tlb_set(vpn)
<1>1. s \in TlbSets
  BY SetTypes
<1>2. PICK b \in tlb[h][s] :
        /\ b.vpn = vpn
        /\ IF HitAllows(h, b, type)
           THEN /\ UNCHANGED mem
                /\ tlb' = [tlb EXCEPT ![h][s] =
                      {[b EXCEPT !.flag = @ \cup {"A"} \cup IF STORE \subseteq type THEN {"D"} ELSE {}]}]
                /\ Arrives(h, vpn, type, b.page)
           ELSE Faults(h, vpn, type, PAGE_FAULT)
  BY DEF TlbAnswers, tlb_hit
<1>3. b \in TlbBlocks /\ BlockOK(h, b)
  BY <1>1, <1>2 DEF TypedTlb, HartOK, TlbOK
<1>4. PICK level \in Levels, pte \in Ptes : IsSeenLeaf(h, b, level, pte)
  BY <1>3 DEF BlockOK
<1>5. root[h] # Bare
  BY <1>3 DEF BlockOK
<1>6. Reaches(View(h), vpn, level, pte)
  <2>1. b.pteAddr[1] \in Tables
    BY <1>3 DEF TlbBlocks, PteAddrs
  <2> QED BY <1>2, <1>4, <2>1 DEF Reaches, IsSeenLeaf, View, Promise!View
<1>7. pte.flag \ {"A", "D"} = b.flag \ {"A", "D"}
  BY <1>4 DEF IsSeenLeaf
<1>8. /\ ("U" \in pte.flag <=> "U" \in b.flag)
      /\ (type \subseteq pte.flag <=> type \subseteq b.flag)
  BY <1>7, SamePerms
<1>9. Promise!IsWellFormed(pte, level) /\ IsLeaf(pte) /\ b.page = pte.ppn + (vpn % Span(level))
  BY <1>2, <1>4 DEF IsSeenLeaf
<1>10. View(h).root # Bare /\ View(h).mode = mode[h] /\ View(h).sum = sum[h]
       /\ mode[h] \in {USER, SUPERVISOR, MACHINE}
  BY <1>5 DEF View, Promise!View, TypedRest
<1>11. CASE HitAllows(h, b, type)
  <2>1. Promise!MayUse(View(h), pte, type)
    BY <1>8, <1>10, <1>11 DEF HitAllows, Promise!MayUse, USER, SUPERVISOR, MACHINE, Promise!USER
  <2>2. b.page \in Promise!Outcomes(View(h), vpn, type)
    BY <1>6, <1>9, <1>10, <2>1, ReachedOutcome
  <2>3. MemStep(h)
    BY <1>2, <1>11, MemSame
  <2>4. b.page \in Pages \cup Vpns
    BY <1>3 DEF TlbBlocks
  <2>5. RestStep(h) /\ Keeps(h)
    BY <1>2, <1>11, <2>2, <2>3, <2>4, ArrivesRest DEF MemStep
  <2> DEFINE flag == b.flag \cup {"A"} \cup IF STORE \subseteq type THEN {"D"} ELSE {}
             c == [b EXCEPT !.flag = flag]
  <2>6. /\ c \in TlbBlocks /\ c.vpn = b.vpn /\ c.page = b.page /\ c.pteAddr = b.pteAddr
        /\ c.flag = flag
    BY <1>3 DEF TlbBlocks, PteBits
  <2>7. flag \ {"A", "D"} = b.flag \ {"A", "D"}
    OBVIOUS
  <2>8. tlb' = [tlb EXCEPT ![h][s] = {c}]
    BY <1>2, <1>11
  <2> HIDE DEF c, flag
  <2>9. IsSeenLeaf(h, c, level, pte)
    BY <1>4, <2>6, <2>7 DEF IsSeenLeaf
  <2>10. BlockOK(h, c)
    BY <1>5, <2>9 DEF BlockOK
  <2>11. TlbStep(h)
    BY <1>2, <2>5, <2>6, <2>8, <2>10, TlbFilled DEF HartOK
  <2> QED BY <2>3, <2>5, <2>11 DEF HartGood
<1>12. CASE ~HitAllows(h, b, type)
  <2>1. Promise!MayRefuse(View(h), pte, type)
    BY <1>8, <1>10, <1>12 DEF HitAllows, Promise!MayRefuse, Promise!MayUse,
       USER, SUPERVISOR, MACHINE, Promise!USER, Promise!MACHINE
  <2>2. PAGE_FAULT \in Promise!Outcomes(View(h), vpn, type)
    BY <1>6, <1>9, <1>10, <2>1, ReachedOutcome
  <2> QED BY <1>2, <1>12, <2>2, FaultsGood
<1> QED
  BY <1>11, <1>12

LEMMA BareGood ==
  ASSUME IInv, NEW h \in Harts, NEW vpn \in Vpns, NEW type \in Types,
         type = FETCH => mode[h] # MACHINE, UNCHANGED code, BareAnswers(h, vpn, type)
  PROVE  HartGood(h)
<1> USE DEF IInv, Typed
<1>1. vpn \in Promise!Outcomes(View(h), vpn, type)
  BY DEF BareAnswers, Promise!Outcomes, View, Promise!View
<1>2. MemStep(h)
  BY MemSame DEF BareAnswers
<1>3. RestStep(h) /\ Keeps(h)
  BY <1>1, <1>2, ArrivesRest DEF BareAnswers, MemStep
<1>4. TlbStep(h)
  BY <1>3, TlbSame DEF BareAnswers, HartOK
<1> QED
  BY <1>2, <1>3, <1>4 DEF HartGood

(* A walk that has begun or gone on.                                         *)
LEMMA WalkGoesOn ==
  ASSUME IInv, NEW h \in Harts, NEW w \in Walks, root[h] # Bare,
         w.base \in Promise!Bases(View(h), w.vpn)[w.level],
         w.base \in Tables => Layer[w.base] = w.level,
         w.type = FETCH => mode[h] # MACHINE,
         walk' = [walk EXCEPT ![h] = {w}], ResStep(h), res'[h] = {}, NoFence,
         UNCHANGED <<mem, code, tlb, icache, current, csrVars>>
  PROVE  HartGood(h)
<1> USE DEF IInv, Typed
<1>1. MemStep(h)
  BY MemSame
<1>2. SeenAfter({}) /\ codeFloor' = codeFloor /\ mode' = mode /\ root' = root
  BY DEF NoFence, csrVars
<1>3. Keeps(h)
  BY <1>1, <1>2, KeepsFacts DEF MemStep
<1>4. CsrStep(h) /\ CodeStep(h) /\ TlbStep(h)
  BY <1>2, <1>3, CsrSame, CodeSame, TlbSame DEF HartOK
<1>5. WalkStep(h)
  <2>1. walk'[h] = {w} /\ walk' \in [Harts -> SUBSET Walks]
    BY DEF TypedRest
  <2>2. w.vpn \in Vpns /\ w.level \in Levels
    BY DEF Walks
  <2>3. w.base \in Promise!Bases(View(h)', w.vpn)[w.level]
    BY <1>3, <2>2, ViewGrows, BasesGrow
  <2>4. WalkOK(h)'
    BY <2>1, <2>3, <1>2 DEF WalkOK
  <2> QED BY <2>1, <2>4 DEF WalkStep, TypedRest
<1>6. RestStep(h)
  BY <1>1, <1>2, <1>4, <1>5, KeptRest DEF MemStep
<1> QED
  BY <1>1, <1>4, <1>6 DEF HartGood

LEMMA StartWalkGood ==
  ASSUME IInv, NEW h \in Harts, NEW vpn \in Vpns, NEW type \in Types,
         type = FETCH => mode[h] # MACHINE, UNCHANGED code, StartWalk(h, vpn, type)
  PROVE  HartGood(h)
<1> USE DEF IInv, Typed
<1> DEFINE w == [vpn |-> vpn, type |-> type, level |-> LEVELS - 1, base |-> root[h]]
<1>1. root[h] \in Roots /\ root[h] \in Tables
  BY RootAssumption DEF StartWalk, TypedRest
<1>2. w \in Walks
  BY <1>1, LevelsType DEF Walks
<1>3. w.base \in Promise!Bases(View(h), vpn)[LEVELS - 1]
  BY BasesDef DEF View, Promise!View
<1>4. Layer[w.base] = LEVELS - 1
  BY <1>1, LayerDef DEF IsLayer
<1>5. ResStep(h) /\ res'[h] = {}
  BY ForgetStep DEF StartWalk, None, TypedRest
<1>6. /\ walk' = [walk EXCEPT ![h] = {w}] /\ NoFence /\ root[h] # Bare
      /\ UNCHANGED <<mem, code, tlb, icache, current, csrVars>>
  BY DEF StartWalk
<1>7. w.vpn = vpn /\ w.type = type /\ w.level = LEVELS - 1
  OBVIOUS
<1> HIDE DEF w
<1> QED
  BY <1>2, <1>3, <1>4, <1>5, <1>6, <1>7, WalkGoesOn

LEMMA CoreGood ==
  ASSUME IInv, NEW h \in Harts, NEW vpn \in Vpns, NEW type \in Types,
         type = FETCH => mode[h] # MACHINE, vaddr_translate_core(h, vpn, type)
  PROVE  HartGood(h)
BY HitGood, BareGood, StartWalkGood DEF vaddr_translate_core

(* A leaf that allows the access: it fills the TLB, and the block that makes *)
(* room writes its flags back.                                               *)
LEMMA LeafGood ==
  ASSUME IInv, NEW h \in Harts, NEW w \in walk[h], NEW p \in PteAddrs,
         p = <<w.base, vpn_index(w.vpn, w.level)>>, w.base \in Tables,
         NEW pte, pte = mem[p], "V" \in pte.flag, ~Reserved(pte), IsLeaf(pte), LeafAllows(h, pte, w),
         NEW page, page = pte.ppn + (w.vpn % Span(w.level)),
         UNCHANGED code, tlb_push(h, w.vpn, page, p, pte.flag), Arrives(h, w.vpn, w.type, page)
  PROVE  HartGood(h)
<1> USE DEF IInv, Typed
<1>1. /\ w \in Walks /\ w.vpn \in Vpns /\ w.type \in Types /\ w.level \in Levels
      /\ pte \in Ptes /\ pte.flag \in SUBSET PteBits /\ pte.ppn \in Nat
  <2>1. w \in Walks
    BY DEF TypedRest
  <2>2. pte \in Ptes
    BY DEF TypedMem
  <2> QED BY <2>1, <2>2 DEF Walks, Ptes
<1>2. root[h] # Bare /\ w.base \in Promise!Bases(View(h), w.vpn)[w.level]
      /\ (w.type = FETCH => mode[h] # MACHINE)
  BY DEF HartOK, WalkOK
<1> DEFINE e == Visible[p]
<1>3. e \in seen[h][p] /\ e \in Ptes /\ e.flag = pte.flag \ {"A", "D"} /\ e.ppn = pte.ppn
  BY <1>1, VisibleFacts, PermFacts DEF SeenOK
<1> HIDE DEF e
<1>4. e.flag \ {"A", "D"} = pte.flag \ {"A", "D"}
  BY <1>3
<1>5. /\ IsLeaf(e) = IsLeaf(pte) /\ Reserved(e) = Reserved(pte)
      /\ ("V" \in e.flag) = ("V" \in pte.flag) /\ ("U" \in e.flag) = ("U" \in pte.flag)
      /\ (w.type \subseteq e.flag) = (w.type \subseteq pte.flag)
  BY <1>1, <1>4, SamePerms
<1>6. Promise!IsWellFormed(e, w.level) /\ IsLeaf(e)
  BY <1>3, <1>5, WellFormedSame DEF LeafAllows
<1>7. Reaches(View(h), w.vpn, w.level, e)
  BY <1>1, <1>2, <1>3 DEF Reaches, View, Promise!View
<1>8. Promise!MayUse(View(h), e, w.type)
  BY <1>5 DEF LeafAllows, Promise!MayUse, View, Promise!View, USER, Promise!USER
<1>9. page \in Promise!Outcomes(View(h), w.vpn, w.type)
  <2>1. View(h).root # Bare
    BY <1>2 DEF View, Promise!View
  <2> QED BY <1>1, <1>3, <1>6, <1>7, <1>8, <2>1, ReachedOutcome
<1>10. page \in Pages
  BY <1>1 DEF Pages
<1>11. MemStep(h)
  BY <1>1, Evicted DEF tlb_push, HartOK
<1>12. RestStep(h) /\ Keeps(h)
  BY <1>1, <1>2, <1>9, <1>10, <1>11, ArrivesRest DEF MemStep
<1> DEFINE b == [vpn |-> w.vpn, page |-> page, pteAddr |-> p, flag |-> pte.flag]
<1>13. b \in TlbBlocks /\ b.vpn = w.vpn /\ b.page = page /\ b.pteAddr = p /\ b.flag = pte.flag
  BY <1>1, <1>10 DEF TlbBlocks
<1>14. tlb' = [tlb EXCEPT ![h][tlb_set(b.vpn)] = {b}]
  BY DEF tlb_push
<1> HIDE DEF b
<1>15. IsSeenLeaf(h, b, w.level, e)
  BY <1>2, <1>3, <1>6, <1>13 DEF IsSeenLeaf
<1>16. BlockOK(h, b)
  BY <1>1, <1>2, <1>3, <1>15 DEF BlockOK
<1>17. TlbStep(h)
  BY <1>12, <1>13, <1>14, <1>16, TlbFilled DEF HartOK
<1> QED
  BY <1>11, <1>12, <1>17 DEF HartGood

LEMMA WalkGood ==
  ASSUME IInv, NEW h \in Harts, vaddr_translate_sv(h)
  PROVE  HartGood(h)
<1> USE DEF IInv, Typed
<1>1. PICK w \in walk[h] :
       LET pteAddr == <<w.base, vpn_index(w.vpn, w.level)>>
           pte == mem[pteAddr]
           page == pte.ppn + (w.vpn % Span(w.level))
       IN IF w.base \notin Tables THEN Faults(h, w.vpn, w.type, ACCESS_FAULT)
          ELSE IF "V" \notin pte.flag \/ Reserved(pte)
          THEN Faults(h, w.vpn, w.type, PAGE_FAULT)
          ELSE IF ~IsLeaf(pte)
          THEN /\ UNCHANGED <<mem, tlb, icache, current, res, csrVars>>
               /\ walk' = [walk EXCEPT ![h] =
                     {[w EXCEPT !.level = @ - 1, !.base = pte.ppn]}]
               /\ NoFence
          ELSE IF LeafAllows(h, pte, w)
          THEN /\ tlb_push(h, w.vpn, page, pteAddr, pte.flag)
               /\ Arrives(h, w.vpn, w.type, page)
          ELSE Faults(h, w.vpn, w.type, PAGE_FAULT)
  BY DEF vaddr_translate_sv
<1>2. UNCHANGED code
  BY DEF vaddr_translate_sv
<1>3. w \in Walks /\ w.vpn \in Vpns /\ w.type \in Types /\ w.level \in Levels
  BY DEF TypedRest, Walks
<1>4. walk[h] = {w} /\ root[h] # Bare /\ w.base \in Promise!Bases(View(h), w.vpn)[w.level]
      /\ (w.base \in Tables => Layer[w.base] = w.level)
      /\ (w.type = FETCH => mode[h] # MACHINE)
  BY DEF HartOK, WalkOK
<1>5. View(h).root # Bare
  BY <1>4 DEF View, Promise!View
<1> DEFINE p == <<w.base, vpn_index(w.vpn, w.level)>>
           pte == mem[p]
           page == pte.ppn + (w.vpn % Span(w.level))
<1>6. CASE w.base \notin Tables
  <2>1. ACCESS_FAULT \in Promise!Outcomes(View(h), w.vpn, w.type)
    BY <1>3, <1>4, <1>5, <1>6, MissingTable
  <2> QED BY <1>1, <1>2, <1>3, <1>6, <2>1, FaultsGood
<1>7. CASE w.base \in Tables
  <2>1. p \in PteAddrs
    BY <1>3, <1>7, AddressType
  <2>2. pte \in Ptes
    BY <2>1 DEF TypedMem
  <2> DEFINE e == Visible[p]
  <2>3. e \in seen[h][p] /\ e \in Ptes /\ e.flag = pte.flag \ {"A", "D"} /\ e.ppn = pte.ppn
    BY <2>1, <2>2, VisibleFacts, PermFacts DEF SeenOK
  <2> HIDE DEF p, pte, page, e
  <2>4. e.flag \ {"A", "D"} = pte.flag \ {"A", "D"}
    BY <2>3
  <2>5. /\ IsLeaf(e) = IsLeaf(pte) /\ Reserved(e) = Reserved(pte)
        /\ ("V" \in e.flag) = ("V" \in pte.flag) /\ ("U" \in e.flag) = ("U" \in pte.flag)
        /\ (w.type \subseteq e.flag) = (w.type \subseteq pte.flag)
    BY <1>3, <2>4, SamePerms
  <2>6. Reaches(View(h), w.vpn, w.level, e)
    BY <1>3, <1>4, <1>7, <2>3 DEF Reaches, View, Promise!View, p
  <2>7. CASE "V" \notin pte.flag \/ Reserved(pte)
    <3>1. ~Promise!IsWellFormed(e, w.level)
      BY <2>5, <2>7, WellFormedSame
    <3>2. PAGE_FAULT \in Promise!Outcomes(View(h), w.vpn, w.type)
      BY <1>3, <1>5, <2>6, <3>1, ReachedOutcome
    <3>3. Faults(h, w.vpn, w.type, PAGE_FAULT)
      BY <1>1, <1>7, <2>7 DEF p, pte
    <3> QED BY <1>2, <1>3, <3>2, <3>3, FaultsGood
  <2>8. CASE "V" \in pte.flag /\ ~Reserved(pte) /\ ~IsLeaf(pte)
    <3> DEFINE v == [w EXCEPT !.level = @ - 1, !.base = pte.ppn]
    <3>1. /\ walk' = [walk EXCEPT ![h] = {v}] /\ NoFence
          /\ UNCHANGED <<mem, tlb, icache, current, res, csrVars>>
      BY <1>1, <1>7, <2>8 DEF p, pte
    <3>2. w.level # 0 /\ (pte.ppn \in Tables => Layer[pte.ppn] = w.level - 1)
      <4>1. PointsDown(Layer, p, pte)
        BY <2>1 DEF MemOK, pte
      <4> QED BY <4>1, <2>8, <1>4, <1>7 DEF PointsDown, IsPointer, p
    <3>3. Promise!IsPointer(e, w.level)
      BY <2>5, <2>8, WellFormedSame, SameShape DEF Promise!IsPointer
    <3>4. w.level - 1 \in Levels /\ e.ppn \in Promise!Bases(View(h), w.vpn)[w.level - 1]
      BY <1>3, <2>6, <3>2, <3>3, PointerDown
    <3>5. v \in Walks /\ v.vpn = w.vpn /\ v.type = w.type /\ v.level = w.level - 1 /\ v.base = pte.ppn
      BY <1>3, <2>2, <3>4 DEF Walks, Ptes
    <3> HIDE DEF v
    <3>6. res[h] = {}
      BY DEF HartOK, WalkOK
    <3>7. ResStep(h) /\ res'[h] = {}
      BY <3>1, <3>6 DEF ResStep, TypedRest
    <3> QED BY <1>2, <1>4, <2>3, <3>1, <3>2, <3>4, <3>5, <3>7, WalkGoesOn
  <2>9. CASE "V" \in pte.flag /\ ~Reserved(pte) /\ IsLeaf(pte) /\ LeafAllows(h, pte, w)
    <3>1. tlb_push(h, w.vpn, page, p, pte.flag) /\ Arrives(h, w.vpn, w.type, page)
      BY <1>1, <1>7, <2>9 DEF p, pte, page
    <3> QED BY <1>2, <1>7, <2>1, <2>9, <3>1, LeafGood DEF p, pte, page
  <2>10. CASE "V" \in pte.flag /\ ~Reserved(pte) /\ IsLeaf(pte) /\ ~LeafAllows(h, pte, w)
    <3>1. \/ ~Promise!IsWellFormed(e, w.level)
          \/ IsLeaf(e) /\ Promise!MayRefuse(View(h), e, w.type)
      BY <2>3, <2>5, <2>10, WellFormedSame DEF LeafAllows, Promise!MayRefuse, Promise!MayUse,
         View, Promise!View, USER, Promise!USER
    <3>2. PAGE_FAULT \in Promise!Outcomes(View(h), w.vpn, w.type)
      BY <1>3, <1>5, <2>6, <3>1, ReachedOutcome
    <3>3. Faults(h, w.vpn, w.type, PAGE_FAULT)
      BY <1>1, <1>7, <2>10 DEF p, pte
    <3> QED BY <1>2, <1>3, <3>2, <3>3, FaultsGood
  <2> QED BY <2>7, <2>8, <2>9, <2>10
<1> QED
  BY <1>6, <1>7

-----------------------------------------------------------------------------
(* The other steps of a hart.                                                *)

(* A step that leaves tables, TLB, walk and registers alone.                 *)
LEMMA PlainGood ==
  ASSUME IInv, NEW h \in Harts, UNCHANGED <<memVars, csrVars, tlb, walk>>, SeenAfter({}),
         codeFloor' = codeFloor \/ codeFloor' = [codeFloor EXCEPT ![h] = code],
         walk[h] = None, Forget(h), CodeStep(h)
  PROVE  HartGood(h)
<1> USE DEF IInv, Typed
<1>1. MemStep(h)
  BY MemSame DEF memVars
<1>2. mode' = mode /\ root' = root /\ code' = code
  BY DEF csrVars, memVars
<1>3. Keeps(h)
  BY <1>1, <1>2, KeepsFacts DEF MemStep
<1>4. TlbStep(h)
  BY <1>3, TlbSame DEF HartOK
<1>5. ResStep(h) /\ CsrStep(h) /\ WalkStep(h)
  BY ForgetStep, CsrSame, WalkCleared DEF Forget
<1>6. RestStep(h)
  BY <1>1, <1>2, <1>5, KeptRest DEF MemStep
<1> QED
  BY <1>1, <1>4, <1>6 DEF HartGood

(* What the steps that neither fence nor change a mode have in common.       *)
LEMMA PlainKeeps ==
  ASSUME IInv, NEW h \in Harts, UNCHANGED <<memVars, csrVars>>, SeenAfter({})
  PROVE  Keeps(h)
<1>1. TypedMem'
  BY DEF IInv, Typed, TypedMem, memVars
<1> QED
  BY <1>1, KeepsFacts DEF IInv, Typed, csrVars

LEMMA FetchCachedGood ==
  ASSUME IInv, NEW h \in Harts, NEW vpn \in Vpns, FetchCached(h, vpn)
  PROVE  HartGood(h)
<1> USE DEF IInv, Typed
<1>1. PICK b \in icache[h][icache_set(vpn)] :
        current' = [current EXCEPT ![h] =
          {[vpn |-> vpn, page |-> b.page, version |-> b.version, cached |-> TRUE]}]
  BY DEF FetchCached, icache_hit
<1>2. b \in IcacheBlocks
  BY <1>1, SetTypes DEF TypedRest
<1> DEFINE c == [vpn |-> vpn, page |-> b.page, version |-> b.version, cached |-> TRUE]
<1>3. c \in Instructions /\ c.cached
  BY <1>2 DEF Instructions, IcacheBlocks
<1>4. /\ UNCHANGED <<memVars, csrVars, tlb, icache, walk>> /\ SeenAfter({}) /\ codeFloor' = codeFloor
      /\ walk[h] = None /\ Forget(h)
  BY DEF FetchCached, NoFence, Idle
<1>5. Keeps(h)
  BY <1>4, PlainKeeps
<1> HIDE DEF c
<1>6. current' = [current EXCEPT ![h] = {c}]
  BY <1>1 DEF c
<1>7. CodeStep(h)
  BY <1>3, <1>4, <1>5, <1>6, CodeFetched DEF HartOK
<1> QED
  BY <1>4, <1>7, PlainGood

LEMMA PmFetchGood ==
  ASSUME IInv, NEW h \in Harts, NEW vpn \in Vpns, pm_fetch(h, vpn)
  PROVE  HartGood(h)
<1> USE DEF IInv, Typed
<1> DEFINE c == [vpn |-> vpn, page |-> vpn, version |-> Version(vpn), cached |-> FALSE]
<1>1. c \in Instructions
  BY DEF Instructions, Version, TypedMem
<1>2. IsFresh(h, c)
  BY DEF pm_fetch, IsFresh, FetchPages, Version, CodeOK, TypedMem, TypedRest
<1>3. /\ UNCHANGED <<memVars, csrVars, tlb, icache, walk>> /\ SeenAfter({}) /\ codeFloor' = codeFloor
      /\ walk[h] = None /\ Forget(h) /\ current' = [current EXCEPT ![h] = {c}]
  BY DEF pm_fetch, NoFence, Idle
<1>4. Keeps(h)
  BY <1>3, PlainKeeps
<1> HIDE DEF c
<1>5. CodeStep(h)
  BY <1>1, <1>2, <1>3, <1>4, CodeFetched DEF HartOK
<1> QED
  BY <1>3, <1>5, PlainGood

LEMMA PlainInstructionGood ==
  ASSUME IInv, NEW h \in Harts, Plain(h) \/ do_fence(h)
  PROVE  HartGood(h)
<1> USE DEF IInv, Typed
<1>1. /\ UNCHANGED <<memVars, csrVars, tlb, walk>> /\ SeenAfter({})
      /\ codeFloor' = codeFloor \/ codeFloor' = [codeFloor EXCEPT ![h] = code]
      /\ walk[h] = None /\ Forget(h)
  BY DEF Plain, do_fence, NoFence, Executes
<1>2. Keeps(h)
  BY <1>1, PlainKeeps
<1>3. \/ CompletesPlainly(h) /\ codeFloor' = codeFloor
      \/ Completes(h, icache_fence(h), "fencer")
  BY DEF Plain, do_fence, NoFence
<1>4. CodeStep(h)
  BY <1>2, <1>3, CodeCompletes DEF HartOK
<1> QED
  BY <1>1, <1>4, PlainGood

LEMMA WriteSumGood ==
  ASSUME IInv, NEW h \in Harts, write_sum(h)
  PROVE  HartGood(h)
<1> USE DEF IInv, Typed
<1>1. MemStep(h)
  BY MemSame DEF write_sum, memVars
<1>2. mode' = mode /\ root' = root /\ code' = code /\ SeenAfter({}) /\ codeFloor' = codeFloor
  BY DEF write_sum, memVars, NoFence
<1>3. Keeps(h)
  BY <1>1, <1>2, KeepsFacts DEF MemStep
<1>4. TlbStep(h)
  BY <1>3, TlbSame DEF HartOK, write_sum
<1>5. ResStep(h) /\ WalkStep(h) /\ CodeStep(h)
  BY <1>2, <1>3, ForgetStep, WalkCleared, CodeCompletes DEF Forget, write_sum, Executes, HartOK
<1>6. CsrStep(h)
  BY DEF write_sum, CsrStep, TypedRest
<1>7. RestStep(h)
  BY <1>1, <1>2, <1>5, <1>6, KeptRest DEF MemStep
<1> QED
  BY <1>1, <1>4, <1>7 DEF HartGood

(* Instructions that empty both caches.                                      *)
LEMMA FencingGood ==
  ASSUME IInv, NEW h \in Harts, UNCHANGED <<memVars, walk>>, walk[h] = None,
         SeenAfter({h}), codeFloor' = [codeFloor EXCEPT ![h] = code],
         tlb' = [tlb EXCEPT ![h] = tlb_fence(h)], Forget(h), CsrStep(h), CodeStep(h)
  PROVE  HartGood(h)
<1> USE DEF IInv, Typed
<1>1. MemStep(h)
  BY MemSame DEF memVars
<1>2. TlbStep(h)
  BY TlbEmptied
<1>3. ResStep(h) /\ WalkStep(h)
  BY ForgetStep, WalkCleared DEF Forget
<1>4. RestStep(h)
  BY <1>1, <1>3, FencedRest DEF MemStep, memVars
<1> QED
  BY <1>1, <1>2, <1>4 DEF HartGood

LEMMA ReturnGood ==
  ASSUME IInv, NEW h \in Harts, NEW m \in {USER, SUPERVISOR, MACHINE}, Return(h, m)
  PROVE  HartGood(h)
<1> USE DEF IInv, Typed
<1>1. update_vm_translate(h, m, satp[h]) /\ satp[h] \in Roots \cup {Bare}
      /\ mode' = [mode EXCEPT ![h] = m] /\ sum' = sum /\ satp' = satp
  BY DEF Return, set_priv_mode, TypedRest
<1>2. CsrStep(h)
  BY <1>1, UpdateVm
<1>3. CodeStep(h)
  BY CodeCompletes DEF Return, HartOK
<1>4. UNCHANGED <<memVars, walk>> /\ walk[h] = None /\ Forget(h)
  BY DEF Return, Executes
<1> QED
  BY <1>1, <1>2, <1>3, <1>4, FencingGood DEF update_vm_translate

LEMMA WriteSatpGood ==
  ASSUME IInv, NEW h \in Harts, NEW s \in Roots \cup {Bare}, write_satp(h, s)
  PROVE  HartGood(h)
<1> USE DEF IInv, Typed
<1>1. update_vm_translate(h, mode[h], s) /\ mode[h] \in {USER, SUPERVISOR, MACHINE}
      /\ mode' = mode /\ sum' = sum /\ satp' = [satp EXCEPT ![h] = s]
  BY DEF write_satp, TypedRest
<1>2. CsrStep(h)
  BY <1>1, UpdateVm
<1>3. CodeStep(h)
  BY CodeCompletes DEF write_satp, HartOK
<1>4. UNCHANGED <<memVars, walk>> /\ walk[h] = None /\ Forget(h)
  BY DEF write_satp, Executes
<1> QED
  BY <1>1, <1>2, <1>3, <1>4, FencingGood DEF update_vm_translate

LEMMA SfenceGood ==
  ASSUME IInv, NEW h \in Harts, do_sfence_vma(h)
  PROVE  HartGood(h)
<1> USE DEF IInv, Typed
<1>1. CsrStep(h)
  BY CsrSame DEF do_sfence_vma
<1>2. CodeStep(h)
  BY CodeCompletes DEF do_sfence_vma, HartOK
<1> QED
  BY <1>1, <1>2, FencingGood DEF do_sfence_vma, Executes

LEMMA ResetGood ==
  ASSUME IInv, NEW h \in Harts, reset(h)
  PROVE  HartGood(h)
<1> USE DEF IInv, Typed
<1>1. CsrStep(h)
  BY DEF reset, CsrStep, TypedRest
<1> DEFINE ic == [s \in IcacheSets |-> {[b EXCEPT !.origin = "beforeReset"] : b \in icache[h][s]}]
<1>2. /\ icache' = [icache EXCEPT ![h] = ic] /\ UNCHANGED current /\ current[h] = {}
  BY DEF reset, Idle, None
<1>3. ASSUME NEW s \in IcacheSets, NEW b \in icache[h][s]
      PROVE  LET c == [b EXCEPT !.origin = "beforeReset"]
             IN c \in IcacheBlocks /\ c.vpn = b.vpn /\ c.origin = "beforeReset"
  <2>1. b \in IcacheBlocks
    BY DEF TypedRest
  <2> QED BY <2>1 DEF IcacheBlocks
<1>4. ic \in [IcacheSets -> SUBSET IcacheBlocks]
  BY <1>3
<1>5. ASSUME NEW s \in IcacheSets, NEW c \in ic[s]
      PROVE  ic[s] = {c} /\ icache_set(c.vpn) = s /\ c.origin = "beforeReset"
  <2>1. PICK b \in icache[h][s] : c = [b EXCEPT !.origin = "beforeReset"]
    OBVIOUS
  <2>2. icache[h][s] = {b} /\ icache_set(b.vpn) = s
    BY DEF HartOK, IcacheOK
  <2> QED BY <2>1, <2>2, <1>3
<1> HIDE DEF ic
<1>6. icache'[h] = ic
  BY <1>2 DEF TypedRest
<1>7. CurrentOK(h)' /\ IcacheOK(h)'
  BY <1>2, <1>5, <1>6 DEF CurrentOK, IcacheOK
<1>8. CodeStep(h)
  BY <1>2, <1>4, <1>7 DEF CodeStep, TypedRest
<1> QED
  BY <1>1, <1>8, FencingGood DEF reset, Idle

LEMMA TakeTrapGood ==
  ASSUME IInv, NEW h \in Harts, TakeTrap(h)
  PROVE  HartGood(h)
BY ForgetStep, TrapsRest DEF TakeTrap, Forget, memVars, IInv, Typed

LEMMA HartStepGood ==
  ASSUME IInv, NEW h \in Harts,
         \/ Hart(h)
         \/ reset(h)
         \/ \E vpn \in Vpns : Inspect(h, vpn)
  PROVE  HartGood(h)
<1>1. ASSUME NEW vpn \in Vpns, vm_fetch(h, vpn) PROVE HartGood(h)
  BY <1>1, CoreGood DEF vm_fetch, Types
<1>2. ASSUME NEW vpn \in Vpns, NEW type \in {LOAD, STORE, AMO}, DataAccess(h, vpn, type)
      PROVE  HartGood(h)
  BY <1>2, CoreGood DEF DataAccess, Types
<1>3. ASSUME NEW vpn \in Vpns, Inspect(h, vpn) PROVE HartGood(h)
  <2>1. DontCare \in Types /\ DontCare # FETCH
    BY DEF Types, DontCare, FETCH
  <2> QED BY <1>3, <2>1, CoreGood DEF Inspect
<1> QED
  BY <1>1, <1>2, <1>3, FetchCachedGood, PmFetchGood, WalkGood, PlainInstructionGood,
     TakeTrapGood, ReturnGood, WriteSatpGood, WriteSumGood, SfenceGood, ResetGood DEF Hart

-----------------------------------------------------------------------------
(* The guest's stores.                                                       *)

(***************************************************************************)
(* The guest's stores, and the theorems.                                   *)
(***************************************************************************)
LEMMA QuietOK ==
  ASSUME IInv, NEW g \in Harts, Quiet(g), tlb'[g] = tlb[g]
  PROVE  HartOK(g)'
BY TlbKept, WalkKept, CurrentKept, IcacheKept DEF Quiet, IInv, Typed, HartOK

LEMMA GuestQuiet ==
  ASSUME IInv, TypedMem', NoFence,
         UNCHANGED <<mode, sum, satp, root, tlb, icache, walk, current, res>>
  PROVE  /\ TypedTlb' /\ TypedRest' /\ SeenOK'
         /\ \A g \in Harts : Quiet(g) /\ HartOK(g)'
<1> USE DEF IInv, Typed
<1>1. /\ seen' \in [Harts -> [PteAddrs -> SUBSET Ptes]] /\ SeenOK'
      /\ \A g \in Harts : Promise!Remembers(g)
      /\ codeFloor' = codeFloor
  BY NoFenceFacts
<1>2. TypedRest'
  BY <1>1 DEF TypedRest
<1>3. TypedTlb'
  BY DEF TypedTlb
<1>4. \A g \in Harts : Quiet(g)
  BY <1>1 DEF Quiet, Keeps
<1>5. \A g \in Harts : HartOK(g)'
  BY <1>4, QuietOK
<1> QED
  BY <1>1, <1>2, <1>3, <1>4, <1>5

LEMMA StorePteGood ==
  ASSUME IInv, NEW w \in GuestPtes, StorePte(w[1], w[2])
  PROVE  IInv' /\ Promise!GuestWrites
<1> USE DEF IInv, Typed
<1>1. w[1] \in PteAddrs /\ w[2] \in Ptes /\ PointsDown(Layer, w[1], w[2])
  BY GuestAssumption, LayerDef DEF IsLayer
<1>2. mem' = [mem EXCEPT ![w[1]] = w[2]] /\ code' = code /\ NoFence
      /\ UNCHANGED <<mode, sum, satp, root, tlb, icache, walk, current, res>>
  BY DEF StorePte, csrVars
<1>3. TypedMem' /\ MemOK'
  BY <1>1, <1>2 DEF TypedMem, MemOK
<1>4. /\ TypedTlb' /\ TypedRest' /\ SeenOK'
      /\ \A g \in Harts : Quiet(g) /\ HartOK(g)'
  BY <1>2, <1>3, GuestQuiet
<1>5. CodeOK'
  BY <1>2 DEF CodeOK, NoFence
<1>6. \A q \in PteAddrs \ {w[1]} : Visible'[q] = Visible[q]
  BY <1>1, <1>2 DEF Visible, TypedMem
<1>7. Promise!GuestWrites
  BY <1>1, <1>2, <1>4, <1>6, SameShape DEF Promise!GuestWrites, Quiet, Keeps
<1> QED
  BY <1>3, <1>4, <1>5, <1>7

LEMMA StoreCodeGood ==
  ASSUME IInv, NEW page \in CodePages, StoreCode(page)
  PROVE  IInv' /\ UNCHANGED Promise!vars
<1> USE DEF IInv, Typed
<1>1. mem' = mem /\ code' = [code EXCEPT ![page] = @ + 1] /\ NoFence
      /\ UNCHANGED <<mode, sum, satp, root, tlb, icache, walk, current, res>>
  BY DEF StoreCode, csrVars
<1>2. TypedMem'
  BY <1>1 DEF TypedMem
<1>3. MemOK'
  BY <1>1 DEF MemOK
<1>4. /\ TypedTlb' /\ TypedRest' /\ SeenOK'
      /\ \A g \in Harts : Quiet(g) /\ HartOK(g)'
  BY <1>1, <1>2, GuestQuiet
<1>5. CodeOK'
  BY <1>1 DEF CodeOK, NoFence, TypedMem, TypedRest
<1>6. Visible' = Visible
  BY <1>1 DEF Visible
<1>7. seen' = seen
  <2>1. \A g \in Harts, p \in PteAddrs : {Visible'[p]} \cup seen[g][p] = seen[g][p]
    BY <1>6 DEF SeenOK
  <2>2. seen = [g \in Harts |-> [p \in PteAddrs |-> seen[g][p]]]
    BY DEF TypedRest
  <2>3. seen' = [g \in Harts |-> [p \in PteAddrs |-> {Visible'[p]} \cup seen[g][p]]]
    BY <1>1 DEF NoFence, SeenAfter
  <2> QED BY <2>1, <2>2, <2>3
<1> QED
  BY <1>1, <1>2, <1>3, <1>4, <1>5, <1>6, <1>7 DEF Promise!vars

LEMMA HartGoodInv ==
  ASSUME IInv, NEW h \in Harts, HartGood(h)
  PROVE  IInv' /\ Promise!HartStep(h)
<1> USE DEF IInv, Typed
<1>1. \A g \in Harts \ {h} : HartOK(g)'
  BY QuietOK DEF HartGood, TlbStep, RestStep
<1>2. HartOK(h)'
  BY DEF HartGood, TlbStep, RestStep, HartOK
<1>3. IInv'
  BY <1>1, <1>2 DEF HartGood, MemStep, TlbStep, RestStep
<1>4. Promise!HartStep(h)
  BY DEF Promise!HartStep, HartGood, MemStep, RestStep, Quiet, Keeps
<1> QED
  BY <1>3, <1>4

LEMMA StepGood ==
  ASSUME IInv, Next
  PROVE  IInv' /\ (Promise!Next \/ UNCHANGED Promise!vars)
<1>1. ASSUME NEW h \in Harts,
             \/ Hart(h)
             \/ reset(h)
             \/ \E vpn \in Vpns : Inspect(h, vpn)
      PROVE  IInv' /\ Promise!Next
  <2>1. HartGood(h)
    BY <1>1, HartStepGood
  <2> QED BY <2>1, HartGoodInv DEF Promise!Next
<1>2. CASE Guest
  BY <1>2, StorePteGood, StoreCodeGood DEF Guest, Promise!Next
<1>3. CASE (\E h \in Harts : Hart(h)) \/ Debugger
  BY <1>1, <1>3 DEF Debugger
<1> QED
  BY <1>2, <1>3 DEF Next

LEMMA StutterGood ==
  ASSUME IInv, UNCHANGED vars
  PROVE  IInv' /\ UNCHANGED Promise!vars
<1> USE DEF vars
<1>1. UNCHANGED Visible
  BY DEF Visible
<1>2. Typed' /\ MemOK' /\ SeenOK' /\ CodeOK'
  BY <1>1 DEF IInv, Typed, TypedMem, TypedTlb, TypedRest, MemOK, SeenOK, CodeOK
<1>3. ASSUME NEW h \in Harts PROVE HartOK(h)'
  <2>1. View(h)' = View(h)
    BY DEF View, Promise!View
  <2>2. HartOK(h)
    BY DEF IInv
  <2>3. TlbOK(h)'
    BY <2>1, <2>2 DEF HartOK, TlbOK, BlockOK, IsSeenLeaf, Levels, Promise!Levels
  <2>4. WalkOK(h)'
    BY <2>1, <2>2 DEF HartOK, WalkOK
  <2>5. \A vpn : FetchPages(h, vpn)' = FetchPages(h, vpn)
    BY <2>1 DEF FetchPages, View
  <2>6. CurrentOK(h)' /\ IcacheOK(h)'
    BY <2>2, <2>5 DEF HartOK, CurrentOK, IcacheOK, IsFresh
  <2> QED BY <2>3, <2>4, <2>6 DEF HartOK
<1> QED
  BY <1>1, <1>2, <1>3 DEF IInv, Promise!vars

LEMMA InitGood ==
  ASSUME Init
  PROVE  IInv /\ Promise!Init
<1>1. TypedMem
  BY GuestAssumption DEF Init, TypedMem
<1>2. /\ Visible \in [PteAddrs -> Ptes]
      /\ \A p \in PteAddrs : Visible[p] = Perm(mem[p])
  BY <1>1, VisibleFacts
<1>3. TypedTlb
  BY DEF Init, TypedTlb, NoTlb, None
<1>4. TypedRest
  <2>1. seen \in [Harts -> [PteAddrs -> SUBSET Ptes]]
    BY <1>2 DEF Init
  <2> QED BY <2>1, <1>1 DEF Init, TypedRest, TypedMem, NoIcache, None, USER, SUPERVISOR, MACHINE
<1>5. MemOK
  BY LayerDef DEF Init, MemOK, IsLayer
<1>6. SeenOK
  BY DEF Init, SeenOK
<1>7. CodeOK
  BY DEF Init, CodeOK
<1>8. \A h \in Harts : HartOK(h)
  BY DEF Init, HartOK, TlbOK, WalkOK, CurrentOK, IcacheOK, NoTlb, NoIcache, None
<1>9. Promise!Init
  BY SameShape DEF Init, Promise!Init, Promise!Now, None, MACHINE, Promise!MACHINE
<1> QED
  BY <1>1, <1>3, <1>4, <1>5, <1>6, <1>7, <1>8, <1>9 DEF IInv, Typed

(* Every TLB block, walk, fetched instruction and cached block of code is one *)
(* the entries seen since the hart's last fence account for (IInv): what the  *)
(* walk of vaddr_translate_sv, tlb_push, evict, icache_push and the fences of *)
(* memory.cpp and csr.cpp keep true of each other.                            *)
THEOREM InductiveInvariant == Spec => []IInv
<1>1. IInv /\ [Next]_vars => IInv'
  BY StepGood, StutterGood
<1> QED
  BY <1>1, InitGood, PTL DEF Spec

(* Types of Translation's variables; each TLB and cache set holds at most one *)
(* block, of a page of that set, and a hart makes at most one walk at a time. *)
THEOREM TypeCorrect == Spec => []TranslationTypeOK
<1>1. IInv => TranslationTypeOK
  <2> SUFFICES ASSUME IInv PROVE TranslationTypeOK
    OBVIOUS
  <2> USE DEF IInv, Typed
  <2>1. \A h \in Harts : \A w \in walk[h] : walk[h] = {w} /\ w.level \in 0 .. LEVELS - 1
    <3>1. \A h \in Harts : \A w \in walk[h] : w \in Walks
      BY DEF TypedRest
    <3> QED BY <3>1, LevelsType DEF HartOK, WalkOK, Walks
  <2>2. \A h \in Harts : \A c \in current[h] : current[h] = {c} /\ c.vpn \in Vpns
    <3>1. \A h \in Harts : \A c \in current[h] : c \in Instructions
      BY DEF TypedRest
    <3> QED BY <3>1 DEF HartOK, CurrentOK, Instructions
  <2>3. \A h \in Harts : \A s \in TlbSets : \A b \in tlb[h][s] : tlb[h][s] = {b} /\ tlb_set(b.vpn) = s
    BY DEF HartOK, TlbOK
  <2>4. \A h \in Harts : \A s \in IcacheSets : \A b \in icache[h][s] :
            icache[h][s] = {b} /\ icache_set(b.vpn) = s
    BY DEF HartOK, IcacheOK
  <2> QED BY <2>1, <2>2, <2>3, <2>4 DEF TranslationTypeOK, TypedRest
<1> QED
  BY <1>1, InductiveInvariant, PTL

(* A block icache_push put in the instruction cache holds code a fetch could  *)
(* return now, for the entries and the code of the hart's last fence or later *)
(* ones; only the block of the instruction that fences is of before.          *)
THEOREM FreshCode == Spec => []CachedCodeIsFresh
<1>1. IInv => CachedCodeIsFresh
  <2> SUFFICES ASSUME IInv, NEW h \in Harts
               PROVE  LET blocks == UNION {icache[h][s] : s \in IcacheSets}
                      IN /\ \A b \in blocks : b.origin = "fetched" => IsFresh(h, b)
                         /\ Cardinality({b \in blocks : b.origin = "fencer"}) <= 1
    BY DEF CachedCodeIsFresh
  <2> DEFINE blocks == UNION {icache[h][s] : s \in IcacheSets}
             fencers == {b \in blocks : b.origin = "fencer"}
  <2>1. IcacheOK(h)
    BY DEF IInv, HartOK
  <2>2. \A b \in blocks : b.origin = "fetched" => IsFresh(h, b)
    BY <2>1 DEF IcacheOK
  <2>3. \A b, c \in fencers : b = c
    BY <2>1 DEF IcacheOK
  <2>4. Cardinality(fencers) <= 1
    <3> HIDE DEF fencers
    <3>1. CASE fencers = {}
      <4>1. Cardinality(fencers) = 0
        BY <3>1, FS_EmptySet
      <4> QED BY <4>1, SMT
    <3>2. ASSUME NEW b \in fencers PROVE Cardinality(fencers) <= 1
      <4>1. fencers = {b}
        BY <2>3
      <4>2. Cardinality({b}) = 1
        BY FS_Singleton
      <4>3. Cardinality(fencers) = 1
        BY <4>1, <4>2
      <4> QED BY <4>3, SMT
    <3> QED BY <3>1, <3>2
  <2> QED BY <2>2, <2>4
<1> QED
  BY <1>1, InductiveInvariant, PTL

(* Translation implements VirtualMemory: vm_translate's result, from the TLB, *)
(* a walk other harts write the tables under, or none, is one a walk over the *)
(* entries visible since the hart's last fence could give.                    *)
THEOREM Refinement == Spec => ImplementsVirtualMemory
<1>1. Init => Promise!Init
  BY InitGood
<1>2. IInv /\ [Next]_vars => [Promise!Next]_(Promise!vars)
  BY StepGood, StutterGood
<1> QED
  BY <1>1, <1>2, InductiveInvariant, PTL DEF Spec, ImplementsVirtualMemory, Promise!Spec

=============================================================================
