--------------------------- MODULE VirtualMemory ---------------------------
(***************************************************************************)
(* What the harts' address translation promises: a translation may use,    *)
(* for each page-table entry on its way, any value the entry has had since *)
(* the hart's last SFENCE.VMA, and nothing older.  Changing the privilege  *)
(* mode or satp fences.  Beside the guest, the harts write entries too,    *)
(* but only the flags of a value that was there since the hart's fence.    *)
(* Translation is shown to implement this.                                 *)
(***************************************************************************)
EXTENDS Integers

CONSTANTS Harts,
          LEVELS, VPNBITS,    (* shape of the page tables                   *)
          Tables,             (* frames that hold page tables               *)
          Vpns,               (* virtual page numbers in use                *)
          Bare,               (* root of a hart that does not translate     *)
          PAGE_FAULT, ACCESS_FAULT

USER == 0
SUPERVISOR == 1
MACHINE == 3

Levels == 0 .. LEVELS - 1

(* Pages spanned by a leaf of the level; index of the page in its table.    *)
Span(level) == 2 ^ (VPNBITS * level)
vpn_index(vpn, level) == (vpn \div Span(level)) % 2 ^ VPNBITS

PteAddrs == Tables \X (0 .. 2 ^ VPNBITS - 1)

VARIABLES
  mem,      (* page-table entries without their A and D bits               *)
  mode, sum, root,
  seen,     (* values of each entry since the hart's last fence            *)
  res       (* the translation the hart has just made, or {}               *)

vars == <<mem, mode, sum, root, seen, res>>

IsLeaf(pte) == pte.flag \cap {"R", "X"} # {}

IsWellFormed(pte, level) ==
  /\ "V" \in pte.flag
  /\ "W" \in pte.flag => "R" \in pte.flag
  /\ IsLeaf(pte) => pte.ppn % Span(level) = 0

(* What a hart translates by.                                               *)
View(h) == [mode |-> mode[h], sum |-> sum[h], root |-> root[h], seen |-> seen[h]]

(* For a stopped hart in M-mode the debugger may get either answer.         *)
MayUse(view, pte, type) ==
  /\ type \subseteq pte.flag
  /\ view.mode = USER => "U" \in pte.flag
  /\ view.mode # USER /\ "U" \in pte.flag => view.sum

MayRefuse(view, pte, type) == ~MayUse(view, pte, type) \/ view.mode = MACHINE

(* Entries of the tables that a walk for vpn may find at a level.           *)
Entries(view, vpn, tables, level) ==
  UNION {view.seen[<<b, vpn_index(vpn, level)>>] : b \in tables \cap Tables}

IsPointer(pte, level) == IsWellFormed(pte, level) /\ ~IsLeaf(pte)

(* The tables, or pages that are none, a walk may come to at each level.    *)
Bases(view, vpn) ==
  LET bases[level \in Levels] ==
        IF level = LEVELS - 1 THEN {view.root}
        ELSE {pte.ppn : pte \in {e \in Entries(view, vpn, bases[level + 1], level + 1) :
                                   IsPointer(e, level + 1)}}
  IN bases

Usable(view, type, found, level) ==
  {e \in found : IsWellFormed(e, level) /\ IsLeaf(e) /\ MayUse(view, e, type)}

Refused(view, type, found, level) ==
  {e \in found : ~IsWellFormed(e, level) \/ (IsLeaf(e) /\ MayRefuse(view, e, type))}

OutcomesAt(view, vpn, type, tables, level) ==
  LET found == Entries(view, vpn, tables, level)
  IN {pte.ppn + (vpn % Span(level)) : pte \in Usable(view, type, found, level)}
     \cup {PAGE_FAULT : pte \in Refused(view, type, found, level)}
     \cup {ACCESS_FAULT : b \in tables \ Tables}

Outcomes(view, vpn, type) ==
  IF view.root = Bare THEN {vpn}
  ELSE UNION {OutcomesAt(view, vpn, type, Bases(view, vpn)[level], level) : level \in Levels}

-----------------------------------------------------------------------------

Now == [p \in PteAddrs |-> {mem[p]}]

Init ==
  /\ mode = [h \in Harts |-> MACHINE]
  /\ sum = [h \in Harts |-> FALSE]
  /\ root = [h \in Harts |-> Bare]
  /\ seen = [h \in Harts |-> Now]
  /\ res = [h \in Harts |-> {}]

Remembers(h) == seen'[h] = [p \in PteAddrs |-> seen[h][p] \cup {mem'[p]}]

Fences(h) == seen'[h] = Now'

(* The guest, from any hart, writes an entry.                               *)
GuestWrites ==
  /\ \E p \in PteAddrs : \A q \in PteAddrs \ {p} : mem'[q] = mem[q]
  /\ \A h \in Harts : Remembers(h)
  /\ UNCHANGED <<mode, sum, root, res>>

(* The flags of one entry return to what they were since the hart's fence.  *)
WritesBack(h) ==
  \E p \in PteAddrs : \E pte \in seen[h][p] :
    mem' = [mem EXCEPT ![p].flag = pte.flag]

Translates(h) ==
  \E t \in res'[h] : t.out \in Outcomes(View(h), t.vpn, t.type)

HartStep(h) ==
  /\ mem' = mem \/ WritesBack(h)
  /\ res'[h] = {} \/ Translates(h)
  /\ \/ Fences(h)
     \/ Remembers(h) /\ mode'[h] = mode[h] /\ root'[h] = root[h]
  /\ \A g \in Harts \ {h} :
       /\ Remembers(g)
       /\ mode'[g] = mode[g] /\ sum'[g] = sum[g] /\ root'[g] = root[g]
       /\ res'[g] = res[g]

Next == GuestWrites \/ \E h \in Harts : HartStep(h)

Spec == Init /\ [][Next]_vars

=============================================================================
