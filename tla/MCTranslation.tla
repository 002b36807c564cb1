--------------------------- MODULE MCTranslation ---------------------------
(* Page 0 is mapped through a table of the second level and page 2 by a user *)
(* superpage; they share a set of the TLB.  The guest may remap page 0 for    *)
(* execution only, or make its table one that does not exist.                 *)
EXTENDS Translation

Pte(flag, ppn) == [flag |-> flag, ppn |-> ppn]
Invalid == Pte({}, 0)
RWX == {"V", "R", "W", "X"}

MCTables == {8, 9}
MCVpns == {0, 2}
MCRoots == {8}
MCInitMem ==
  [p \in PteAddrs |->
     CASE p = <<8, 0>>  -> Pte({"V"}, 9)
       [] p = <<8, 1>>  -> Pte(RWX \cup {"U"}, 2)
       [] p = <<9, 0>>  -> Pte(RWX, 0)
       [] OTHER         -> Invalid]
MCGuestPtes == {<<<<9, 0>>, Pte({"V", "X"}, 1)>>, <<<<8, 0>>, Pte({"V"}, 12)>>}
MCCodePages == {0}
=============================================================================
