---------------------------- MODULE KconfigExpr ----------------------------
(***************************************************************************)
(* The dependencies of tools/kconfig: how expr.c simplifies an expression  *)
(* in place, and what menu.c does with the result.                         *)
(*                                                                         *)
(* An expression is a tree of records; the C unions left and right are     *)
(* lsym and rsym where they hold symbols.  A leaf of a chain of && or ||   *)
(* that the code reaches through a pointer to a pointer is an element of   *)
(* the chain's sequence of operands, and trans_count is what a function    *)
(* returns beside its tree.                                                *)
(***************************************************************************)
EXTENDS Naturals, SequencesExt

Null == [type |-> "NULL"]
symbol_no == "n"
symbol_mod == "m"
symbol_yes == "y"
modules_sym == "MODULES"

(* A is declared tristate, B and MODULES are bool, and the constants are    *)
(* left without a type.                                                     *)
SymbolType(sym) ==
  IF sym \in {symbol_no, symbol_mod, symbol_yes} THEN "UNKNOWN"
  ELSE IF sym = "A" THEN "TRISTATE" ELSE "BOOLEAN"

IsConst(sym) == sym \in {symbol_no, symbol_mod, symbol_yes}

expr_alloc_symbol(sym) == [type |-> "SYMBOL", lsym |-> sym]
expr_alloc_one(e) == [type |-> "NOT", left |-> e]
expr_alloc_two(type, e1, e2) == [type |-> type, left |-> e1, right |-> e2]
expr_alloc_comp(type, s1, s2) == [type |-> type, lsym |-> s1, rsym |-> s2]

Alloc(type, e1, e2) ==
  IF e1 = Null THEN e2 ELSE IF e2 = Null THEN e1 ELSE expr_alloc_two(type, e1, e2)
expr_alloc_and(e1, e2) == Alloc("AND", e1, e2)
expr_alloc_or(e1, e2) == Alloc("OR", e1, e2)

Yes == expr_alloc_symbol(symbol_yes)
No == expr_alloc_symbol(symbol_no)
IsSymbol(e, sym) == e.type = "SYMBOL" /\ e.lsym = sym
expr_is_yes(e) == e = Null \/ IsSymbol(e, symbol_yes)

Connective == {"AND", "OR"}
Relation == {"EQUAL", "UNEQUAL", "LTH", "LEQ", "GTH", "GEQ"}

-----------------------------------------------------------------------------
(* The value of an expression when the symbols have the values of env.      *)
Tristate == 0 .. 2
SymbolValue(sym, env) ==
  CASE sym = symbol_no -> 0
    [] sym = symbol_mod -> 1
    [] sym = symbol_yes -> 2
    [] OTHER -> env[sym]

(* A constant is compared as the string it is, and 'm' < 'n' < 'y'; only    *)
(* two declared symbols are compared as tristates.                          *)
expr_parse_string(v, type) == type # "UNKNOWN"
StringRank(v) == <<2, 1, 3>>[v + 1]

Rank(e, sym, env) ==
  LET v == SymbolValue(sym, env)
  IN  IF \A s \in {e.lsym, e.rsym} : expr_parse_string(v, SymbolType(s)) THEN v ELSE StringRank(v)

Holds(type, l, r) ==
  CASE type = "EQUAL" -> l = r
    [] type = "UNEQUAL" -> l # r
    [] type = "LTH" -> l < r
    [] type = "LEQ" -> l <= r
    [] type = "GTH" -> l > r
    [] type = "GEQ" -> l >= r

RECURSIVE expr_calc_value(_, _)
expr_calc_value(e, env) ==
  CASE e.type = "NULL" -> 2
    [] e.type = "SYMBOL" -> SymbolValue(e.lsym, env)
    [] e.type = "NOT" -> 2 - expr_calc_value(e.left, env)
    [] e.type = "AND" ->
         LET l == expr_calc_value(e.left, env)
             r == expr_calc_value(e.right, env)
         IN  IF l < r THEN l ELSE r
    [] e.type = "OR" ->
         LET l == expr_calc_value(e.left, env)
             r == expr_calc_value(e.right, env)
         IN  IF l > r THEN l ELSE r
    [] OTHER -> IF Holds(e.type, Rank(e, e.lsym, env), Rank(e, e.rsym, env)) THEN 2 ELSE 0

-----------------------------------------------------------------------------
(* What e && y, e && n, e || y and e || n become, left operand first.       *)
RECURSIVE expr_eliminate_yn(_)
expr_eliminate_yn(e) ==
  IF e.type \notin Connective THEN e
  ELSE LET left == expr_eliminate_yn(e.left)
           right == expr_eliminate_yn(e.right)
           zero == IF e.type = "AND" THEN symbol_no ELSE symbol_yes
           unit == IF e.type = "AND" THEN symbol_yes ELSE symbol_no
       IN  IF IsSymbol(left, zero) THEN left
           ELSE IF IsSymbol(left, unit) THEN right
           ELSE IF IsSymbol(right, zero) THEN right
           ELSE IF IsSymbol(right, unit) THEN left
           ELSE [e EXCEPT !.left = left, !.right = right]

(* The leaves of a chain of one connective, and the chain with others.      *)
RECURSIVE Operands(_, _)
Operands(type, e) ==
  IF e.type = type THEN Operands(type, e.left) \o Operands(type, e.right) ELSE <<e>>

RECURSIVE WithOperands(_, _, _)
WithOperands(type, e, ops) ==
  IF e.type # type THEN ops[1]
  ELSE LET n == Len(Operands(type, e.left))
       IN  expr_alloc_two(type, WithOperands(type, e.left, SubSeq(ops, 1, n)),
                                WithOperands(type, e.right, SubSeq(ops, n + 1, Len(ops))))

(* Every leaf of one chain against every leaf of the other.                 *)
Pairs(n, m) == [k \in 1 .. n * m |-> <<1 + (k - 1) \div m, 1 + ((k - 1) % m)>>]

Neutral(type) == IF type = "AND" THEN Yes ELSE No

RECURSIVE expr_eliminate_eq(_, _), expr_eq(_, _)

EliminateEqual(type, p) ==
  LET one == Operands(type, p[1])
      two == Operands(type, p[2])
      Step(s, k) ==
        LET l1 == s[1][k[1]]
            l2 == s[2][k[2]]
        IN  IF (l1 = l2 /\ l1 \in {Yes, No}) \/ ~expr_eq(l1, l2) THEN s
            ELSE <<[s[1] EXCEPT ![k[1]] = Neutral(type)], [s[2] EXCEPT ![k[2]] = Neutral(type)]>>
      Trees(after) == <<WithOperands(type, p[1], after[1]), WithOperands(type, p[2], after[2])>>
  IN  Trees(FoldLeft(Step, <<one, two>>, Pairs(Len(one), Len(two))))

(* The operands both have are taken out of both.                            *)
expr_eliminate_eq(e1, e2) ==
  LET Eliminate(p, type, other) == IF type \in Connective \ {other} THEN EliminateEqual(type, p) ELSE p
      Second(p) == Eliminate(p, p[2].type, p[1].type)
      Folded(p) == <<expr_eliminate_yn(p[1]), expr_eliminate_yn(p[2])>>
  IN  IF Null \in {e1, e2} THEN <<e1, e2>>
      ELSE Folded(Second(Eliminate(<<e1, e2>>, e1.type, "NULL")))

expr_eq(e1, e2) ==
  CASE Null \in {e1, e2} -> expr_is_yes(e1) /\ expr_is_yes(e2)
    [] e1.type # e2.type -> FALSE
    [] e1.type \in Relation -> e1.lsym = e2.lsym /\ e1.rsym = e2.rsym
    [] e1.type = "SYMBOL" -> e1.lsym = e2.lsym
    [] e1.type = "NOT" -> expr_eq(e1.left, e2.left)
    [] OTHER ->
         \E p \in {expr_eliminate_eq(e1, e2)} :
           p[1].type = "SYMBOL" /\ p[2].type = "SYMBOL" /\ p[1].lsym = p[2].lsym

RECURSIVE expr_trans_bool(_)
expr_trans_bool(e) ==
  CASE e.type \in Connective ->
         [e EXCEPT !.left = expr_trans_bool(@), !.right = expr_trans_bool(@)]
    [] e.type = "NOT" -> [e EXCEPT !.left = expr_trans_bool(@)]
    [] e.type = "UNEQUAL" /\ SymbolType(e.lsym) = "TRISTATE" /\ e.rsym = symbol_no ->
         expr_alloc_symbol(e.lsym)
    [] OTHER -> e

-----------------------------------------------------------------------------
(* Two operands about one symbol become one.                                *)
JoinSymbol(e) == IF e.type = "NOT" THEN e.left.lsym ELSE e.lsym

(* Mutant: the symbols of the two operands are not compared.                *)
AnySymbol(e1, e2) == TRUE
SameSymbol(e1, e2) == JoinSymbol(e1) = JoinSymbol(e2)

Joinable(e1, e2) ==
  LET Simple == {"EQUAL", "UNEQUAL", "SYMBOL"}
  IN  /\ e1.type \in Simple \/ (e1.type = "NOT" /\ e1.left.type \in Simple)
      /\ e2.type \in Simple \/ (e2.type = "NOT" /\ e2.left.type = "SYMBOL")
      /\ SameSymbol(e1, e2)
      /\ SymbolType(JoinSymbol(e1)) \in {"BOOLEAN", "TRISTATE"}

(* The two are a comparison of each type, with these right sides.           *)
Both(type, e1, e2, syms) == e1.type = type /\ e2.type = type /\ {e1.rsym, e2.rsym} = syms

expr_join_or(e1, e2) ==
  LET sym == JoinSymbol(e1)
      tristate == SymbolType(sym) = "TRISTATE"
  IN  IF expr_eq(e1, e2) THEN e1
      ELSE IF ~Joinable(e1, e2) THEN Null
      ELSE CASE tristate /\ Both("EQUAL", e1, e2, {symbol_yes, symbol_mod}) ->
                  expr_alloc_comp("UNEQUAL", sym, symbol_no)
             [] tristate /\ Both("EQUAL", e1, e2, {symbol_yes, symbol_no}) ->
                  expr_alloc_comp("UNEQUAL", sym, symbol_mod)
             [] tristate /\ Both("EQUAL", e1, e2, {symbol_mod, symbol_no}) ->
                  expr_alloc_comp("UNEQUAL", sym, symbol_yes)
             [] ~tristate /\ {e1, e2} = {expr_alloc_symbol(sym), expr_alloc_one(expr_alloc_symbol(sym))} -> Yes
             [] OTHER -> Null

(* A symbol beside a comparison of it, in either order.                     *)
Beside(e1, e2, type, sym) ==
  \E p \in {<<e1, e2>>, <<e2, e1>>} : p[1].type = "SYMBOL" /\ p[2].type = type /\ p[2].rsym = sym

(* a = b and a # c for constants b and c, in either order.                  *)
EqualUnequal(e1, e2) ==
  {p \in {<<e1, e2>>, <<e2, e1>>} :
     p[1].type = "EQUAL" /\ p[2].type = "UNEQUAL" /\ IsConst(p[1].rsym) /\ IsConst(p[2].rsym)}

expr_join_and(e1, e2) ==
  LET sym == JoinSymbol(e1)
      tristate == SymbolType(sym) = "TRISTATE"
      is == [v \in {symbol_no, symbol_mod, symbol_yes} |-> expr_alloc_comp("EQUAL", sym, v)]
  IN  IF expr_eq(e1, e2) THEN e1
      ELSE IF ~Joinable(e1, e2) THEN Null
      ELSE IF Beside(e1, e2, "EQUAL", symbol_yes) THEN is[symbol_yes]
      ELSE IF Beside(e1, e2, "UNEQUAL", symbol_no) THEN expr_alloc_symbol(sym)
      ELSE IF Beside(e1, e2, "UNEQUAL", symbol_mod) THEN is[symbol_yes]
      ELSE IF ~tristate THEN Null
      ELSE IF EqualUnequal(e1, e2) # {} THEN
        LET p == CHOOSE p \in EqualUnequal(e1, e2) : TRUE
        IN  IF p[1].rsym # p[2].rsym THEN p[1] ELSE No
      ELSE IF Both("UNEQUAL", e1, e2, {symbol_yes, symbol_no}) THEN is[symbol_mod]
      ELSE IF Both("UNEQUAL", e1, e2, {symbol_yes, symbol_mod}) THEN is[symbol_no]
      ELSE IF Both("UNEQUAL", e1, e2, {symbol_mod, symbol_no}) THEN is[symbol_yes]
      ELSE Null

(* Every operand of a chain against every other: it is first simplified     *)
(* itself, and the two joined stand where the second was.                   *)
RECURSIVE expr_eliminate_dups1(_, _)
expr_eliminate_dups1(type, e) ==
  LET ops == Operands(type, e)
      Joined(e1, e2) == IF type = "OR" THEN expr_join_or(e1, e2) ELSE expr_join_and(e1, e2)
      Stand(s, k, inner, tmp) ==
        [ops |-> IF tmp = Null THEN [s.ops EXCEPT ![k[1]] = inner.e]
                 ELSE [s.ops EXCEPT ![k[1]] = Neutral(type), ![k[2]] = tmp],
         trans_count |-> s.trans_count + inner.trans_count + (IF tmp = Null THEN 0 ELSE 1)]
      Join(s, k, inner) == Stand(s, k, inner, Joined(inner.e, s.ops[k[2]]))
      Step(s, k) ==
        IF k[1] = k[2] THEN s
        ELSE Join(s, k, IF s.ops[k[1]].type \in Connective
                        THEN expr_eliminate_dups1(s.ops[k[1]].type, s.ops[k[1]])
                        ELSE [e |-> s.ops[k[1]], trans_count |-> 0])
      Tree(after) == [e |-> WithOperands(type, e, after.ops), trans_count |-> after.trans_count]
  IN  Tree(FoldLeft(Step, [ops |-> ops, trans_count |-> 0], Pairs(Len(ops), Len(ops))))

RECURSIVE expr_eliminate_dups(_)
expr_eliminate_dups(e) ==
  LET Again(pass) ==
        IF pass.trans_count = 0 THEN pass.e ELSE expr_eliminate_dups(expr_eliminate_yn(pass.e))
  IN  IF e.type \in Connective THEN Again(expr_eliminate_dups1(e.type, e)) ELSE e

-----------------------------------------------------------------------------
(* Comparisons of booleans become symbols, and negations go to the leaves.  *)
CompareBoolean(e) ==
  LET plain == expr_alloc_symbol(e.lsym)
      equal == e.type = "EQUAL"
  IN  CASE SymbolType(e.lsym) # "BOOLEAN" \/ ~IsConst(e.rsym) -> e
        [] e.rsym = symbol_no -> IF equal THEN expr_alloc_one(plain) ELSE plain
        [] e.rsym = symbol_mod -> IF equal THEN No ELSE Yes
        [] e.rsym = symbol_yes -> IF equal THEN plain ELSE expr_alloc_one(plain)

Opposite ==
  [EQUAL |-> "UNEQUAL", UNEQUAL |-> "EQUAL", LEQ |-> "GTH", GEQ |-> "LTH", LTH |-> "GEQ", GTH |-> "LEQ"]

RECURSIVE expr_transform(_)
Negate(e) ==
  LET inner == e.left
  IN  CASE inner.type = "NOT" -> expr_transform(inner.left)
        [] inner.type \in Relation -> [inner EXCEPT !.type = Opposite[@]]
        [] inner.type \in Connective ->
             expr_transform(expr_alloc_two(IF inner.type = "OR" THEN "AND" ELSE "OR",
                                           expr_alloc_one(inner.left), expr_alloc_one(inner.right)))
        [] IsSymbol(inner, symbol_yes) -> No
        [] IsSymbol(inner, symbol_mod) -> inner
        [] IsSymbol(inner, symbol_no) -> Yes
        [] OTHER -> e

expr_transform(e) ==
  CASE e.type \in {"EQUAL", "UNEQUAL"} -> CompareBoolean(e)
    [] e.type = "NOT" -> Negate([e EXCEPT !.left = expr_transform(@)])
    [] e.type \in Connective -> [e EXCEPT !.left = expr_transform(@), !.right = expr_transform(@)]
    [] OTHER -> e

RECURSIVE expr_contains_symbol(_, _)
expr_contains_symbol(dep, sym) ==
  CASE dep.type \in Connective ->
         expr_contains_symbol(dep.left, sym) \/ expr_contains_symbol(dep.right, sym)
    [] dep.type = "NOT" -> expr_contains_symbol(dep.left, sym)
    [] dep.type = "SYMBOL" -> dep.lsym = sym
    [] dep.type \in Relation -> sym \in {dep.lsym, dep.rsym}
    [] OTHER -> FALSE

RECURSIVE expr_depends_symbol(_, _)
expr_depends_symbol(dep, sym) ==
  CASE dep.type = "AND" -> expr_depends_symbol(dep.left, sym) \/ expr_depends_symbol(dep.right, sym)
    [] dep.type = "SYMBOL" -> dep.lsym = sym
    [] dep.type = "EQUAL" -> dep.lsym = sym /\ dep.rsym \in {symbol_yes, symbol_mod}
    [] dep.type = "UNEQUAL" -> dep.lsym = sym /\ dep.rsym = symbol_no
    [] OTHER -> FALSE

(* e compared with n, the only symbol the program asks for.                 *)
RECURSIVE expr_trans_compare(_, _)
expr_trans_compare(e, type) ==
  LET Perhaps(f) == IF type = "UNEQUAL" THEN expr_alloc_one(f) ELSE f
      Parts(t) == expr_alloc_two(t, expr_trans_compare(e.left, "EQUAL"), expr_trans_compare(e.right, "EQUAL"))
  IN  CASE e.type = "NULL" -> Perhaps(No)
        [] e.type = "AND" -> Perhaps(Parts("OR"))
        [] e.type = "OR" -> Perhaps(Parts("AND"))
        [] e.type = "NOT" -> expr_trans_compare(e.left, Opposite[type])
        [] e.type \in Relation -> IF type = "EQUAL" THEN expr_alloc_one(e) ELSE e
        [] e.type = "SYMBOL" -> expr_alloc_comp(type, e.lsym, symbol_no)

-----------------------------------------------------------------------------
(* menu_finalize: m stands for m && MODULES.                                *)
RECURSIVE rewrite_m(_)
rewrite_m(e) ==
  CASE e.type \in Connective -> [e EXCEPT !.left = rewrite_m(@), !.right = rewrite_m(@)]
    [] e.type = "NOT" -> [e EXCEPT !.left = rewrite_m(@)]
    [] IsSymbol(e, symbol_mod) -> expr_alloc_and(e, expr_alloc_symbol(modules_sym))
    [] OTHER -> e

(* A child inherits its parent's dependencies; so does every prompt of it,  *)
(* which of a symbol that is not tristate is only asked for yes or no.      *)
Inherit(parentdep, dep) ==
  expr_eliminate_dups(expr_alloc_and(parentdep, expr_transform(rewrite_m(dep))))

Visibility(basedep, dep, type) ==
  LET visible == Inherit(basedep, dep)
  IN  IF type = "TRISTATE" THEN visible ELSE expr_trans_bool(visible)

VisibleAtAll(dep) == expr_eliminate_dups(expr_transform(expr_trans_compare(dep, "UNEQUAL")))

(* An entry after the one of sym goes into its submenu if it depends on sym *)
(* alone, or mentions it and depends on all that sym's prompt depends on.   *)
InSubmenu(prompt, dep, sym) ==
  /\ expr_contains_symbol(dep, sym)
  /\ \/ expr_depends_symbol(dep, sym)
     \/ expr_is_yes(expr_eliminate_eq(VisibleAtAll(dep), VisibleAtAll(prompt))[2])
=============================================================================
