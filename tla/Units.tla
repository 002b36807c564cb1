------------------------------- MODULE Units -------------------------------
(***************************************************************************)
(* The parts of the program that run to completion: those of HartUnits,   *)
(* decoding, memory with its loaders, and the dependencies of Kconfig.     *)
(***************************************************************************)
EXTENDS HartUnits, DecodeFormats, SequencesExt

VARIABLES bus, done     (* the bus and what was done with it                *)

busVars == <<bus, done>>
vars == <<unit, input, hart, bus, done>>

Memory == INSTANCE LoadedBus
Gen == INSTANCE DecoderGen
Config == INSTANCE KconfigExpr

(* One line of the tables of instruction patterns.                          *)
DecodeLine == Pick("decode", DOMAIN InstructionLines) /\ UNCHANGED busVars

(* A compressed instruction at the borders of two lines.                    *)
FindLine ==
  LET lines == FlattenSeq(Gen!CompressedGroups)
      Free(line) == (0 .. 15) \ Gen!mask(line)
      Between(k, n) == {Gen!key(lines[k]) \cup Gen!key(lines[n]) \cup free :
                          free \in {{}, Free(lines[k]) \cap Free(lines[n])}}
  IN  /\ Pick("lines", {"32", "64"} \X UNION {Between(k, n) : k, n \in DOMAIN lines})
      /\ UNCHANGED busVars

(* An option below another, with the dependencies each declares.            *)
FinalizeMenu ==
  LET Sym(s) == Config!expr_alloc_symbol(s)
      Negation(e) == Config!expr_alloc_one(e)
      Compare(type, l, r) == Config!expr_alloc_comp(type, l, r)
      Join(S, T) == {Config!expr_alloc_two(t, l, r) : t \in {"AND", "OR"}, l \in S, r \in T}
      leaves == {Sym(s) : s \in {"A", "B", "n", "m", "y"}}
                  \cup {Compare(t, "A", v) : t \in {"EQUAL", "UNEQUAL"}, v \in {"n", "m", "y"}}
                  \cup {Compare("EQUAL", "B", v) : v \in {"n", "m", "y"}}
                  \cup {Compare("UNEQUAL", "B", "m"), Compare("EQUAL", "A", "B"), Compare("LTH", "A", "m")}
      terms == leaves \cup {Negation(Sym(s)) : s \in {"A", "B", "m"}}
      few == {Sym("A"), Sym("B"), Compare("EQUAL", "A", "m"), Compare("UNEQUAL", "A", "n")}
      two == Join(few, few)
      none == {Config!Null}
  IN  /\ Pick("menu", (none \X (terms \cup Join(terms, terms) \cup {Negation(e) : e \in Join(leaves, few)}))
                       \cup ((none \cup few \cup Join({Sym("A")}, few)) \X (few \cup two \cup Join(few, two))))
      /\ UNCHANGED busVars

(* One way to use memory.                                                   *)
UseBus ==
  /\ unit \in {"none", "bus"} /\ unit' = "bus"
  /\ Memory!Next /\ UNCHANGED <<input, hart>>

-----------------------------------------------------------------------------
Init == HartInit /\ Memory!Init

Next ==
  \/ HartNext /\ UNCHANGED busVars
  \/ DecodeLine \/ FindLine \/ UseBus \/ FinalizeMenu

Spec == Init /\ [][Next]_vars

-----------------------------------------------------------------------------
(* Every bit a pattern leaves open reaches exactly one field the            *)
(* instruction reads, and no fixed bit does; the bits of an immediate fill  *)
(* an interval of positions, each one once, only the highest of them being  *)
(* copied up as the sign.                                                   *)
EveryBitDecodedOnce ==
  Is("decode") =>
    LET line == InstructionLines[input]
        Image(b, f) == line.of[{b}][f] \ line.of[{}][f]
        Into(f) == {b \in line.free : Image(b, f) # {}}
        Lowest(p) == CHOOSE x \in p : \A y \in p : x <= y
    IN  /\ \A b \in 0 .. 31 : Cardinality({f \in line.fields : Image(b, f) # {}}) = Flag(b \in line.free)
        /\ \A f \in line.fields :
             LET places == {Lowest(Image(b, f)) : b \in Into(f)}
                 top == CHOOSE x \in places : \A y \in places : y <= x
             IN  /\ Cardinality(places) = Cardinality(Into(f))
                 /\ places = Lowest(places) .. top
                 /\ \A b \in Into(f) : Lowest(Image(b, f)) < top => Cardinality(Image(b, f)) = 1

(* An instruction executes the line that fixes most among those that match  *)
(* it, in both widths, though the order of the file is not the order of the *)
(* generated switches: what the linear decoder of decoder.hpp finds in the  *)
(* lines that are compiled.  An instruction is decoded as soon as one line  *)
(* matches it, and the switches have no case twice.                         *)
MostSpecificLine ==
  Is("lines") =>
    LET isa == input[1]
        inst == input[2]
        lines == SelectSeq(FlattenSeq(Gen!CompressedGroups), LAMBDA line : Gen!Compiled(line, isa))
        found == Gen!decode(Gen!CompressedTable, isa, inst)
    IN  /\ found = Gen!decode_and_exec(lines, inst)
        /\ \A k \in DOMAIN lines :
             Gen!match(lines[k], inst) => found # <<>> /\ Gen!mask(lines[k]) \subseteq Gen!mask(found[1])
        /\ Gen!Compiles(Gen!CompressedTable, isa)

(* The values the symbols can have: without modules, A is yes or no.        *)
Configurations ==
  {v \in [{"A", "B", "MODULES"} -> 0 .. 2] :
     v["B"] # 1 /\ v["MODULES"] # 1 /\ (v["A"] = 1 => v["MODULES"] = 2)}

(* What an option inherits is its own dependencies and its parent's, in     *)
(* every configuration, however much of the two expressions was joined,     *)
(* folded or negated on the way; a prompt asked for yes or no shows when it *)
(* did.  An option that is put into another's submenu is visible only if    *)
(* that symbol is set, or else only if its prompt is visible too.           *)
DependenciesKeepMeaning ==
  Is("menu") =>
    \A parent \in {Config!Inherit(Config!Null, input[1])} :
    \A dep \in {Config!Inherit(parent, input[2])},
       asked \in {Config!Visibility(parent, input[2], "BOOLEAN")}, v \in Configurations :
      LET Value(e) == Config!expr_calc_value(e, v)
          Declared(k) == Value(Config!rewrite_m(input[k]))
      IN  /\ Value(parent) = Declared(1)
          /\ Value(dep) = Min({Declared(1), Declared(2)})
          /\ Value(asked) # 0 <=> Value(dep) # 0
          /\ \A e \in {dep, asked}, sym \in {"A", "B"} :
                Value(e) # 0 /\ Config!InSubmenu(parent, e, sym) =>
                  IF Config!expr_depends_symbol(e, sym) THEN v[sym] # 0 ELSE Value(parent) # 0

=============================================================================
