--------------------------- MODULE HartUnitsProofs ---------------------------
(***************************************************************************)
(* Proofs about HartUnits, for every width of a byte, so for the hart's    *)
(* own 64-bit words as well as for the short ones that TLC enumerates, and *)
(* for any register values, immediates and number of CSR steps.            *)
(*                                                                         *)
(* The lemmas go from the arithmetic of words up: sums over the bits of a  *)
(* word, the helpers of the instructions, then what each instruction does. *)
(* CompressedIsExpanded and CoresAgree compare two instructions on any     *)
(* operands, FloatsLeaveTheHost goes over all floating-point instructions, *)
(* and CsrsApart follows a hart through any steps with its CSRs.           *)
(***************************************************************************)
EXTENDS HartUnits, Sequences, FiniteSetTheorems, WellFoundedInduction, TLAPS

(* Of a set of naturals below a bound, the least.                            *)
LEMMA Least ==
  ASSUME NEW n \in Nat, NEW S \in SUBSET (0 .. n), S # {}
  PROVE  \E m \in S : \A k \in S : m <= k
<1> DEFINE Below(m) == 0 .. m
           T == {Below(m) : m \in S}
           All == 0 .. n
<1>1. IsFiniteSet(All)
  BY FS_Interval
<1>2. IsWellFoundedOn(StrictSubsetOrdering(All), SUBSET All)
  <2>1. FiniteSubsetsOf(All) = SUBSET All
    BY <1>1, FS_FiniteSubsetsOfFinite
  <2> QED BY <2>1, FS_StrictSubsetOrderingWellFounded
<1>0. \A m \in S : Below(m) \in SUBSET All
  BY SMT
<1>3. T \subseteq SUBSET All /\ T # {}
  <2> HIDE DEF Below, All
  <2> QED BY <1>0
<1>4. \E x \in T : \A y \in T : ~(<<y, x>> \in StrictSubsetOrdering(All))
  <2> HIDE DEF T, All
  <2> QED BY <1>2, <1>3, WFMin
<1>5. PICK m \in S : \A k \in S : <<Below(k), Below(m)>> \notin StrictSubsetOrdering(All)
  BY <1>4
<1>6. \A k \in S : ~(k < m)
  <2> SUFFICES ASSUME NEW k \in S, k < m PROVE FALSE
    OBVIOUS
  <2>1. Below(k) \subseteq Below(m) /\ m \in Below(m) /\ m \notin Below(k)
    BY SMT
  <2>2. Below(k) \in SUBSET All /\ Below(m) \in SUBSET All
    BY <1>0
  <2> HIDE DEF Below, All
  <2> QED BY <1>5, <2>1, <2>2, Zenon DEF StrictSubsetOrdering
<1> QED
  BY <1>6, SMT

(* Induction up to a bound, for the numbers a property holds of.             *)
LEMMA UpTo ==
  ASSUME NEW n \in Nat, NEW Good \in SUBSET (0 .. n), 0 \in Good,
         \A k \in 0 .. n - 1 : k \in Good => k + 1 \in Good
  PROVE  Good = 0 .. n
<1> DEFINE Bad == (0 .. n) \ Good
<1>1. SUFFICES ASSUME Bad # {} PROVE FALSE
  OBVIOUS
<1>2. PICK m \in Bad : \A k \in Bad : m <= k
  <2>1. Bad \in SUBSET (0 .. n)
    OBVIOUS
  <2> HIDE DEF Bad
  <2> QED BY <1>1, <2>1, Least
<1>3. m # 0 /\ m \in 0 .. n /\ m - 1 \in 0 .. n - 1
  BY SMT
<1>4. m - 1 \in Good
  <2>1. m - 1 \in 0 .. n /\ ~(m <= m - 1)
    BY <1>3, SMT
  <2> QED BY <1>2, <2>1
<1>5. m - 1 + 1 \in Good
  BY <1>3, <1>4
<1>6. m - 1 + 1 = m
  BY <1>3, SMT
<1> QED BY <1>5, <1>6

(* Powers of two are positive, and each is twice the one before.             *)
LEMMA Powers ==
  \A n \in 0 .. XLEN + 2 : 2 ^ n \in Nat \ {0}
<1> DEFINE Good == {n \in 0 .. XLEN + 2 : 2 ^ n \in Nat \ {0}}
<1>1. XLEN \in Nat
  BY ByteAssumption, SMT DEF XLEN
<1>2. 0 \in Good
  BY <1>1, ByteAssumption, SMT
<1>3. ASSUME NEW k \in 0 .. XLEN + 2 - 1, k \in Good PROVE k + 1 \in Good
  <2>1. 2 ^ (k + 1) = 2 * 2 ^ k
    BY <1>1, ByteAssumption, SMT
  <2>2. 2 ^ k \in Nat \ {0} /\ k + 1 \in 0 .. XLEN + 2
    BY <1>1, <1>3, SMT
  <2> QED BY <2>1, <2>2, SMT
<1>4. Good \in SUBSET (0 .. XLEN + 2)
  OBVIOUS
<1>5. Good = 0 .. XLEN + 2
  <2> HIDE DEF Good
  <2> QED BY <1>1, <1>2, <1>3, <1>4, UpTo, SMT
<1> QED BY <1>5

(* What Sum recurs on.                                                       *)
IsSum(term, n, f) == f = [k \in 0 .. n |-> IF k = 0 THEN 0 ELSE f[k - 1] + term[k - 1]]

(* The function that Sum recurs on exists.                                   *)
LEMMA SumExists ==
  ASSUME NEW term, NEW n \in Nat
  PROVE  \E f : IsSum(term, n, f)
<1> DEFINE Good == {m \in 0 .. n : \E f : IsSum(term, m, f)}
<1>1. 0 \in Good
  <2> DEFINE f == [k \in 0 .. 0 |-> 0]
  <2>1. IsSum(term, 0, f)
    BY SMT DEF IsSum
  <2> QED BY <2>1
<1>2. ASSUME NEW m \in 0 .. n - 1, m \in Good PROVE m + 1 \in Good
  <2>1. PICK g : IsSum(term, m, g)
    BY <1>2
  <2> DEFINE f == [k \in 0 .. m + 1 |-> IF k = m + 1 THEN g[m] + term[m] ELSE g[k]]
             h == [k \in 0 .. m + 1 |-> IF k = 0 THEN 0 ELSE f[k - 1] + term[k - 1]]
  <2>2. \A k \in 0 .. m : g[k] = IF k = 0 THEN 0 ELSE g[k - 1] + term[k - 1]
    BY <2>1 DEF IsSum
  <2>3. ASSUME NEW k \in 0 .. m + 1 PROVE f[k] = h[k]
    <3>1. CASE k = m + 1
      <4>1. k # 0 /\ k - 1 = m /\ m \in 0 .. m + 1 /\ m # m + 1
        BY <3>1, SMT
      <4>2. f[k] = g[m] + term[m] /\ f[m] = g[m]
        BY <3>1, <4>1
      <4>3. h[k] = f[m] + term[m]
        BY <4>1
      <4> QED BY <4>2, <4>3
    <3>2. CASE k # m + 1
      <4>1. k \in 0 .. m /\ (k # 0 => k - 1 \in 0 .. m + 1 /\ k - 1 # m + 1)
        BY <3>2, SMT
      <4>2. f[k] = g[k] /\ (k # 0 => f[k - 1] = g[k - 1])
        BY <3>2, <4>1
      <4>3. h[k] = IF k = 0 THEN 0 ELSE f[k - 1] + term[k - 1]
        OBVIOUS
      <4> HIDE DEF f, h
      <4> QED BY <2>2, <4>1, <4>2, <4>3
    <3> QED BY <3>1, <3>2
  <2>4. f = h
    <3>1. f = [k \in 0 .. m + 1 |-> f[k]] /\ h = [k \in 0 .. m + 1 |-> h[k]]
      OBVIOUS
    <3> HIDE DEF f, h
    <3> QED BY <2>3, <3>1
  <2>5. IsSum(term, m + 1, f)
    <3> HIDE DEF f
    <3> QED BY <2>4 DEF IsSum
  <2>6. m + 1 \in 0 .. n
    BY SMT
  <2> HIDE DEF f
  <2> QED BY <2>5, <2>6
<1>3. Good = 0 .. n
  <2>1. Good \in SUBSET (0 .. n)
    OBVIOUS
  <2> HIDE DEF Good
  <2> QED BY <1>1, <1>2, <2>1, UpTo
<1>4. n \in Good
  <2> HIDE DEF Good
  <2> QED BY <1>3, SMT
<1> QED BY <1>4

(* The partial sums.                                                         *)
LEMMA PartialSums ==
  ASSUME NEW term, NEW n \in Nat
  PROVE  \E f : /\ f[0] = 0 /\ Sum(term, n) = f[n]
                /\ \A k \in 0 .. n - 1 : f[k + 1] = f[k] + term[k]
<1> DEFINE f == CHOOSE g : IsSum(term, n, g)
<1>1. IsSum(term, n, f)
  BY SumExists, Zenon
<1>2. Sum(term, n) = f[n]
  BY Zenon DEF Sum, IsSum
<1> HIDE DEF f
<1>3. f[0] = 0
  <2>1. 0 \in 0 .. n
    BY SMT
  <2> QED BY <1>1, <2>1 DEF IsSum
<1>4. ASSUME NEW k \in 0 .. n - 1 PROVE f[k + 1] = f[k] + term[k]
  <2>1. k + 1 \in 0 .. n /\ k + 1 # 0 /\ k + 1 - 1 = k
    BY SMT
  <2>2. f[k + 1] = f[k + 1 - 1] + term[k + 1 - 1]
    BY <1>1, <2>1 DEF IsSum
  <2> QED BY <2>1, <2>2
<1> QED BY <1>2, <1>3, <1>4

(* A sum of integers is an integer.                                          *)
LEMMA SumType ==
  ASSUME NEW n \in Nat, NEW term, \A k \in 0 .. n - 1 : term[k] \in Int
  PROVE  Sum(term, n) \in Int
<1>1. PICK f : /\ f[0] = 0 /\ Sum(term, n) = f[n]
               /\ \A k \in 0 .. n - 1 : f[k + 1] = f[k] + term[k]
  BY PartialSums
<1> DEFINE Good == {k \in 0 .. n : f[k] \in Int}
<1>2. 0 \in Good
  BY <1>1, SMT
<1>3. ASSUME NEW k \in 0 .. n - 1, k \in Good PROVE k + 1 \in Good
  <2>1. f[k + 1] = f[k] + term[k] /\ k + 1 \in 0 .. n /\ f[k] \in Int /\ term[k] \in Int
    BY <1>1, <1>3, SMT
  <2> QED BY <2>1, SMT
<1>4. Good = 0 .. n
  <2>1. Good \in SUBSET (0 .. n)
    OBVIOUS
  <2> HIDE DEF Good
  <2> QED BY <1>2, <1>3, <2>1, UpTo
<1> QED BY <1>1, <1>4

-----------------------------------------------------------------------------
(* Widths, words and what the helpers return.                                *)

(* The widths of a word, and the powers of two the helpers use.              *)
LEMMA Widths ==
  /\ XLEN \in Nat /\ HALF \in Nat /\ Byte \in Nat /\ Byte >= 1 /\ XLEN = HALF + HALF /\ HALF = 4 * Byte
  /\ 2 ^ XLEN \in Nat \ {0} /\ 2 ^ HALF \in Nat \ {0} /\ 2 ^ Byte \in Nat \ {0} /\ 2 ^ (2 * Byte) \in Nat \ {0}
  /\ Words \subseteq Nat /\ 0 \in Words
<1>1. Byte \in Nat \ {0}
  BY ByteAssumption
<1>2. /\ XLEN \in 0 .. XLEN + 2 /\ HALF \in 0 .. XLEN + 2 /\ Byte \in 0 .. XLEN + 2
      /\ 2 * Byte \in 0 .. XLEN + 2
  BY <1>1, SMT DEF XLEN, HALF
<1>3. /\ 2 ^ XLEN \in Nat \ {0} /\ 2 ^ HALF \in Nat \ {0} /\ 2 ^ Byte \in Nat \ {0}
      /\ 2 ^ (2 * Byte) \in Nat \ {0}
  BY <1>2, Powers
<1>4. Words \subseteq Nat /\ 0 \in Words
  BY <1>3, SMT DEF Words
<1>5. XLEN \in Nat /\ HALF \in Nat /\ Byte >= 1 /\ XLEN = HALF + HALF /\ HALF = 4 * Byte
  BY <1>1, SMT DEF XLEN, HALF
<1> QED BY <1>1, <1>3, <1>4, <1>5

(* Cut to its low bits an integer is a word, and a word stays as it is.      *)
LEMMA WordType ==
  \A v \in Int : Word(v) \in Words /\ (v \in Words => Word(v) = v)
<1> DEFINE M == 2 ^ XLEN
<1>1. M \in Nat \ {0}
  BY Widths
<1>2. \A v \in Int : v % M \in 0 .. M - 1 /\ (v \in 0 .. M - 1 => v % M = v)
  <2> HIDE DEF M
  <2> QED BY <1>1, SMT
<1> QED BY <1>2 DEF Word, Words

(* One bit more doubles the number of values.                                *)
LEMMA PowerMore ==
  \A n \in 0 .. XLEN + 1 : 2 ^ (n + 1) = 2 * 2 ^ n
BY ByteAssumption

(* The powers of the widths, one above the other.                            *)
LEMMA Signs ==
  ASSUME NEW n \in 1 .. XLEN
  PROVE  2 ^ (n - 1) \in Nat \ {0} /\ 2 ^ n = 2 * 2 ^ (n - 1)
<1>1. n - 1 \in 0 .. XLEN + 1 /\ n - 1 \in 0 .. XLEN + 2 /\ n - 1 + 1 = n
  BY Widths, SMT
<1> QED BY <1>1, Powers, PowerMore

(* The signed value of a low part of a word lies within its width.           *)
LEMMA SignedType ==
  ASSUME NEW v \in Int, NEW n \in 1 .. XLEN
  PROVE  /\ SignedLow(v, n) \in (-(2 ^ (n - 1))) .. (2 ^ (n - 1) - 1)
         /\ SignedLow(v, n) \in Int
         /\ SignedLow(v, n) = v % 2 ^ n \/ SignedLow(v, n) = (v % 2 ^ n) - 2 ^ n
<1> DEFINE M == 2 ^ n
           H == 2 ^ (n - 1)
<1>1. M \in Nat \ {0} /\ H \in Nat \ {0} /\ M = 2 * H
  BY Signs, SMT
<1>2. v % M \in 0 .. M - 1
  <2> HIDE DEF M, H
  <2> QED BY <1>1, SMT
<1>3. SignedLow(v, n) = IF v % M >= H THEN (v % M) - M ELSE v % M
  BY DEF SignedLow
<1> HIDE DEF M, H
<1>4. SignedLow(v, n) \in (-H) .. (H - 1) /\ (SignedLow(v, n) = v % M \/ SignedLow(v, n) = (v % M) - M)
  BY <1>1, <1>2, <1>3, SMT
<1>5. SignedLow(v, n) \in Int
  BY <1>1, <1>4, SMT
<1> QED BY <1>4, <1>5 DEF M, H

(* The widths that signed values are taken of.                               *)
LEMMA WidthsSigned ==
  Byte \in 1 .. XLEN /\ 2 * Byte \in 1 .. XLEN /\ HALF \in 1 .. XLEN /\ XLEN \in 1 .. XLEN
BY Widths, SMT

(* A bit of v.                                                               *)
LEMMA BitType ==
  ASSUME NEW v \in Int, NEW k \in 0 .. XLEN + 2
  PROVE  Bit(v, k) \in {0, 1} /\ v \div 2 ^ k \in Int
<1> DEFINE P == 2 ^ k
<1>1. P \in Nat \ {0}
  BY Powers
<1>2. v \div P \in Int
  <2> HIDE DEF P
  <2> QED BY <1>1, SMT
<1>3. Bit(v, k) = (v \div P) % 2
  BY DEF Bit
<1> HIDE DEF P
<1>4. Bit(v, k) \in {0, 1}
  BY <1>2, <1>3, SMT
<1> QED BY <1>2, <1>4 DEF P

(* Bits put together make a word.                                            *)
LEMMA TogetherType ==
  ASSUME NEW bit, \A k \in 0 .. XLEN - 1 : bit[k] \in {0, 1}
  PROVE  Together(bit) \in Int
<1> DEFINE term == [k \in 0 .. XLEN - 1 |-> bit[k] * 2 ^ k]
<1>1. \A k \in 0 .. XLEN - 1 : k \in 0 .. XLEN + 2
  BY Widths, SMT
<1>2. ASSUME NEW k \in 0 .. XLEN - 1 PROVE term[k] \in Int
  <2>1. bit[k] \in {0, 1} /\ 2 ^ k \in Nat
    BY <1>1, Powers
  <2>2. term[k] = bit[k] * 2 ^ k
    OBVIOUS
  <2> QED BY <2>1, <2>2, SMT
<1>3. Together(bit) = Sum(term, XLEN)
  BY DEF Together
<1> HIDE DEF term
<1> QED BY <1>2, <1>3, SumType, Widths

(* The bitwise operators return words.                                       *)
LEMMA BitwiseType ==
  ASSUME NEW v \in Int, NEW w \in Int
  PROVE  And(v, w) \in Int /\ Or(v, w) \in Int /\ Xor(v, w) \in Int
<1>1. \A k \in 0 .. XLEN - 1 : Bit(v, k) \in {0, 1} /\ Bit(w, k) \in {0, 1}
  <2>1. \A k \in 0 .. XLEN - 1 : k \in 0 .. XLEN + 2
    BY Widths, SMT
  <2> QED BY <2>1, BitType
<1> DEFINE a == [k \in 0 .. XLEN - 1 |-> Bit(v, k) * Bit(w, k)]
           o == [k \in 0 .. XLEN - 1 |-> Flag(Bit(v, k) + Bit(w, k) # 0)]
           x == [k \in 0 .. XLEN - 1 |-> (Bit(v, k) + Bit(w, k)) % 2]
<1>2. \A k \in 0 .. XLEN - 1 : a[k] \in {0, 1} /\ o[k] \in {0, 1} /\ x[k] \in {0, 1}
  BY <1>1, SMT DEF Flag
<1>3. And(v, w) = Together(a) /\ Or(v, w) = Together(o) /\ Xor(v, w) = Together(x)
  BY DEF And, Or, Xor
<1> HIDE DEF a, o, x
<1> QED BY <1>2, <1>3, TogetherType

(* A load returns an integer.                                                *)
LEMMA LoadType ==
  ASSUME NEW addr \in Int, NEW len \in {1, 2, 4, 8}
  PROVE  memory_load(addr, len) \in Int
<1> DEFINE term == [k \in 0 .. len - 1 |-> LoadByte(Word(addr + k)) * 2 ^ (k * Byte)]
<1>1. \A k \in 0 .. len - 1 : k * Byte \in 0 .. XLEN + 2 /\ addr + k \in Int
  BY ByteAssumption, SMT DEF XLEN
<1>2. ASSUME NEW k \in 0 .. len - 1 PROVE term[k] \in Int
  <2>1. 2 ^ (k * Byte) \in Int
    BY <1>1, Powers, SMT
  <2>2. Word(addr + k) \in Words
    BY <1>1, WordType
  <2>3. LoadByte(Word(addr + k)) \in Int
    <3>1. LoadByte(Word(addr + k)) \in 0 .. 2 ^ Byte - 1
      BY <2>2, ByteAssumption
    <3> QED BY <3>1, Widths, SMT
  <2>4. term[k] = LoadByte(Word(addr + k)) * 2 ^ (k * Byte)
    OBVIOUS
  <2> HIDE DEF term
  <2> QED BY <2>1, <2>3, <2>4, SMT
<1>3. memory_load(addr, len) = Sum(term, len)
  BY DEF memory_load
<1> HIDE DEF term
<1> QED BY <1>2, <1>3, SumType

(* Signed values are integers, and sign extension gives a word.              *)
LEMMA ExtendType ==
  ASSUME NEW v \in Int
  PROVE  /\ SignedWord(v) \in Int /\ Sext(v, HALF) \in Words /\ Sext(v, Byte) \in Words
         /\ Sext(v, 2 * Byte) \in Words /\ SignedLow(v, HALF) \in Int /\ Low32(v) \in 0 .. 2 ^ HALF - 1
<1>1. SignedLow(v, XLEN) \in Int /\ SignedLow(v, HALF) \in Int /\ SignedLow(v, Byte) \in Int
      /\ SignedLow(v, 2 * Byte) \in Int
  BY SignedType, WidthsSigned
<1>2. Low32(v) \in 0 .. 2 ^ HALF - 1
  <2> DEFINE M == 2 ^ HALF
  <2>1. M \in Nat \ {0}
    BY Widths
  <2>2. v % M \in 0 .. M - 1
    <3> HIDE DEF M
    <3> QED BY <2>1, SMT
  <2> QED BY <2>2 DEF Low32
<1> QED BY <1>1, <1>2, WordType DEF Sext, SignedWord

(* Shifted words are words.                                                  *)
LEMMA ShiftType ==
  ASSUME NEW v \in Int, NEW n \in 0 .. XLEN + 2
  PROVE  ShiftLeft(v, n) \in Int /\ ShiftRight(v, n) \in Int
<1>1. v \div 2 ^ n \in Int
  BY BitType
<1>2. v * 2 ^ n \in Int
  BY Powers, SMT
<1> QED BY <1>1, <1>2 DEF ShiftLeft, ShiftRight

-----------------------------------------------------------------------------
(* Harts with words in their registers and zero in x0, and instructions.     *)

Harts ==
  [gpr : [{0, 1, 2, 32} -> Words], pc : Nat, npc : Nat, store : {<<>>}, invalid : BOOLEAN]

(* A hart on two words is well-formed.                                       *)
LEMMA HartType ==
  ASSUME NEW a \in Words, NEW b \in Words
  PROVE  /\ Hart(a, b) \in Harts /\ ~Hart(a, b).invalid /\ WellFormed(Hart(a, b))
         /\ Hart(a, b).pc = 64
<1>1. 0 \in Words
  BY Widths
<1>2. [r \in {0, 1, 2, 32} |-> IF r = 1 THEN a ELSE IF r = 2 THEN b ELSE 0] \in [{0, 1, 2, 32} -> Words]
  BY <1>1, SMT
<1>3. 64 \in Nat /\ 66 \in Nat
  BY SMT
<1>4. Hart(a, b) \in Harts /\ ~Hart(a, b).invalid /\ Hart(a, b).pc = 64
  BY <1>2, <1>3 DEF Hart, Harts
<1>5. Hart(a, b).gpr[0] = 0 /\ \A r \in {1, 2} : Hart(a, b).gpr[r] \in Words
  BY <1>1, SMT DEF Hart
<1> QED BY <1>4, <1>5 DEF WellFormed

(* Whatever the write, x0 stays zero unless it is the destination.           *)
LEMMA WriteKeepsForm ==
  ASSUME NEW s \in Harts, WellFormed(s), NEW d \in {1, 2, 32}, NEW v \in Int
  PROVE  /\ WellFormed([s EXCEPT !.gpr[d] = Word(v)])
         /\ WellFormed([s EXCEPT !.gpr = [@ EXCEPT ![d] = Word(v), ![0] = 0]])
         /\ [s EXCEPT !.gpr[d] = Word(v)].gpr \in [{0, 1, 2, 32} -> Words]
<1>1. Word(v) \in Words /\ 0 \in Words
  BY WordType, Widths
<1>2. s.gpr \in [{0, 1, 2, 32} -> Words] /\ s.gpr[0] = 0
  BY DEF Harts, WellFormed
<1> DEFINE one == [s.gpr EXCEPT ![d] = Word(v)]
           two == [s.gpr EXCEPT ![d] = Word(v), ![0] = 0]
<1>3. /\ one \in [{0, 1, 2, 32} -> Words] /\ one[0] = 0
      /\ two \in [{0, 1, 2, 32} -> Words] /\ two[0] = 0
  BY <1>1, <1>2
<1>4. [s EXCEPT !.gpr = one].gpr = one /\ [s EXCEPT !.gpr = two].gpr = two
  BY DEF Harts
<1>5. [s EXCEPT !.gpr[d] = Word(v)] = [s EXCEPT !.gpr = one]
  BY DEF Harts
<1> HIDE DEF one, two
<1>6. WellFormed([s EXCEPT !.gpr = one]) /\ WellFormed([s EXCEPT !.gpr = two])
  BY <1>3, <1>4 DEF WellFormed
<1> QED BY <1>3, <1>4, <1>5, <1>6 DEF one, two

(* The other effects leave the registers.                                    *)
LEMMA RestKeepsForm ==
  ASSUME NEW s \in Harts, WellFormed(s), NEW v, NEW w, NEW len
  PROVE  /\ WellFormed([s EXCEPT !.npc = v]) /\ WellFormed(memory_store(s, v, w, len))
         /\ WellFormed(do_invalid_inst(s)) /\ do_invalid_inst(s).invalid
BY DEF Harts, WellFormed, memory_store, do_invalid_inst

Infos == [rd : {1, 32}, rs1 : {0, 1, 2}, rs2 : {1, 2}, imm : Words, npc : {80}]

Agree(c, e) ==
  WellFormed(c) /\ WellFormed(e) /\ (c.invalid \/ Visible(c) = Visible(e))

(* What is decoded of an instruction.                                        *)
LEMMA InfoType ==
  ASSUME NEW n \in Instructions
  PROVE  DecodeInfo(n) \in Infos /\ n.a \in Words /\ n.b \in Words
BY InputAssumption, SMT DEF Instructions, DecodeInfo, Infos, set_rd

(* The operands of an instruction are words.                                 *)
LEMMA Operands ==
  ASSUME NEW s \in Harts, WellFormed(s), NEW i \in Infos
  PROVE  /\ SRC1(s, i) \in Int /\ SRC2(s, i) \in Int /\ i.imm \in Int
         /\ s.gpr[i.rd] \in Int /\ s.gpr[SP] \in Int /\ s.gpr[0] = 0
         /\ SRC1(s, i) \in Words /\ SRC2(s, i) \in Words /\ i.imm \in Words
<1>1. s.gpr \in [{0, 1, 2, 32} -> Words] /\ s.gpr[0] = 0
  BY DEF Harts, WellFormed
<1>2. i.rd \in {1, 32} /\ i.rs1 \in {0, 1, 2} /\ i.rs2 \in {1, 2} /\ i.imm \in Words
  BY DEF Infos
<1>3. s.gpr[i.rd] \in Words /\ s.gpr[i.rs1] \in Words /\ s.gpr[i.rs2] \in Words /\ s.gpr[2] \in Words
  BY <1>1, <1>2
<1>4. \A w \in Words : w \in Int
  BY Widths
<1> QED BY <1>1, <1>2, <1>3, <1>4 DEF SRC1, SRC2, SP

(* The fields of what an instruction expands to.                             *)
LEMMA Fields ==
  ASSUME NEW i \in Infos
  PROVE  /\ TwoAddress(i).rs1 = i.rd /\ TwoAddress(i).rs2 = i.rs2 /\ TwoAddress(i).rd = i.rd
         /\ TwoAddress(i).imm = i.imm
         /\ SpBased(i).rs1 = SP /\ SpBased(i).rs2 = i.rs2 /\ SpBased(i).rd = i.rd /\ SpBased(i).imm = i.imm
         /\ SpToSp(i).rs1 = SP /\ SpToSp(i).rd = SP /\ SpToSp(i).imm = i.imm
         /\ FromZero(i).rs1 = 0 /\ FromZero(i).rs2 = i.rs2 /\ FromZero(i).rd = i.rd /\ FromZero(i).imm = i.imm
         /\ AgainstZero(i).rs1 = i.rs1 /\ AgainstZero(i).rs2 = 0 /\ AgainstZero(i).npc = i.npc
         /\ \A link : JumpsTo(i, link).rd = link /\ JumpsTo(i, link).imm = 0 /\ JumpsTo(i, link).rs1 = i.rs1
BY DEF Infos, TwoAddress, SpBased, SpToSp, FromZero, AgainstZero, JumpsTo

(* The same write, or an invalid instruction beside it.                      *)
LEMMA WritesAgree ==
  ASSUME NEW s \in Harts, WellFormed(s), NEW i, NEW j, i.rd \in {1, 2, 32}, j.rd = i.rd, NEW v \in Int
  PROVE  /\ Agree(DEST(s, i, v), DEST(s, j, v))
         /\ Agree(do_invalid_inst(s), DEST(s, j, v))
         /\ \A cond \in BOOLEAN : Agree(Require(s, cond, DEST(s, i, v)), DEST(s, j, v))
<1>1. DEST(s, i, v) = DEST(s, j, v) /\ WellFormed(DEST(s, i, v))
  BY WriteKeepsForm DEF DEST
<1>2. WellFormed(do_invalid_inst(s)) /\ do_invalid_inst(s).invalid
  BY RestKeepsForm
<1> QED BY <1>1, <1>2 DEF Agree, Require

(* The same store, and the same jump.                                        *)
LEMMA RestAgrees ==
  ASSUME NEW s \in Harts, WellFormed(s)
  PROVE  /\ \A addr, v, len : Agree(memory_store(s, addr, v, len), memory_store(s, addr, v, len))
         /\ \A npc : Agree([s EXCEPT !.npc = npc], [s EXCEPT !.npc = npc])
         /\ \A npc, taken : Agree(IF taken THEN [s EXCEPT !.npc = npc] ELSE s,
                                  IF taken THEN [s EXCEPT !.npc = npc] ELSE s)
         /\ Agree(s, s)
BY RestKeepsForm DEF Agree

(* Compressed loads do what their expansions do.                             *)
LEMMA LoadsAgree ==
  ASSUME NEW s \in Harts, WellFormed(s), NEW i \in Infos
  PROVE  /\ Agree(do_c_lwsp(s, i), do_lw(s, SpBased(i))) /\ Agree(do_c_ldsp(s, i), do_ld(s, SpBased(i)))
         /\ Agree(do_c_lw(s, i), do_lw(s, i)) /\ Agree(do_c_ld(s, i), do_ld(s, i))
<1> DEFINE Loaded(addr) == Sext(memory_load(addr, 4), HALF)
           Loaded8(addr) == memory_load(addr, 8)
<1>1. \A addr \in Int : Loaded(addr) \in Int /\ Loaded8(addr) \in Int
  <2> SUFFICES ASSUME NEW addr \in Int PROVE Loaded(addr) \in Int /\ Loaded8(addr) \in Int
    OBVIOUS
  <2>1. memory_load(addr, 4) \in Int /\ memory_load(addr, 8) \in Int
    BY LoadType
  <2>2. Loaded(addr) \in Words
    BY <2>1, ExtendType
  <2>3. \A w \in Words : w \in Int
    BY Widths
  <2> QED BY <2>1, <2>2, <2>3
<1>2. s.gpr[SP] + i.imm \in Int /\ SRC1(s, i) + i.imm \in Int
  BY Operands, SMT
<1>3. ADDR(s, SpBased(i)) = AddToSp(s, i) /\ AddToSp(s, i) \in Int /\ ADDR(s, i) \in Int
      /\ SRC1(s, i) + i.imm = ADDR(s, i)
  BY <1>2, Fields DEF ADDR, SRC1, AddToSp
<1>4. i.rd \in {1, 2, 32} /\ SpBased(i).rd = i.rd
  BY Fields DEF Infos
<1> DEFINE cond == ~rd_is_x0(i)
<1>5. cond \in BOOLEAN
  OBVIOUS
<1>6. /\ do_lw(s, SpBased(i)) = DEST(s, SpBased(i), Loaded(AddToSp(s, i)))
      /\ do_ld(s, SpBased(i)) = DEST(s, SpBased(i), Loaded8(AddToSp(s, i)))
      /\ do_lw(s, i) = DEST(s, i, Loaded(ADDR(s, i))) /\ do_ld(s, i) = DEST(s, i, Loaded8(ADDR(s, i)))
      /\ do_c_lw(s, i) = DEST(s, i, Loaded(ADDR(s, i))) /\ do_c_ld(s, i) = DEST(s, i, Loaded8(ADDR(s, i)))
      /\ do_c_lwsp(s, i) = Require(s, cond, DEST(s, i, Loaded(AddToSp(s, i))))
      /\ do_c_ldsp(s, i) = Require(s, cond, DEST(s, i, Loaded8(AddToSp(s, i))))
  BY <1>3 DEF do_lw, do_ld, do_c_lw, do_c_ld, do_c_lwsp, do_c_ldsp, RequireRd
<1> HIDE DEF Loaded, Loaded8, cond
<1>7. Agree(do_c_lwsp(s, i), do_lw(s, SpBased(i)))
  <2>1. Loaded(AddToSp(s, i)) \in Int
    BY <1>1, <1>3
  <2> QED BY <2>1, <1>4, <1>5, <1>6, WritesAgree
<1>8. Agree(do_c_ldsp(s, i), do_ld(s, SpBased(i)))
  <2>1. Loaded8(AddToSp(s, i)) \in Int
    BY <1>1, <1>3
  <2> QED BY <2>1, <1>4, <1>5, <1>6, WritesAgree
<1>9. Agree(do_c_lw(s, i), do_lw(s, i)) /\ Agree(do_c_ld(s, i), do_ld(s, i))
  <2>1. Loaded(ADDR(s, i)) \in Int /\ Loaded8(ADDR(s, i)) \in Int
    BY <1>1, <1>3
  <2> QED BY <2>1, <1>4, <1>6, WritesAgree
<1> QED BY <1>7, <1>8, <1>9

(* Compressed stores do what their expansions do.                            *)
LEMMA StoresAgree ==
  ASSUME NEW s \in Harts, WellFormed(s), NEW i \in Infos
  PROVE  /\ Agree(do_c_swsp(s, i), do_sw(s, SpBased(i))) /\ Agree(do_c_sdsp(s, i), do_sd(s, SpBased(i)))
         /\ Agree(do_c_sw(s, i), do_sw(s, i)) /\ Agree(do_c_sd(s, i), do_sd(s, i))
<1>1. ADDR(s, SpBased(i)) = AddToSp(s, i) /\ SRC2(s, SpBased(i)) = SRC2(s, i)
  BY Fields DEF ADDR, SRC1, SRC2, AddToSp
<1> QED
  BY <1>1, RestAgrees DEF do_c_swsp, do_sw, do_c_sdsp, do_sd, do_c_sw, do_c_sd, ADDR

(* Compressed jumps and branches do what their expansions do.                *)
LEMMA JumpsAgree ==
  ASSUME NEW s \in Harts, WellFormed(s), NEW i \in Infos
  PROVE  /\ Agree(do_c_beqz(s, i), do_beq(s, AgainstZero(i)))
         /\ Agree(do_c_bnez(s, i), do_bne(s, AgainstZero(i)))
         /\ Agree(do_c_jr(s, i), do_jalr(s, JumpsTo(i, 32)))
         /\ Agree(do_c_jal(s, i), LinkAfter2(s, [s EXCEPT !.npc = i.npc]))
         /\ Agree(do_c_jalr(s, [i EXCEPT !.npc = Word(s.pc + 2)]), LinkAfter2(s, do_jalr(s, JumpsTo(i, RA))))
<1>1. Agree(do_c_beqz(s, i), do_beq(s, AgainstZero(i))) /\ Agree(do_c_bnez(s, i), do_bne(s, AgainstZero(i)))
  <2>1. SRC1(s, AgainstZero(i)) = SRC1(s, i) /\ SRC2(s, AgainstZero(i)) = 0 /\ AgainstZero(i).npc = i.npc
    BY Fields, Operands DEF SRC1, SRC2
  <2> QED BY <2>1, RestAgrees DEF do_c_beqz, do_c_bnez, do_beq, do_bne, GoIf
<1> DEFINE to == SRC1(s, i)
           link4 == Word(s.pc + 4)
           link2 == Word(s.pc + 2)
           linked(d, link, npc) == [[s EXCEPT !.gpr[d] = link] EXCEPT !.npc = npc]
<1>2. to \in Int /\ Word(to + 0) = to /\ s.pc + 4 \in Int /\ s.pc + 2 \in Int
  <2>1. to \in Words /\ to \in Int
    BY Operands
  <2>2. to + 0 = to /\ s.pc + 4 \in Int /\ s.pc + 2 \in Int
    BY <2>1, SMT DEF Harts
  <2> QED BY <2>1, <2>2, WordType
<1>3. \A d \in {1, 32} : \A npc :
        /\ WellFormed(linked(d, link4, npc)) /\ WellFormed(linked(d, link2, npc))
        /\ WellFormed(LinkAfter2(s, linked(d, link4, npc)))
  <2> SUFFICES ASSUME NEW d \in {1, 32}, NEW npc
               PROVE  /\ WellFormed(linked(d, link4, npc)) /\ WellFormed(linked(d, link2, npc))
                      /\ WellFormed(LinkAfter2(s, linked(d, link4, npc)))
    OBVIOUS
  <2>1. link4 \in Words /\ link2 \in Words
    BY <1>2, WordType
  <2> HIDE DEF link4, link2
  <2>2. Word(s.pc + 2) = link2
    BY DEF link2
  <2> QED BY <2>1, <2>2 DEF Harts, WellFormed, LinkAfter2, RA
<1>4. \A d \in {1, 32} : do_jalr(s, JumpsTo(i, d)) = linked(d, link4, to)
  BY <1>2, Fields DEF do_jalr, DEST, ADDR, SRC1
<1>5. Agree(do_c_jr(s, i), do_jalr(s, JumpsTo(i, 32)))
  <2>1. WellFormed(do_c_jr(s, i)) /\ (do_c_jr(s, i).invalid \/ do_c_jr(s, i) = [s EXCEPT !.npc = to])
    BY RestKeepsForm DEF do_c_jr, Require
  <2>2. Visible([s EXCEPT !.npc = to]) = Visible(linked(32, link4, to))
    <3> DEFINE x == [s EXCEPT !.npc = to]
               y == linked(32, link4, to)
    <3>1. \A r \in {0, 1, 2} : x.gpr[r] = y.gpr[r]
      BY DEF Harts
    <3>2. [r \in {0, 1, 2} |-> x.gpr[r]] = [r \in {0, 1, 2} |-> y.gpr[r]]
      <4> HIDE DEF x, y
      <4> QED BY <3>1
    <3>3. \A g : [x EXCEPT !.gpr = g] = [y EXCEPT !.gpr = g]
      BY DEF Harts
    <3> HIDE DEF x, y
    <3>4. Visible(x) = Visible(y)
      BY <3>2, <3>3 DEF Visible
    <3> QED BY <3>4 DEF x, y
  <2>3. do_jalr(s, JumpsTo(i, 32)) = linked(32, link4, to) /\ WellFormed(linked(32, link4, to))
    BY <1>3, <1>4
  <2> HIDE DEF linked
  <2> QED BY <2>1, <2>2, <2>3 DEF Agree
<1>6. Agree(do_c_jal(s, i), LinkAfter2(s, [s EXCEPT !.npc = i.npc]))
  <2>1. do_c_jal(s, i) = linked(1, link2, i.npc) /\ LinkAfter2(s, [s EXCEPT !.npc = i.npc]) = linked(1, link2, i.npc)
    BY DEF do_c_jal, LinkAfter2, RA, Harts
  <2>2. WellFormed(linked(1, link2, i.npc))
    BY <1>3
  <2> HIDE DEF linked
  <2> QED BY <2>1, <2>2 DEF Agree
<1>7. Agree(do_c_jalr(s, [i EXCEPT !.npc = Word(s.pc + 2)]), LinkAfter2(s, do_jalr(s, JumpsTo(i, RA))))
  <2>1. do_c_jalr(s, [i EXCEPT !.npc = Word(s.pc + 2)]) = linked(1, link2, to)
    BY DEF do_c_jalr, RA, Harts, Infos, SRC1
  <2>2. LinkAfter2(s, linked(1, link4, to)) = linked(1, link2, to)
    BY DEF LinkAfter2, RA, Harts
  <2>3. do_jalr(s, JumpsTo(i, RA)) = linked(1, link4, to) /\ WellFormed(linked(1, link2, to))
    BY <1>3, <1>4 DEF RA
  <2> HIDE DEF linked
  <2> QED BY <2>1, <2>2, <2>3 DEF Agree
<1> QED BY <1>1, <1>5, <1>6, <1>7

(* Compressed arithmetic on an immediate does what its expansion does.       *)
LEMMA ImmediatesAgree ==
  ASSUME NEW s \in Harts, WellFormed(s), NEW i \in Infos
  PROVE  /\ Agree(do_c_li(s, i), do_addi(s, FromZero(i))) /\ Agree(do_c_lui(s, i), do_lui(s, i))
         /\ Agree(do_c_addi(s, i), do_addi(s, TwoAddress(i)))
         /\ Agree(do_c_addiw(s, i), do_addiw(s, TwoAddress(i)))
         /\ Agree(do_c_addi16sp(s, i), do_addi(s, SpToSp(i)))
         /\ Agree(do_c_addi4spn(s, i), do_addi(s, SpBased(i)))
         /\ Agree(do_c_andi(s, i), do_andi(s, TwoAddress(i)))
<1> DEFINE imm == i.imm
           toRd == s.gpr[i.rd] + imm
           toSp == AddToSp(s, i)
           both == And(s.gpr[i.rd], imm)
           half == Sext(toRd, HALF)
           cond == ~rd_is_x0(i)
           nonzero == i.imm # 0
<1>1. imm \in Int /\ toRd \in Int /\ toSp \in Int /\ 0 + imm = imm
  BY Operands, SMT DEF AddToSp
<1>2. both \in Int
  BY Operands, BitwiseType
<1>3. half \in Int
  <2> HIDE DEF toRd
  <2>1. half \in Words /\ \A w \in Words : w \in Int
    BY <1>1, ExtendType, Widths
  <2> QED BY <2>1
<1>4. i.rd \in {1, 2, 32} /\ SP \in {1, 2, 32} /\ SpToSp(i).rd = SP /\ SpBased(i).rd = i.rd
      /\ TwoAddress(i).rd = i.rd /\ FromZero(i).rd = i.rd
  BY Fields DEF Infos, SP
<1>5. s.gpr[0] = 0
  BY Operands
<1>6. /\ do_addi(s, FromZero(i)) = DEST(s, FromZero(i), imm)
      /\ do_lui(s, i) = DEST(s, i, imm)
      /\ do_addi(s, TwoAddress(i)) = DEST(s, TwoAddress(i), toRd)
      /\ do_addiw(s, TwoAddress(i)) = DEST(s, TwoAddress(i), half)
      /\ do_addi(s, SpToSp(i)) = DEST(s, SpToSp(i), toSp)
      /\ do_addi(s, SpBased(i)) = DEST(s, SpBased(i), toSp)
      /\ do_andi(s, TwoAddress(i)) = DEST(s, TwoAddress(i), both)
  BY <1>1, <1>5, Fields DEF do_addi, do_lui, do_addiw, do_andi, SRC1, AddToSp
<1>7. /\ do_c_li(s, i) = Require(s, cond, DEST(s, i, imm))
      /\ do_c_lui(s, i) = Require(s, cond /\ nonzero, DEST(s, i, imm))
      /\ do_c_addi(s, i) = DEST(s, i, toRd)
      /\ do_c_addiw(s, i) = Require(s, cond, DEST(s, i, half))
      /\ do_c_addi16sp(s, i) = Require(s, nonzero, DEST(s, SpToSp(i), toSp))
      /\ do_c_addi4spn(s, i) = Require(s, nonzero, DEST(s, i, toSp))
      /\ do_c_andi(s, i) = DEST(s, i, both)
  BY <1>4 DEF do_c_li, do_c_lui, do_c_addi, do_c_addiw, do_c_addi16sp, do_c_addi4spn, do_c_andi,
              RequireRd, DEST
<1>8. cond \in BOOLEAN /\ nonzero \in BOOLEAN /\ (cond /\ nonzero) \in BOOLEAN
  OBVIOUS
<1> HIDE DEF imm, toRd, toSp, both, half, cond, nonzero
<1>a. Agree(do_c_li(s, i), do_addi(s, FromZero(i)))
  BY <1>1, <1>4, <1>6, <1>7, <1>8, WritesAgree
<1>b. Agree(do_c_lui(s, i), do_lui(s, i))
  BY <1>1, <1>4, <1>6, <1>7, <1>8, WritesAgree
<1>c. Agree(do_c_addi(s, i), do_addi(s, TwoAddress(i)))
  BY <1>1, <1>4, <1>6, <1>7, WritesAgree
<1>d. Agree(do_c_addiw(s, i), do_addiw(s, TwoAddress(i)))
  BY <1>3, <1>4, <1>6, <1>7, <1>8, WritesAgree
<1>e. Agree(do_c_addi16sp(s, i), do_addi(s, SpToSp(i)))
  BY <1>1, <1>4, <1>6, <1>7, <1>8, WritesAgree
<1>f. Agree(do_c_addi4spn(s, i), do_addi(s, SpBased(i)))
  BY <1>1, <1>4, <1>6, <1>7, <1>8, WritesAgree
<1>g. Agree(do_c_andi(s, i), do_andi(s, TwoAddress(i)))
  BY <1>2, <1>4, <1>6, <1>7, WritesAgree
<1> QED BY <1>a, <1>b, <1>c, <1>d, <1>e, <1>f, <1>g

(* Compressed arithmetic on registers does what its expansion does.          *)
LEMMA RegistersAgree ==
  ASSUME NEW s \in Harts, WellFormed(s), NEW i \in Infos
  PROVE  /\ Agree(do_c_and(s, i), do_and(s, TwoAddress(i))) /\ Agree(do_c_or(s, i), do_or(s, TwoAddress(i)))
         /\ Agree(do_c_xor(s, i), do_xor(s, TwoAddress(i))) /\ Agree(do_c_mv(s, i), do_add(s, FromZero(i)))
         /\ Agree(do_c_add(s, i), do_add(s, TwoAddress(i))) /\ Agree(do_c_sub(s, i), do_sub(s, TwoAddress(i)))
         /\ Agree(do_c_addw(s, i), do_addw(s, TwoAddress(i)))
         /\ Agree(do_c_subw(s, i), do_subw(s, TwoAddress(i)))
<1> DEFINE x == s.gpr[i.rd]
           y == SRC2(s, i)
           j == TwoAddress(i)
           cond == ~rd_is_x0(i)
           sum == x + y
           difference == x - y
           halfSum == Sext(x + y, HALF)
           halfDifference == Sext(x - y, HALF)
<1>1. x \in Int /\ y \in Int /\ 0 + y = y /\ sum \in Int /\ difference \in Int
  BY Operands, SMT
<1>2. And(x, y) \in Int /\ Or(x, y) \in Int /\ Xor(x, y) \in Int
  <2> HIDE DEF x, y
  <2> QED BY <1>1, BitwiseType
<1>3. halfSum \in Int /\ halfDifference \in Int
  <2>1. halfSum \in Words /\ halfDifference \in Words
    <3>1. \A v \in Int : Sext(v, HALF) \in Words
      BY ExtendType
    <3> QED BY <1>1, <3>1
  <2>2. \A w \in Words : w \in Int
    BY Widths
  <2> QED BY <2>1, <2>2
<1>4. i.rd \in {1, 2, 32} /\ j.rd = i.rd /\ FromZero(i).rd = i.rd /\ cond \in BOOLEAN
  BY Fields DEF Infos
<1>5. SRC1(s, j) = x /\ SRC2(s, j) = y /\ SRC1(s, FromZero(i)) = 0 /\ SRC2(s, FromZero(i)) = y
  BY Fields, Operands DEF SRC1, SRC2
<1>6. /\ do_and(s, j) = DEST(s, j, And(x, y)) /\ do_or(s, j) = DEST(s, j, Or(x, y))
      /\ do_xor(s, j) = DEST(s, j, Xor(x, y)) /\ do_add(s, j) = DEST(s, j, sum)
      /\ do_sub(s, j) = DEST(s, j, difference) /\ do_addw(s, j) = DEST(s, j, halfSum)
      /\ do_subw(s, j) = DEST(s, j, halfDifference) /\ do_add(s, FromZero(i)) = DEST(s, FromZero(i), y)
  BY <1>1, <1>5 DEF do_and, do_or, do_xor, do_add, do_sub, do_addw, do_subw
<1>7. /\ do_c_and(s, i) = DEST(s, i, And(x, y)) /\ do_c_or(s, i) = DEST(s, i, Or(x, y))
      /\ do_c_xor(s, i) = DEST(s, i, Xor(x, y)) /\ do_c_mv(s, i) = Require(s, cond, DEST(s, i, y))
      /\ do_c_add(s, i) = Require(s, cond, DEST(s, i, sum)) /\ do_c_sub(s, i) = DEST(s, i, difference)
      /\ do_c_addw(s, i) = DEST(s, i, halfSum) /\ do_c_subw(s, i) = DEST(s, i, halfDifference)
  BY DEF do_c_and, do_c_or, do_c_xor, do_c_mv, do_c_add, do_c_sub, do_c_addw, do_c_subw, RequireRd
<1> HIDE DEF x, y, j, cond, sum, difference, halfSum, halfDifference
<1>a. Agree(do_c_and(s, i), do_and(s, j)) /\ Agree(do_c_or(s, i), do_or(s, j)) /\ Agree(do_c_xor(s, i), do_xor(s, j))
  BY <1>2, <1>4, <1>6, <1>7, WritesAgree
<1>b. Agree(do_c_mv(s, i), do_add(s, FromZero(i)))
  BY <1>1, <1>4, <1>6, <1>7, WritesAgree
<1>c. Agree(do_c_add(s, i), do_add(s, j))
  BY <1>1, <1>4, <1>6, <1>7, WritesAgree
<1>d. Agree(do_c_sub(s, i), do_sub(s, j))
  BY <1>1, <1>4, <1>6, <1>7, WritesAgree
<1>e. Agree(do_c_addw(s, i), do_addw(s, j)) /\ Agree(do_c_subw(s, i), do_subw(s, j))
  BY <1>3, <1>4, <1>6, <1>7, WritesAgree
<1> QED BY <1>a, <1>b, <1>c, <1>d, <1>e DEF j

(* Compressed shifts do what their expansions do.                            *)
LEMMA ShiftsAgree ==
  ASSUME NEW s \in Harts, WellFormed(s), NEW i \in Infos, i.imm < XLEN
  PROVE  /\ Agree(do_c_slli(s, i), do_slli(s, TwoAddress(i))) /\ Agree(do_c_srli(s, i), do_srli(s, TwoAddress(i)))
         /\ Agree(do_c_srai(s, i), do_srai(s, TwoAddress(i)))
<1> DEFINE x == s.gpr[i.rd]
           j == TwoAddress(i)
           cond == ~rd_is_x0(i)
<1>1. x \in Int /\ SignedWord(x) \in Int
  BY Operands, ExtendType
<1>2. i.imm \in 0 .. XLEN + 2
  <2>1. i.imm \in Nat
    BY Operands, Widths
  <2> QED BY <2>1, Widths, SMT
<1>3. ShiftLeft(x, i.imm) \in Int /\ ShiftRight(x, i.imm) \in Int /\ ShiftRight(SignedWord(x), i.imm) \in Int
  <2> HIDE DEF x
  <2> QED BY <1>1, <1>2, ShiftType
<1>4. i.rd \in {1, 2, 32} /\ j.rd = i.rd /\ cond \in BOOLEAN /\ SRC1(s, j) = x /\ j.imm = i.imm
  BY Fields DEF Infos, SRC1
<1>5. /\ do_slli(s, j) = DEST(s, j, ShiftLeft(x, i.imm)) /\ do_srli(s, j) = DEST(s, j, ShiftRight(x, i.imm))
      /\ do_srai(s, j) = DEST(s, j, ShiftRight(SignedWord(x), i.imm))
  BY <1>4 DEF do_slli, do_srli, do_srai
<1>6. /\ do_c_slli(s, i) = Require(s, cond, DEST(s, i, ShiftLeft(x, i.imm)))
      /\ do_c_srli(s, i) = DEST(s, i, ShiftRight(x, i.imm))
      /\ do_c_srai(s, i) = DEST(s, i, ShiftRight(SignedWord(x), i.imm))
  BY DEF do_c_slli, do_c_srli, do_c_srai, RequireRd
<1> HIDE DEF x, j, cond
<1>7. Agree(do_c_slli(s, i), do_slli(s, j))
  BY <1>3, <1>4, <1>5, <1>6, WritesAgree
<1>8. Agree(do_c_srli(s, i), do_srli(s, j)) /\ Agree(do_c_srai(s, i), do_srai(s, j))
  BY <1>3, <1>4, <1>5, <1>6, WritesAgree
<1> QED BY <1>7, <1>8 DEF j

(* A write to gpr[32] shows nowhere.                                         *)
LEMMA NopAgrees ==
  ASSUME NEW s \in Harts, WellFormed(s), NEW i \in Infos
  PROVE  Agree(do_c_nop(s, i), do_addi(s, [i EXCEPT !.rd = 32]))
<1> DEFINE v == SRC1(s, i) + i.imm
           e == [s EXCEPT !.gpr[32] = Word(v)]
<1>1. v \in Int
  BY Operands, SMT
<1>2. do_addi(s, [i EXCEPT !.rd = 32]) = e
  BY DEF do_addi, DEST, SRC1, Infos
<1>3. WellFormed(e)
  <2> HIDE DEF v
  <2> QED BY <1>1, WriteKeepsForm
<1>4. \A r \in {0, 1, 2} : s.gpr[r] = e.gpr[r]
  BY DEF Harts
<1>5. \A g : [s EXCEPT !.gpr = g] = [e EXCEPT !.gpr = g]
  BY DEF Harts
<1> HIDE DEF e
<1>6. Visible(s) = Visible(e)
  <2>1. [r \in {0, 1, 2} |-> s.gpr[r]] = [r \in {0, 1, 2} |-> e.gpr[r]]
    BY <1>4
  <2> QED BY <1>5, <2>1 DEF Visible
<1> QED BY <1>2, <1>3, <1>6 DEF Agree, do_c_nop

(* What was picked for a unit is what the unit takes.                        *)
Picked ==
  /\ unit = "arithmetic" => input \in Words \X Words
  /\ unit \in {"compressed", "loongarch"} => input \in Instructions
  /\ unit = "float" =>
       input \in [x : Data, y : Data, rd : {1, 3}, frm : {RTZ, RUP, DYN}, rm : {RNE, RDN, 5}]

(* A unit works on an input of its own set.                                  *)
LEMMA UnitsPick ==
  HartSpec => []Picked
<1>1. HartInit => Picked
  BY DEF HartInit, Picked
<1>2. Picked /\ [HartNext \/ Elsewhere]_hartVars => Picked'
  <2> SUFFICES ASSUME Picked, [HartNext \/ Elsewhere]_hartVars PROVE Picked'
    OBVIOUS
  <2>1. CASE Calculate
    BY <2>1 DEF Calculate, Pick, Picked
  <2>2. CASE ExecuteCompressed
    BY <2>2 DEF ExecuteCompressed, Pick, Picked
  <2>3. CASE ExecuteLoongArch
    BY <2>3 DEF ExecuteLoongArch, Pick, Picked
  <2>4. CASE CalculateFloat
    BY <2>4 DEF CalculateFloat, Pick, Picked
  <2>5. CASE BootHart
    BY <2>5 DEF BootHart, Picked
  <2>6. CASE ExecuteCsr \/ EnterMode \/ ResetHart \/ Debug \/ Raise \/ Lower
    BY <2>6 DEF ExecuteCsr, EnterMode, ResetHart, Debug, Raise, Lower, HartStep, Picked
  <2>7. CASE Elsewhere
    BY <2>7 DEF Elsewhere, HartUnitNames, Picked
  <2>8. CASE UNCHANGED hartVars
    BY <2>8 DEF hartVars, Picked
  <2> QED BY <2>1, <2>2, <2>3, <2>4, <2>5, <2>6, <2>7, <2>8 DEF HartNext
<1> QED BY <1>1, <1>2, PTL DEF HartSpec

(* Every compressed instruction of compressed.cpp, in registers of any       *)
(* width, is invalid or does what the instruction it abbreviates does.       *)
THEOREM CompressedIsExpanded ==
  HartSpec => []CompressedAsExpanded
<1>1. Picked => CompressedAsExpanded
  <2> SUFFICES ASSUME Picked, unit = "compressed" PROVE CompressedAsExpanded
    BY DEF CompressedAsExpanded, Is
  <2> DEFINE s == Hart(input.a, input.b)
             i == DecodeInfo(input)
  <2>1. input \in Instructions
    BY DEF Picked
  <2>2. s \in Harts /\ WellFormed(s) /\ i \in Infos /\ i.imm = input.imm
    BY <2>1, InfoType, HartType DEF DecodeInfo
  <2> HIDE DEF s, i
  <2>3. \A p \in Expansions(s, i) : Agree(p[1], p[2])
    <3> SUFFICES ASSUME NEW p \in Expansions(s, i) PROVE Agree(p[1], p[2])
      OBVIOUS
    <3> QED BY <2>2, LoadsAgree, StoresAgree, JumpsAgree, ImmediatesAgree, RegistersAgree, NopAgrees
            DEF Expansions
  <2>4. input.imm < XLEN => \A p \in ShiftExpansions(s, i) : Agree(p[1], p[2])
    BY <2>2, ShiftsAgree DEF ShiftExpansions
  <2> QED BY <2>3, <2>4 DEF CompressedAsExpanded, Agree, s, i
<1> QED BY <1>1, UnitsPick, PTL

-----------------------------------------------------------------------------
(* Division, congruence and the bits of a word.                              *)

(* Division with remainder.                                                  *)
LEMMA DivMod ==
  ASSUME NEW n \in Nat \ {0}, NEW x \in Int
  PROVE  x \div n \in Int /\ x % n \in 0 .. n - 1 /\ x = n * (x \div n) + (x % n)
<1>1. x \div n \in Int /\ x % n \in Int
  BY SMT
<1>2. x % n \in 0 .. n - 1
  BY SMT
<1>3. x = n * (x \div n) + (x % n)
  BY SMT
<1> QED BY <1>1, <1>2, <1>3

(* Quotient and remainder are unique.                                        *)
LEMMA Unique ==
  ASSUME NEW n \in Nat \ {0}, NEW q \in Int, NEW r \in 0 .. n - 1
  PROVE  (n * q + r) % n = r /\ (n * q + r) \div n = q
<1>1. \A x \in Int : x = n * q + r => x % n = r /\ x \div n = q
  BY SMT
<1>2. n * q + r \in Int
  BY SMT
<1> QED BY <1>1, <1>2

(* Numbers that differ by a multiple leave the same remainder.               *)
LEMMA Congruent ==
  ASSUME NEW n \in Nat \ {0}, NEW x \in Int, NEW y \in Int, NEW q \in Int, x = y + n * q
  PROVE  x % n = y % n
<1> DEFINE d == y \div n
           r == y % n
<1>1. d \in Int /\ r \in 0 .. n - 1 /\ y = n * d + r
  BY DivMod
<1> HIDE DEF d, r
<1>2. n * (d + q) = n * d + n * q /\ d + q \in Int /\ n * d \in Int /\ n * q \in Int
  BY <1>1, SMT
<1>3. x = n * (d + q) + r
  BY <1>1, <1>2, SMT
<1>4. (n * (d + q) + r) % n = r
  BY <1>1, <1>2, Unique
<1> QED BY <1>3, <1>4 DEF r

(* Factors with the same remainder have products with the same remainder.    *)
LEMMA SameProduct ==
  ASSUME NEW n \in Nat \ {0}, NEW x \in Int, NEW y \in Int, NEW p \in Int, x % n = y % n
  PROVE  (x * p) % n = (y * p) % n
<1> DEFINE c == x \div n
           d == y \div n
           r == x % n
           e == c - d
<1>1. c \in Int /\ d \in Int /\ r \in 0 .. n - 1 /\ x = n * c + r /\ y = n * d + r
  BY DivMod
<1> HIDE DEF c, d, r
<1>2. n * e = n * c - n * d /\ n * c \in Int /\ n * d \in Int /\ e \in Int
  BY <1>1, SMT
<1> HIDE DEF e
<1>3. x = y + n * e
  BY <1>1, <1>2, SMT
<1>4. (y + n * e) * p = y * p + n * (e * p) /\ x * p \in Int /\ y * p \in Int /\ e * p \in Int
  BY <1>2, SMT
<1> DEFINE f == e * p
           u == x * p
           w == y * p
<1>5. f \in Int /\ u \in Int /\ w \in Int /\ u = w + n * f
  BY <1>3, <1>4
<1> HIDE DEF f, u, w
<1>6. u % n = w % n
  <2>1. n \in Nat \ {0}
    OBVIOUS
  <2>2. \A k, l, j \in Int : k = l + n * j => k % n = l % n
    <3> SUFFICES ASSUME NEW k \in Int, NEW l \in Int, NEW j \in Int, k = l + n * j
                 PROVE  k % n = l % n
      OBVIOUS
    <3> QED BY <2>1, Congruent
  <2> QED BY <1>5, <2>2
<1> QED BY <1>6 DEF u, w

(* Powers of two multiply by adding their exponents.                         *)
LEMMA PowersMultiply ==
  \A k \in 0 .. XLEN : 2 ^ XLEN = 2 ^ k * 2 ^ (XLEN - k) /\ 2 ^ (XLEN - k) \in Nat \ {0}
<1> DEFINE Good == {k \in 0 .. XLEN : 2 ^ XLEN = 2 ^ k * 2 ^ (XLEN - k)}
<1>1. XLEN \in Nat /\ 2 ^ XLEN \in Nat
  BY Widths
<1>2. 0 \in Good
  <2>1. XLEN - 0 = XLEN /\ 0 \in 0 .. XLEN
    BY <1>1, SMT
  <2>2. 2 ^ 0 * 2 ^ XLEN = 2 ^ XLEN
    BY <1>1, ByteAssumption, SMT
  <2> QED BY <2>1, <2>2
<1>3. ASSUME NEW k \in 0 .. XLEN - 1, k \in Good PROVE k + 1 \in Good
  <2> DEFINE m == XLEN - (k + 1)
             P == 2 ^ m
             Q == 2 ^ k
  <2>1. m \in 0 .. XLEN + 1 /\ m \in 0 .. XLEN + 2 /\ m + 1 = XLEN - k /\ k \in 0 .. XLEN + 1
        /\ k \in 0 .. XLEN + 2 /\ k + 1 \in 0 .. XLEN
    BY <1>1, SMT
  <2>2. P \in Nat /\ Q \in Nat
    BY <2>1, Powers
  <2>3. 2 ^ (XLEN - k) = 2 * P /\ 2 ^ (k + 1) = 2 * Q
    <3>1. 2 ^ (m + 1) = 2 * 2 ^ m /\ 2 ^ (k + 1) = 2 * 2 ^ k
      BY <2>1, PowerMore
    <3> QED BY <2>1, <3>1
  <2>4. 2 ^ XLEN = Q * 2 ^ (XLEN - k)
    BY <1>3
  <2> HIDE DEF m, P, Q
  <2>5. Q * (2 * P) = (2 * Q) * P
    BY <2>2, SMT
  <2>6. 2 ^ XLEN = 2 ^ (k + 1) * 2 ^ m
    BY <2>3, <2>4, <2>5 DEF P
  <2> QED BY <2>1, <2>6 DEF m
<1>4. Good = 0 .. XLEN
  <2>1. Good \in SUBSET (0 .. XLEN)
    OBVIOUS
  <2> HIDE DEF Good
  <2> QED BY <1>1, <1>2, <1>3, <2>1, UpTo
<1>5. \A k \in 0 .. XLEN : XLEN - k \in 0 .. XLEN + 2
  BY <1>1, SMT
<1> QED BY <1>4, <1>5, Powers

(* A word is two halves wide.                                                *)
LEMMA Halves ==
  2 ^ XLEN = 2 ^ HALF * 2 ^ HALF
<1>1. HALF \in 0 .. XLEN /\ XLEN - HALF = HALF
  BY Widths, SMT
<1> QED BY <1>1, PowersMultiply

(* The bits of a word make it up.                                            *)
LEMMA BitsMakeWord ==
  ASSUME NEW a \in Words
  PROVE  Together([k \in 0 .. XLEN - 1 |-> Bit(a, k)]) = a
<1> DEFINE bit == [k \in 0 .. XLEN - 1 |-> Bit(a, k)]
           term == [k \in 0 .. XLEN - 1 |-> bit[k] * 2 ^ k]
<1>1. PICK f : /\ f[0] = 0 /\ Sum(term, XLEN) = f[XLEN]
               /\ \A k \in 0 .. XLEN - 1 : f[k + 1] = f[k] + term[k]
  BY PartialSums, Widths
<1> DEFINE Good == {k \in 0 .. XLEN : f[k] = a % 2 ^ k}
<1>2. a \in Int /\ XLEN \in Nat
  BY Widths
<1>3. 0 \in Good
  <2>1. a % 1 = 0
    BY <1>2, SMT
  <2> QED BY <1>1, <1>2, <2>1, ByteAssumption, SMT
<1>4. ASSUME NEW k \in 0 .. XLEN - 1, k \in Good PROVE k + 1 \in Good
  <2> DEFINE P == 2 ^ k
             q == a \div P
             r == a % P
             h == q \div 2
             c == q % 2
  <2>1. k \in 0 .. XLEN + 1 /\ k \in 0 .. XLEN + 2 /\ k + 1 \in 0 .. XLEN
    BY <1>2, SMT
  <2>2. P \in Nat \ {0} /\ 2 ^ (k + 1) = 2 * P
    BY <2>1, Powers, PowerMore
  <2>3. q \in Int /\ r \in 0 .. P - 1 /\ a = P * q + r
    <3> HIDE DEF P
    <3> QED BY <1>2, <2>2, DivMod
  <2>4. h \in Int /\ c \in {0, 1} /\ q = 2 * h + c
    <3> HIDE DEF q
    <3> QED BY <2>3, SMT
  <2>5. f[k + 1] = r + c * P
    BY <1>1, <1>4 DEF Bit
  <2> HIDE DEF P, q, r, h, c
  <2>6. P * q = (2 * P) * h + c * P
    <3>1. P * (2 * h + c) = P * (2 * h) + P * c /\ P * (2 * h) = (2 * P) * h
      BY <2>2, <2>4, SMT
    <3>2. P * q = P * (2 * h + c) /\ P * c = c * P
      BY <2>2, <2>4, SMT
    <3> QED BY <3>1, <3>2
  <2>7. c * P + r \in 0 .. 2 * P - 1 /\ (2 * P) \in Nat \ {0} /\ (2 * P) * h \in Int /\ c * P \in Int
    <3>1. c * P = IF c = 0 THEN 0 ELSE P
      BY <2>2, <2>4, SMT
    <3>2. (2 * P) * h \in Int
      BY <2>2, <2>4, SMT
    <3> QED BY <2>2, <2>3, <2>4, <3>1, <3>2, SMT
  <2>8. a = (2 * P) * h + (c * P + r)
    BY <2>3, <2>6, <2>7, SMT
  <2>9. ((2 * P) * h + (c * P + r)) % (2 * P) = c * P + r
    BY <2>4, <2>7, Unique
  <2>10. r + c * P = c * P + r
    BY <2>3, <2>7, SMT
  <2> QED BY <2>1, <2>2, <2>5, <2>8, <2>9, <2>10
<1>5. Good = 0 .. XLEN
  <2>1. Good \in SUBSET (0 .. XLEN)
    OBVIOUS
  <2> HIDE DEF Good
  <2> QED BY <1>2, <1>3, <1>4, <2>1, UpTo
<1>6. f[XLEN] = a % 2 ^ XLEN
  <2>1. XLEN \in 0 .. XLEN
    BY <1>2, SMT
  <2> QED BY <1>5, <2>1
<1>7. a % 2 ^ XLEN = a
  BY <1>2, WordType DEF Word
<1>8. Together(bit) = Sum(term, XLEN)
  BY DEF Together
<1> QED BY <1>1, <1>6, <1>7, <1>8

(* Bits of any kind make a word up.                                          *)
LEMMA TogetherWord ==
  ASSUME NEW bit, \A k \in 0 .. XLEN - 1 : bit[k] \in {0, 1}
  PROVE  Together(bit) \in Words
<1> DEFINE term == [k \in 0 .. XLEN - 1 |-> bit[k] * 2 ^ k]
<1>1. PICK f : /\ f[0] = 0 /\ Sum(term, XLEN) = f[XLEN]
               /\ \A k \in 0 .. XLEN - 1 : f[k + 1] = f[k] + term[k]
  BY PartialSums, Widths
<1> DEFINE Good == {k \in 0 .. XLEN : f[k] \in 0 .. 2 ^ k - 1}
<1>2. XLEN \in Nat
  BY Widths
<1>3. 0 \in Good
  BY <1>1, <1>2, ByteAssumption, SMT
<1>4. ASSUME NEW k \in 0 .. XLEN - 1, k \in Good PROVE k + 1 \in Good
  <2> DEFINE P == 2 ^ k
             c == bit[k]
  <2>1. k \in 0 .. XLEN + 1 /\ k \in 0 .. XLEN + 2 /\ k + 1 \in 0 .. XLEN
    BY <1>2, SMT
  <2>2. P \in Nat \ {0} /\ 2 ^ (k + 1) = 2 * P
    BY <2>1, Powers, PowerMore
  <2>3. f[k + 1] = f[k] + c * P
    BY <1>1
  <2>4. c \in {0, 1} /\ f[k] \in 0 .. P - 1
    BY <1>4
  <2> HIDE DEF P, c
  <2>5. c * P = IF c = 0 THEN 0 ELSE P
    BY <2>2, <2>4, SMT
  <2>6. f[k + 1] \in 0 .. 2 * P - 1
    BY <2>2, <2>3, <2>4, <2>5, SMT
  <2> QED BY <2>1, <2>2, <2>6
<1>5. Good = 0 .. XLEN
  <2>1. Good \in SUBSET (0 .. XLEN)
    OBVIOUS
  <2> HIDE DEF Good
  <2> QED BY <1>2, <1>3, <1>4, <2>1, UpTo
<1>6. f[XLEN] \in 0 .. 2 ^ XLEN - 1
  <2>1. XLEN \in 0 .. XLEN
    BY <1>2, SMT
  <2> QED BY <1>5, <2>1
<1> QED BY <1>1, <1>6 DEF Together, Words

(* Bit by bit, two words add up to a third.                                  *)
LEMMA TogetherAdds ==
  ASSUME NEW a, NEW b, NEW c,
         \A k \in 0 .. XLEN - 1 : /\ a[k] \in {0, 1} /\ b[k] \in {0, 1} /\ c[k] \in {0, 1}
                                  /\ a[k] + b[k] = c[k]
  PROVE  Together(a) + Together(b) = Together(c)
<1> DEFINE ta == [k \in 0 .. XLEN - 1 |-> a[k] * 2 ^ k]
           tb == [k \in 0 .. XLEN - 1 |-> b[k] * 2 ^ k]
           tc == [k \in 0 .. XLEN - 1 |-> c[k] * 2 ^ k]
<1>0. XLEN \in Nat
  BY Widths
<1>1. PICK f : /\ f[0] = 0 /\ Sum(ta, XLEN) = f[XLEN]
               /\ \A k \in 0 .. XLEN - 1 : f[k + 1] = f[k] + ta[k]
  <2> HIDE DEF ta, tb, tc
  <2> QED BY <1>0, PartialSums
<1>2. PICK g : /\ g[0] = 0 /\ Sum(tb, XLEN) = g[XLEN]
               /\ \A k \in 0 .. XLEN - 1 : g[k + 1] = g[k] + tb[k]
  <2> HIDE DEF ta, tb, tc
  <2> QED BY <1>0, PartialSums
<1>3. PICK h : /\ h[0] = 0 /\ Sum(tc, XLEN) = h[XLEN]
               /\ \A k \in 0 .. XLEN - 1 : h[k + 1] = h[k] + tc[k]
  <2> HIDE DEF ta, tb, tc
  <2> QED BY <1>0, PartialSums
<1> DEFINE Good == {k \in 0 .. XLEN : f[k] \in Int /\ g[k] \in Int /\ f[k] + g[k] = h[k]}
<1>4. 0 \in Good
  BY <1>0, <1>1, <1>2, <1>3, SMT
<1>5. ASSUME NEW k \in 0 .. XLEN - 1, k \in Good PROVE k + 1 \in Good
  <2> DEFINE P == 2 ^ k
             x == a[k]
             y == b[k]
             z == c[k]
  <2>1. k \in 0 .. XLEN + 2 /\ k + 1 \in 0 .. XLEN
    BY <1>0, SMT
  <2>2. P \in Nat
    BY <2>1, Powers
  <2>3. f[k + 1] = f[k] + x * P /\ g[k + 1] = g[k] + y * P /\ h[k + 1] = h[k] + z * P
    BY <1>1, <1>2, <1>3
  <2>4. x \in {0, 1} /\ y \in {0, 1} /\ x + y = z
    OBVIOUS
  <2>5. f[k] \in Int /\ g[k] \in Int /\ f[k] + g[k] = h[k]
    BY <1>5
  <2> HIDE DEF P, x, y, z
  <2>6. x * P = (IF x = 0 THEN 0 ELSE P) /\ y * P = (IF y = 0 THEN 0 ELSE P)
        /\ z * P = IF z = 0 THEN 0 ELSE IF z = 1 THEN P ELSE 2 * P
    BY <2>2, <2>4, SMT
  <2>7. f[k + 1] \in Int /\ g[k + 1] \in Int /\ f[k + 1] + g[k + 1] = h[k + 1]
    <3> DEFINE xP == x * P
               yP == y * P
               zP == z * P
    <3>1. xP \in Int /\ yP \in Int /\ xP + yP = zP
      BY <2>2, <2>4, <2>6, SMT
    <3> HIDE DEF xP, yP, zP
    <3>2. f[k + 1] = f[k] + xP /\ g[k + 1] = g[k] + yP /\ h[k + 1] = h[k] + zP
      BY <2>3 DEF xP, yP, zP
    <3> QED BY <2>5, <3>1, <3>2, SMT
  <2> QED BY <2>1, <2>7
<1>6. Good = 0 .. XLEN
  <2>1. Good \in SUBSET (0 .. XLEN)
    OBVIOUS
  <2> HIDE DEF Good
  <2> QED BY <1>0, <1>4, <1>5, <2>1, UpTo
<1>7. XLEN \in Good
  <2> HIDE DEF Good
  <2> QED BY <1>0, <1>6, SMT
<1> QED BY <1>1, <1>2, <1>3, <1>7 DEF Together

(* The complement has the other bits.                                        *)
LEMMA ComplementBits ==
  ASSUME NEW b \in Words
  PROVE  Complement(b) \in Words /\ \A k \in 0 .. XLEN - 1 : Bit(Complement(b), k) = 1 - Bit(b, k)
<1> DEFINE X == 2 ^ XLEN
<1>1. X \in Nat \ {0} /\ b \in 0 .. X - 1 /\ XLEN \in Nat
  BY Widths DEF Words
<1>2. Complement(b) = X - 1 - b
  BY DEF Complement
<1>3. Complement(b) \in Words
  <2>1. X - 1 - b \in 0 .. X - 1
    <3> HIDE DEF X
    <3> QED BY <1>1, SMT
  <2> QED BY <1>2, <2>1 DEF Words
<1>4. ASSUME NEW k \in 0 .. XLEN - 1 PROVE Bit(Complement(b), k) = 1 - Bit(b, k)
  <2> DEFINE P == 2 ^ k
             m == XLEN - (k + 1)
             R == 2 ^ m
             q == b \div P
             r == b % P
  <2>1. k \in 0 .. XLEN + 2 /\ k \in 0 .. XLEN /\ m \in 0 .. XLEN + 1 /\ m \in 0 .. XLEN + 2 /\ m + 1 = XLEN - k
    BY <1>1, SMT
  <2>2. P \in Nat \ {0} /\ R \in Nat /\ 2 ^ (XLEN - k) = 2 * R
    <3>1. 2 ^ (m + 1) = 2 * 2 ^ m
      BY <2>1, PowerMore
    <3> QED BY <2>1, <3>1, Powers
  <2>3. X = P * (2 * R)
    BY <2>1, <2>2, PowersMultiply
  <2>4. q \in Int /\ r \in 0 .. P - 1 /\ b = P * q + r
    <3> HIDE DEF P, X
    <3> QED BY <1>1, <2>2, DivMod
  <2>5. Bit(b, k) = q % 2 /\ Bit(Complement(b), k) = ((X - 1 - b) \div P) % 2
    BY <1>2 DEF Bit
  <2> HIDE DEF X, P, R, q, r, m
  <2> DEFINE n == 2 * R - 1 - q
  <2>6. n \in Int /\ P - 1 - r \in 0 .. P - 1
    BY <2>2, <2>4, SMT
  <2>7. X - 1 - b = P * n + (P - 1 - r)
    <3>1. P * n = P * (2 * R) - P - P * q /\ P * (2 * R) \in Int /\ P * q \in Int
      BY <2>2, <2>4, SMT
    <3> HIDE DEF n
    <3> QED BY <1>1, <2>2, <2>3, <2>4, <3>1, SMT
  <2>8. (X - 1 - b) \div P = n
    <3> HIDE DEF n
    <3> QED BY <2>2, <2>6, <2>7, Unique
  <2>9. n % 2 = 1 - (q % 2)
    BY <2>2, <2>4, SMT
  <2>10. Bit(b, k) = q % 2 /\ Bit(Complement(b), k) = n % 2
    <3> HIDE DEF n
    <3> QED BY <2>5, <2>8
  <2> HIDE DEF n
  <2> QED BY <2>9, <2>10
<1> QED BY <1>3, <1>4

-----------------------------------------------------------------------------
(* LoongArch beside RISC-V.                                                  *)

LAInfos == [rd : {0, 1}, rj : {0, 1, 2}, rk : {1, 2}, rs1 : {0, 1, 2}, rs2 : {1, 2}, imm : Words, npc : {80}]

Alike(c, e) == WellFormed(c) /\ Visible(c) = Visible(e)

(* What is decoded of a LoongArch instruction.                               *)
LEMMA LAFieldsType ==
  ASSUME NEW n \in Instructions
  PROVE  LAFields(n) \in LAInfos
BY InputAssumption, SMT DEF Instructions, LAFields, LAInfos

(* Its operands are words.                                                   *)
LEMMA LAOperands ==
  ASSUME NEW s \in Harts, WellFormed(s), NEW i \in LAInfos
  PROVE  /\ RJ(s, i) \in Words /\ RK(s, i) \in Words /\ RD(s, i) \in Words /\ i.imm \in Words
         /\ RJ(s, i) \in Int /\ RK(s, i) \in Int /\ RD(s, i) \in Int /\ i.imm \in Int /\ s.pc \in Int
<1>1. s.gpr \in [{0, 1, 2, 32} -> Words]
  BY DEF Harts
<1>2. i.rd \in {0, 1} /\ i.rj \in {0, 1, 2} /\ i.rk \in {1, 2} /\ i.imm \in Words
  BY DEF LAInfos
<1>3. s.gpr[i.rd] \in Words /\ s.gpr[i.rj] \in Words /\ s.gpr[i.rk] \in Words
  BY <1>1, <1>2
<1>4. \A w \in Words : w \in Int
  BY Widths
<1>5. s.pc \in Int
  BY SMT DEF Harts
<1> QED BY <1>2, <1>3, <1>4, <1>5 DEF RJ, RK, RD

(* The fields of the RISC-V twin.                                            *)
LEMMA LATwins ==
  ASSUME NEW s, NEW i \in LAInfos
  PROVE  /\ Same(i).rd = set_rd(i.rd) /\ Same(i).rs1 = i.rj /\ Same(i).rs2 = i.rk /\ Same(i).imm = i.imm
         /\ Branch(s, i).rs1 = i.rj /\ Branch(s, i).rs2 = i.rd /\ Branch(s, i).npc = Word(s.pc + i.imm)
         /\ Branch(s, i).imm = i.imm
BY DEF LAInfos, Same, Branch

(* A hart with other registers, and one that has jumped as well.             *)
WithGpr(s, g) == [s EXCEPT !.gpr = g]
WithJump(s, g, npc) == [s EXCEPT !.gpr = g, !.npc = npc]

(* Harts with the same registers, jump and store look alike.                 *)
LEMMA LooksAlike ==
  ASSUME NEW s \in Harts, NEW g, NEW h, NEW npc, \A r \in {0, 1, 2} : g[r] = h[r]
  PROVE  /\ Visible(WithGpr(s, g)) = Visible(WithGpr(s, h))
         /\ Visible(WithJump(s, g, npc)) = Visible(WithJump(s, h, npc))
<1> DEFINE G == [r \in {0, 1, 2} |-> g[r]]
           H == [r \in {0, 1, 2} |-> h[r]]
<1>1. G = H
  OBVIOUS
<1> HIDE DEF G, H
<1>2. Visible(WithGpr(s, g)) = WithGpr(s, G) /\ Visible(WithGpr(s, h)) = WithGpr(s, H)
  BY DEF Visible, Harts, G, H, WithGpr
<1>3. Visible(WithJump(s, g, npc)) = WithJump(s, G, npc) /\ Visible(WithJump(s, h, npc)) = WithJump(s, H, npc)
  BY DEF Visible, Harts, G, H, WithJump
<1> QED BY <1>1, <1>2, <1>3

(* A write of a register keeps a hart well-formed.                           *)
LEMMA GprForm ==
  ASSUME NEW s \in Harts, NEW g \in [{0, 1, 2, 32} -> Words], g[0] = 0, NEW npc
  PROVE  WellFormed(WithGpr(s, g)) /\ WellFormed(WithJump(s, g, npc))
<1>1. WithGpr(s, g).gpr = g /\ WithJump(s, g, npc).gpr = g
  BY DEF Harts, WithGpr, WithJump
<1> QED BY <1>1 DEF WellFormed

(* x0 is written and cleared on the one core, spared on the other.           *)
LEMMA SetAlike ==
  ASSUME NEW s \in Harts, WellFormed(s), NEW i, NEW r, i.rd \in {0, 1}, r.rd = set_rd(i.rd), NEW v \in Int
  PROVE  Alike(Set(s, i, v), DEST(s, r, v))
<1> DEFINE g == [s.gpr EXCEPT ![i.rd] = Word(v), ![0] = 0]
           h == [s.gpr EXCEPT ![r.rd] = Word(v)]
<1>1. s.gpr \in [{0, 1, 2, 32} -> Words] /\ s.gpr[0] = 0 /\ Word(v) \in Words /\ 0 \in Words
  BY WordType, Widths DEF Harts, WellFormed
<1>2. g \in [{0, 1, 2, 32} -> Words] /\ g[0] = 0
  BY <1>1
<1>3. ASSUME NEW k \in {0, 1, 2} PROVE g[k] = h[k]
  <2>1. CASE i.rd = 0
    <3>1. r.rd = 32
      BY <2>1 DEF set_rd
    <3> QED BY <1>1, <2>1, <3>1
  <2>2. CASE i.rd = 1
    <3>1. r.rd = 1
      BY <2>2 DEF set_rd
    <3> QED BY <1>1, <2>2, <3>1
  <2> QED BY <2>1, <2>2
<1>4. Set(s, i, v) = WithGpr(s, g) /\ DEST(s, r, v) = WithGpr(s, h)
  BY DEF Set, set_gpr, DEST, Harts, WithGpr
<1> HIDE DEF g, h
<1>5. WellFormed(WithGpr(s, g))
  BY <1>2, GprForm
<1>6. Visible(WithGpr(s, g)) = Visible(WithGpr(s, h))
  BY <1>3, LooksAlike
<1> QED BY <1>4, <1>5, <1>6 DEF Alike

(* The two cores agree on instructions between registers.                    *)
LEMMA RegistersAlike ==
  ASSUME NEW s \in Harts, WellFormed(s), NEW i \in LAInfos
  PROVE  /\ Alike(la_add_w(s, i), do_addw(s, Same(i))) /\ Alike(la_sub_w(s, i), do_subw(s, Same(i)))
         /\ Alike(la_slt(s, i), do_slt(s, Same(i))) /\ Alike(la_sltu(s, i), do_sltu(s, Same(i)))
         /\ Alike(la_and(s, i), do_and(s, Same(i))) /\ Alike(la_or(s, i), do_or(s, Same(i)))
         /\ Alike(la_xor(s, i), do_xor(s, Same(i))) /\ Alike(la_srl_w(s, i), do_srlw(s, Same(i)))
         /\ Alike(la_sra_w(s, i), do_sraw(s, Same(i))) /\ Alike(la_add_d(s, i), do_add(s, Same(i)))
         /\ Alike(la_sub_d(s, i), do_sub(s, Same(i)))
<1> DEFINE x == RJ(s, i)
           y == RK(s, i)
           r == Same(i)
           n == ShamtW(y)
<1>1. x \in Int /\ y \in Int
  BY LAOperands
<1>2. SRC1(s, r) = x /\ SRC2(s, r) = y /\ r.rd = set_rd(i.rd) /\ i.rd \in {0, 1}
  BY LATwins DEF SRC1, SRC2, RJ, RK, LAInfos
<1>3. \A v \in Int : Alike(Set(s, i, v), DEST(s, r, v))
  BY <1>2, SetAlike
<1> HIDE DEF x, y, r
<1>4. \A w \in Words : w \in Int
  BY Widths
<1>5. \A v \in Int : Sext(v, HALF) \in Int /\ SignedLow(v, HALF) \in Int /\ SignedWord(v) \in Int
                     /\ Low32(v) \in Int
  BY <1>4, ExtendType, SMT
<1>6. x + y \in Int /\ x - y \in Int
  BY <1>1, SMT
<1>7. n \in 0 .. XLEN + 2
  <2>1. HALF \in Nat \ {0}
    BY Widths, SMT
  <2>2. n \in 0 .. HALF - 1
    BY <1>1, <2>1, SMT DEF ShamtW
  <2> HIDE DEF n
  <2> QED BY <2>2, Widths, SMT
<1> HIDE DEF n
<1>8. ShiftRight(Low32(x), n) \in Int /\ ShiftRight(SignedLow(x, HALF), n) \in Int
  BY <1>1, <1>5, <1>7, ShiftType
<1>9. \A b : Flag(b) \in Int
  BY SMT DEF Flag
<1>10. And(x, y) \in Int /\ Or(x, y) \in Int /\ Xor(x, y) \in Int
  BY <1>1, BitwiseType
<1>11. Sext(ShiftRight(Low32(x), n), HALF) \in Int /\ Sext(x + y, HALF) \in Int /\ Sext(x - y, HALF) \in Int
  BY <1>5, <1>6, <1>8
<1>a. /\ Alike(la_add_w(s, i), do_addw(s, r)) /\ Alike(la_sub_w(s, i), do_subw(s, r))
      /\ Alike(la_add_d(s, i), do_add(s, r)) /\ Alike(la_sub_d(s, i), do_sub(s, r))
  BY <1>2, <1>3, <1>6, <1>11, Zenon DEF la_add_w, do_addw, la_sub_w, do_subw, la_add_d, do_add, la_sub_d, do_sub, x, y
<1>b. Alike(la_slt(s, i), do_slt(s, r)) /\ Alike(la_sltu(s, i), do_sltu(s, r))
  BY <1>2, <1>3, <1>9, Zenon DEF la_slt, do_slt, la_sltu, do_sltu, x, y
<1>c. Alike(la_and(s, i), do_and(s, r)) /\ Alike(la_or(s, i), do_or(s, r)) /\ Alike(la_xor(s, i), do_xor(s, r))
  BY <1>2, <1>3, <1>10, Zenon DEF la_and, do_and, la_or, do_or, la_xor, do_xor, x, y
<1>d. Alike(la_srl_w(s, i), do_srlw(s, r)) /\ Alike(la_sra_w(s, i), do_sraw(s, r))
  BY <1>2, <1>3, <1>8, <1>11, Zenon DEF la_srl_w, do_srlw, la_sra_w, do_sraw, x, y, n
<1> QED BY <1>a, <1>b, <1>c, <1>d DEF r

(* The two cores agree on instructions with an immediate.                    *)
LEMMA ImmediatesAlike ==
  ASSUME NEW s \in Harts, WellFormed(s), NEW i \in LAInfos
  PROVE  /\ Alike(la_addi_w(s, i), do_addiw(s, Same(i))) /\ Alike(la_slti(s, i), do_slti(s, Same(i)))
         /\ Alike(la_sltiu(s, i), do_sltiu(s, Same(i))) /\ Alike(la_ori(s, i), do_ori(s, Same(i)))
         /\ Alike(la_xori(s, i), do_xori(s, Same(i))) /\ Alike(la_andi(s, i), do_andi(s, Same(i)))
         /\ Alike(la_lu12i_w(s, i), do_lui(s, Same(i)))
         /\ Alike(la_pcaddu12i(s, i), do_auipc(s, [Same(i) EXCEPT !.imm = s.pc + @]))
         /\ i.imm < HALF => /\ Alike(la_slli_w(s, i), do_slliw(s, Same(i)))
                            /\ Alike(la_srli_w(s, i), do_srliw(s, Same(i)))
                            /\ Alike(la_srai_w(s, i), do_sraiw(s, Same(i)))
<1> DEFINE x == RJ(s, i)
           y == i.imm
           r == Same(i)
           u == [r EXCEPT !.imm = s.pc + @]
<1>1. x \in Int /\ y \in Int /\ y \in Nat /\ s.pc + y \in Int
  <2>1. x \in Int /\ y \in Int /\ s.pc \in Int /\ y \in Nat
    BY LAOperands, Widths
  <2> QED BY <2>1, SMT
<1>2. SRC1(s, r) = x /\ r.imm = y /\ r.rd = set_rd(i.rd) /\ i.rd \in {0, 1}
  BY LATwins DEF SRC1, RJ, LAInfos
<1>3. \A v \in Int : Alike(Set(s, i, v), DEST(s, r, v))
  BY <1>2, SetAlike
<1>4. u.imm = s.pc + y /\ u.rd = r.rd
  BY DEF Same, LAInfos
<1>5. \A v \in Int : Alike(Set(s, i, v), DEST(s, u, v))
  <2> HIDE DEF u, r
  <2> QED BY <1>2, <1>4, SetAlike
<1> HIDE DEF x, y, r, u
<1>6. \A w \in Words : w \in Int
  BY Widths
<1>7. \A v \in Int : Sext(v, HALF) \in Int /\ SignedLow(v, HALF) \in Int /\ Low32(v) \in Int
  BY <1>6, ExtendType, SMT
<1>8. x + y \in Int /\ Sext(x + y, HALF) \in Int
  <2>1. x + y \in Int
    BY <1>1, SMT
  <2> QED BY <1>7, <2>1
<1>9. \A b : Flag(b) \in Int
  BY SMT DEF Flag
<1>10. And(x, y) \in Int /\ Or(x, y) \in Int /\ Xor(x, y) \in Int
  BY <1>1, BitwiseType
<1>a. Alike(la_addi_w(s, i), do_addiw(s, r)) /\ Alike(la_lu12i_w(s, i), do_lui(s, r))
  BY <1>1, <1>2, <1>3, <1>8, Zenon DEF la_addi_w, do_addiw, la_lu12i_w, do_lui, x, y
<1>b. Alike(la_slti(s, i), do_slti(s, r)) /\ Alike(la_sltiu(s, i), do_sltiu(s, r))
  BY <1>2, <1>3, <1>9, Zenon DEF la_slti, do_slti, la_sltiu, do_sltiu, x, y
<1>c. Alike(la_ori(s, i), do_ori(s, r)) /\ Alike(la_xori(s, i), do_xori(s, r)) /\ Alike(la_andi(s, i), do_andi(s, r))
  BY <1>2, <1>3, <1>10, Zenon DEF la_ori, do_ori, la_xori, do_xori, la_andi, do_andi, x, y
<1>d. Alike(la_pcaddu12i(s, i), do_auipc(s, u))
  BY <1>1, <1>4, <1>5, Zenon DEF la_pcaddu12i, do_auipc, y
<1>e. ASSUME y < HALF
      PROVE  /\ Alike(la_slli_w(s, i), do_slliw(s, r)) /\ Alike(la_srli_w(s, i), do_srliw(s, r))
             /\ Alike(la_srai_w(s, i), do_sraiw(s, r))
  <2>1. y \in 0 .. XLEN + 2
    BY <1>1, <1>e, Widths, SMT
  <2>2. /\ ShiftLeft(Low32(x), y) \in Int /\ ShiftRight(Low32(x), y) \in Int
        /\ ShiftRight(SignedLow(x, HALF), y) \in Int
    BY <1>1, <1>7, <2>1, ShiftType
  <2>3. Sext(ShiftLeft(Low32(x), y), HALF) \in Int /\ Sext(ShiftRight(Low32(x), y), HALF) \in Int
    BY <1>7, <2>2
  <2> QED BY <1>2, <1>3, <2>2, <2>3, Zenon
          DEF la_slli_w, do_slliw, la_srli_w, do_srliw, la_srai_w, do_sraiw, x, y
<1> QED BY <1>a, <1>b, <1>c, <1>d, <1>e DEF r, u, y

(* The two cores agree on loads and stores.                                  *)
LEMMA MemoryAlike ==
  ASSUME NEW s \in Harts, WellFormed(s), NEW i \in LAInfos
  PROVE  /\ Alike(la_ld_b(s, i, TRUE), do_lb(s, Same(i))) /\ Alike(la_ld_h(s, i, TRUE), do_lh(s, Same(i)))
         /\ Alike(la_ld_w(s, i, TRUE), do_lw(s, Same(i))) /\ Alike(la_ld_bu(s, i, TRUE), do_lbu(s, Same(i)))
         /\ Alike(la_ld_hu(s, i, TRUE), do_lhu(s, Same(i)))
         /\ Alike(la_st_b(s, i), do_sb(s, Branch(s, i))) /\ Alike(la_st_h(s, i), do_sh(s, Branch(s, i)))
         /\ Alike(la_st_w(s, i), do_sw(s, Branch(s, i)))
<1> DEFINE a == Address(s, i)
           r == Same(i)
           b == Branch(s, i)
<1>1. a \in Int
  BY LAOperands, SMT DEF Address
<1>2. ADDR(s, r) = a /\ r.rd = set_rd(i.rd) /\ i.rd \in {0, 1} /\ ADDR(s, b) = a /\ SRC2(s, b) = RD(s, i)
  BY LATwins DEF ADDR, SRC1, SRC2, RJ, RD, LAInfos, Address
<1>3. \A v \in Int : Alike(Set(s, i, v), DEST(s, r, v))
  BY <1>2, SetAlike
<1> HIDE DEF a, r, b
<1>4. \A w \in Words : w \in Int
  BY Widths
<1>5. memory_load(a, 1) \in Int /\ memory_load(a, 2) \in Int /\ memory_load(a, 4) \in Int
  BY <1>1, LoadType
<1>6. /\ Sext(memory_load(a, 1), Byte) \in Int /\ Sext(memory_load(a, 2), 2 * Byte) \in Int
      /\ Sext(memory_load(a, 4), HALF) \in Int
  <2>1. /\ Sext(memory_load(a, 1), Byte) \in Words /\ Sext(memory_load(a, 2), 2 * Byte) \in Words
        /\ Sext(memory_load(a, 4), HALF) \in Words
    BY <1>5, ExtendType
  <2> QED BY <1>4, <2>1
<1>a. /\ Alike(la_ld_b(s, i, TRUE), do_lb(s, r)) /\ Alike(la_ld_h(s, i, TRUE), do_lh(s, r))
      /\ Alike(la_ld_w(s, i, TRUE), do_lw(s, r)) /\ Alike(la_ld_bu(s, i, TRUE), do_lbu(s, r))
      /\ Alike(la_ld_hu(s, i, TRUE), do_lhu(s, r))
  BY <1>2, <1>3, <1>5, <1>6, Zenon DEF Load, la_ld_b, do_lb, la_ld_h, do_lh, la_ld_w, do_lw, la_ld_bu, do_lbu,
                                la_ld_hu, do_lhu, a
<1>b. \A v, w, len : WellFormed(memory_store(s, v, w, len))
  BY RestKeepsForm
<1>c. /\ Alike(la_st_b(s, i), do_sb(s, b)) /\ Alike(la_st_h(s, i), do_sh(s, b))
      /\ Alike(la_st_w(s, i), do_sw(s, b))
  BY <1>2, <1>b, Zenon DEF la_st_b, la_st_h, la_st_w, do_sb, do_sh, do_sw, Alike, a
<1> QED BY <1>a, <1>c DEF r, b

(* The two cores agree on jumps and branches.                                *)
LEMMA JumpsAlike ==
  ASSUME NEW s \in Harts, WellFormed(s), NEW i \in LAInfos
  PROVE  /\ Alike(la_beq(s, i), do_beq(s, Branch(s, i))) /\ Alike(la_bne(s, i), do_bne(s, Branch(s, i)))
         /\ Alike(la_blt(s, i), do_blt(s, Branch(s, i))) /\ Alike(la_bltu(s, i), do_bltu(s, Branch(s, i)))
         /\ Alike(la_bge(s, i), do_bge(s, Branch(s, i))) /\ Alike(la_bgeu(s, i), do_bgeu(s, Branch(s, i)))
         /\ Alike(la_b(s, i), do_jal(s, [Same(i) EXCEPT !.rd = 32]))
         /\ Alike(la_bl(s, i), do_jal(s, [Same(i) EXCEPT !.rd = 1]))
         /\ i.rd # i.rj => Alike(la_jirl(s, i), do_jalr(s, Same(i)))
<1> DEFINE b == Branch(s, i)
           to == Word(s.pc + i.imm)
           link == Word(s.pc + 4)
<1>1. SRC1(s, b) = RJ(s, i) /\ SRC2(s, b) = RD(s, i) /\ b.npc = to
  BY LATwins DEF SRC1, SRC2, RJ, RD
<1>2. \A taken : Alike(JumpIf(s, i, taken), GoIf(s, b, taken))
  <2>1. WellFormed(s) /\ WellFormed([s EXCEPT !.npc = to])
    BY RestKeepsForm
  <2> HIDE DEF b, to
  <2>2. Jump(s, i) = [s EXCEPT !.npc = to] /\ b.npc = to
    BY <1>1 DEF Jump, to
  <2> QED BY <2>1, <2>2 DEF JumpIf, GoIf, Alike
<1> HIDE DEF b
<1>3. RJ(s, i) \in Int /\ RD(s, i) \in Int /\ SignedWord(RJ(s, i)) \in Int /\ SignedWord(RD(s, i)) \in Int
  BY LAOperands, ExtendType
<1>4. /\ (RD(s, i) = RJ(s, i)) <=> (RJ(s, i) = RD(s, i))
      /\ (RD(s, i) # RJ(s, i)) <=> (RJ(s, i) # RD(s, i))
  OBVIOUS
<1>a. /\ Alike(la_blt(s, i), do_blt(s, b)) /\ Alike(la_bltu(s, i), do_bltu(s, b))
      /\ Alike(la_bge(s, i), do_bge(s, b)) /\ Alike(la_bgeu(s, i), do_bgeu(s, b))
  BY <1>1, <1>2, Zenon DEF la_blt, do_blt, la_bltu, do_bltu, la_bge, do_bge, la_bgeu, do_bgeu
<1>b. Alike(la_beq(s, i), do_beq(s, b)) /\ Alike(la_bne(s, i), do_bne(s, b))
  <2>1. la_beq(s, i) = JumpIf(s, i, RJ(s, i) = RD(s, i)) /\ la_bne(s, i) = JumpIf(s, i, RJ(s, i) # RD(s, i))
    BY DEF la_beq, la_bne, JumpIf
  <2> QED BY <1>1, <1>2, <2>1, Zenon DEF do_beq, do_bne
<1>5. s.gpr \in [{0, 1, 2, 32} -> Words] /\ s.gpr[0] = 0 /\ link \in Words /\ s.pc + 4 \in Int /\ 0 \in Words
  <2>1. s.pc + 4 \in Int
    BY LAOperands, SMT
  <2> QED BY <2>1, WordType, Widths DEF Harts, WellFormed
<1>6. Alike(la_b(s, i), do_jal(s, [Same(i) EXCEPT !.rd = 32]))
  <2> DEFINE h == [s.gpr EXCEPT ![32] = link]
  <2>1. la_b(s, i) = WithJump(s, s.gpr, to)
    BY DEF la_b, Jump, Harts, WithJump
  <2>2. do_jal(s, [Same(i) EXCEPT !.rd = 32]) = WithJump(s, h, to)
    BY DEF do_jal, DEST, Same, LAInfos, Harts, WithJump
  <2>3. \A r \in {0, 1, 2} : s.gpr[r] = h[r]
    BY <1>5
  <2>4. WellFormed(la_b(s, i))
    BY RestKeepsForm DEF la_b, Jump
  <2> HIDE DEF h, to
  <2>5. Visible(WithJump(s, s.gpr, to)) = Visible(WithJump(s, h, to))
    BY <2>3, LooksAlike
  <2> QED BY <2>1, <2>2, <2>4, <2>5 DEF Alike
<1>7. Alike(la_bl(s, i), do_jal(s, [Same(i) EXCEPT !.rd = 1]))
  <2> DEFINE h == [s.gpr EXCEPT ![1] = link]
  <2>1. la_bl(s, i) = WithJump(s, h, to)
    BY DEF la_bl, Jump, Harts, WithJump
  <2>2. do_jal(s, [Same(i) EXCEPT !.rd = 1]) = WithJump(s, h, to)
    BY DEF do_jal, DEST, Same, LAInfos, Harts, WithJump
  <2>3. h \in [{0, 1, 2, 32} -> Words] /\ h[0] = 0
    BY <1>5
  <2> HIDE DEF h, to
  <2>4. WellFormed(WithJump(s, h, to))
    BY <2>3, GprForm
  <2> QED BY <2>1, <2>2, <2>4 DEF Alike
<1>8. ASSUME i.rd # i.rj PROVE Alike(la_jirl(s, i), do_jalr(s, Same(i)))
  <2> DEFINE g == [s.gpr EXCEPT ![i.rd] = link, ![0] = 0]
             h == [s.gpr EXCEPT ![set_rd(i.rd)] = link]
             at == Word(RJ(s, i) + i.imm)
  <2>1. g[i.rj] = s.gpr[i.rj]
    BY <1>5, <1>8 DEF LAInfos
  <2>2. la_jirl(s, i) = WithJump(s, g, at)
    BY <2>1 DEF la_jirl, Set, set_gpr, RJ, Harts, WithJump
  <2>3. do_jalr(s, Same(i)) = WithJump(s, h, at)
    BY LATwins DEF do_jalr, DEST, ADDR, SRC1, RJ, Harts, WithJump
  <2>4. g \in [{0, 1, 2, 32} -> Words] /\ g[0] = 0
    BY <1>5
  <2>5. \A r \in {0, 1, 2} : g[r] = h[r]
    <3>1. i.rd \in {0, 1}
      BY DEF LAInfos
    <3> QED BY <1>5, <3>1 DEF set_rd
  <2> HIDE DEF g, h, at
  <2>6. WellFormed(WithJump(s, g, at))
    BY <2>4, GprForm
  <2>7. Visible(WithJump(s, g, at)) = Visible(WithJump(s, h, at))
    BY <2>5, LooksAlike
  <2> QED BY <2>2, <2>3, <2>6, <2>7 DEF Alike
<1> QED BY <1>a, <1>b, <1>6, <1>7, <1>8 DEF b

(* What the complements and the masks of the LoongArch core make of x and y. *)
LEMMA BitwiseWord ==
  ASSUME NEW x \in Words, NEW y \in Words
  PROVE  And(x, y) \in Words /\ Or(x, y) \in Words
<1> DEFINE a == [k \in 0 .. XLEN - 1 |-> Bit(x, k) * Bit(y, k)]
           o == [k \in 0 .. XLEN - 1 |-> Flag(Bit(x, k) + Bit(y, k) # 0)]
<1>1. x \in Int /\ y \in Int /\ \A k \in 0 .. XLEN - 1 : k \in 0 .. XLEN + 2
  BY Widths, SMT
<1>2. \A k \in 0 .. XLEN - 1 : Bit(x, k) \in {0, 1} /\ Bit(y, k) \in {0, 1}
  BY <1>1, BitType
<1>3. \A k \in 0 .. XLEN - 1 : a[k] \in {0, 1} /\ o[k] \in {0, 1}
  BY <1>2, SMT DEF Flag
<1>4. And(x, y) = Together(a) /\ Or(x, y) = Together(o)
  BY DEF And, Or
<1> HIDE DEF a, o
<1> QED BY <1>3, <1>4, TogetherWord

(* The bits of x that y has and those it has not are the bits of x.          *)
LEMMA AndSplits ==
  ASSUME NEW x \in Words, NEW y \in Words
  PROVE  And(x, Complement(y)) + And(x, y) = x
<1> DEFINE a == [k \in 0 .. XLEN - 1 |-> Bit(x, k) * Bit(Complement(y), k)]
           b == [k \in 0 .. XLEN - 1 |-> Bit(x, k) * Bit(y, k)]
           c == [k \in 0 .. XLEN - 1 |-> Bit(x, k)]
<1>1. x \in Int /\ y \in Int /\ \A k \in 0 .. XLEN - 1 : k \in 0 .. XLEN + 2
  BY Widths, SMT
<1>2. \A k \in 0 .. XLEN - 1 : /\ Bit(x, k) \in {0, 1} /\ Bit(y, k) \in {0, 1}
                               /\ Bit(Complement(y), k) = 1 - Bit(y, k)
  BY <1>1, BitType, ComplementBits
<1>3. \A k \in 0 .. XLEN - 1 : /\ a[k] \in {0, 1} /\ b[k] \in {0, 1} /\ c[k] \in {0, 1}
                               /\ a[k] + b[k] = c[k]
  BY <1>2, SMT
<1>4. And(x, Complement(y)) = Together(a) /\ And(x, y) = Together(b) /\ x = Together(c)
  BY BitsMakeWord DEF And
<1> HIDE DEF a, b, c
<1> QED BY <1>3, <1>4, TogetherAdds

(* The low half of a word, and of what is extended from it.                  *)
LEMMA LowOfWord ==
  ASSUME NEW v \in Int
  PROVE  /\ Low32(Word(v)) = Low32(v) /\ Low32(SignedLow(v, HALF)) = Low32(v)
         /\ Low32(Sext(v, HALF)) = Low32(v)
<1> DEFINE H == 2 ^ HALF
           X == 2 ^ XLEN
<1>1. H \in Nat \ {0} /\ X \in Nat \ {0} /\ X = H * H
  BY Widths, Halves
<1>2. \A w \in Int : (w % X) % H = w % H
  <2> SUFFICES ASSUME NEW w \in Int PROVE (w % X) % H = w % H
    OBVIOUS
  <2> DEFINE q == w \div X
             r == w % X
  <2>1. q \in Int /\ r \in 0 .. X - 1 /\ w = X * q + r
    <3> HIDE DEF X, H
    <3> QED BY <1>1, DivMod
  <2> HIDE DEF X, H, q, r
  <2>2. X * q = H * (H * q) /\ H * q \in Int /\ H * (H * q) \in Int
    BY <1>1, <2>1, SMT
  <2>3. w = r + H * (H * q) /\ r \in Int
    BY <1>1, <2>1, <2>2, SMT
  <2>4. w % H = r % H
    BY <1>1, <2>2, <2>3, Congruent
  <2> QED BY <2>4 DEF r
<1>3. SignedLow(v, HALF) % H = v % H
  <2> DEFINE d == v \div H
             r == v % H
             w == SignedLow(v, HALF)
  <2>1. d \in Int /\ r \in 0 .. H - 1 /\ v = H * d + r
    <3> HIDE DEF H
    <3> QED BY <1>1, DivMod
  <2>2. w \in Int /\ (w = r \/ w = r - H)
    BY SignedType, WidthsSigned DEF H
  <2> HIDE DEF H, d, r, w
  <2>3. H * d \in Int /\ H * (d + 1) = H * d + H /\ d + 1 \in Int /\ r \in Int
    BY <1>1, <2>1, SMT
  <2>4. v = w + H * d \/ v = w + H * (d + 1)
    BY <1>1, <2>1, <2>2, <2>3, SMT
  <2>5. v % H = w % H
    <3>1. CASE v = w + H * d
      BY <1>1, <2>1, <2>2, <3>1, Congruent
    <3>2. CASE v = w + H * (d + 1)
      <4> DEFINE e == d + 1
      <4>1. e \in Int /\ v = w + H * e
        BY <2>3, <3>2
      <4> HIDE DEF e
      <4> QED BY <1>1, <2>2, <4>1, Congruent
    <3> QED BY <2>4, <3>1, <3>2
  <2> QED BY <2>5 DEF w
<1>4. SignedLow(v, HALF) \in Int
  BY SignedType, WidthsSigned
<1>5. Low32(Word(v)) = v % H /\ Low32(SignedLow(v, HALF)) = v % H
  BY <1>2, <1>3 DEF Low32, Word
<1>6. Low32(Sext(v, HALF)) = v % H
  BY <1>2, <1>3, <1>4 DEF Low32, Word, Sext
<1> QED BY <1>5, <1>6 DEF Low32

(* The low half of a product is that of its factors' low halves.             *)
LEMMA LowOfProduct ==
  ASSUME NEW x \in Int, NEW y \in Int, NEW p \in Int, Low32(x) = Low32(y)
  PROVE  Low32(x * p) = Low32(y * p)
<1>1. 2 ^ HALF \in Nat \ {0}
  BY Widths
<1> QED BY <1>1, SameProduct DEF Low32

(* Small constants are words.                                                *)
LEMMA SmallWords ==
  0 \in Words /\ 1 \in Words /\ 2 \in Words
<1> DEFINE P == 2 ^ (XLEN - 1)
           Q == 2 ^ (XLEN - 2)
<1>1. P \in Nat \ {0} /\ 2 ^ XLEN = 2 * P
  BY Signs, WidthsSigned
<1>2. P = 2 * Q /\ Q \in Nat \ {0}
  <2>1. XLEN - 2 \in 0 .. XLEN + 1 /\ XLEN - 2 \in 0 .. XLEN + 2 /\ XLEN - 2 + 1 = XLEN - 1
    BY Widths, SMT
  <2> QED BY <2>1, PowerMore, Powers
<1> HIDE DEF P, Q
<1> QED BY <1>1, <1>2, SMT DEF Words

(* The logical instructions LoongArch has alone.                             *)
LEMMA OwnLogic ==
  ASSUME NEW s \in Harts, WellFormed(s), NEW i \in LAInfos, i.rd # 0
  PROVE  LET Result(t) == t.gpr[i.rd]
         IN  /\ Result(IF RK(s, i) = 0 THEN la_maskeqz(s, i) ELSE la_masknez(s, i)) = 0
             /\ Result(la_nor(s, i)) = Complement(Result(la_or(s, i)))
             /\ Result(la_andn(s, i)) + Result(la_and(s, i)) = RJ(s, i)
             /\ Low32(Result(la_sll_w(s, i))) = Low32(Result(do_sllw(s, Same(i))))
<1> DEFINE Result(t) == t.gpr[i.rd]
           x == RJ(s, i)
           y == RK(s, i)
           r == Same(i)
           p == 2 ^ ShamtW(y)
<1>1. i.rd = 1 /\ i.rj \in {0, 1, 2} /\ r.rd = 1 /\ SRC1(s, r) = x /\ SRC2(s, r) = y
  BY LATwins DEF LAInfos, SRC1, SRC2, RJ, RK, set_rd
<1>2. \A v : Result(Set(s, i, v)) = Word(v) /\ Result(DEST(s, r, v)) = Word(v)
  <2> HIDE DEF r
  <2> QED BY <1>1 DEF Set, set_gpr, DEST, Harts
<1>3. x \in Words /\ y \in Words /\ x \in Int /\ y \in Int
  BY LAOperands
<1>4. \A v \in Words : Word(v) = v
  BY WordType, Widths, SMT
<1>5. Complement(y) \in Words /\ Complement(Or(x, y)) \in Words /\ And(x, y) \in Words /\ Or(x, y) \in Words
      /\ And(x, Complement(y)) \in Words
  <2>1. Complement(y) \in Words /\ And(x, y) \in Words /\ Or(x, y) \in Words
    BY <1>3, ComplementBits, BitwiseWord
  <2>2. And(x, Complement(y)) \in Words
    BY <1>3, <2>1, BitwiseWord
  <2> QED BY <2>1, <2>2, ComplementBits
<1> HIDE DEF x, y, r, Result
<1>a. Result(IF RK(s, i) = 0 THEN la_maskeqz(s, i) ELSE la_masknez(s, i)) = 0
  <2>1. Word(0) = 0
    BY <1>4, SmallWords
  <2>2. /\ Result(la_maskeqz(s, i)) = Word(IF y = 0 THEN 0 ELSE i.rj)
        /\ Result(la_masknez(s, i)) = Word(IF y # 0 THEN 0 ELSE i.rj)
    BY <1>2, Zenon DEF la_maskeqz, la_masknez, y
  <2>3. CASE y = 0
    BY <2>1, <2>2, <2>3 DEF y
  <2>4. CASE y # 0
    BY <2>1, <2>2, <2>4 DEF y
  <2> QED BY <2>3, <2>4
<1>6. Result(la_and(s, i)) = And(x, y) /\ Result(la_or(s, i)) = Or(x, y)
  BY <1>2, <1>4, <1>5, Zenon DEF la_and, la_or, x, y
<1>b. Result(la_nor(s, i)) = Complement(Result(la_or(s, i)))
  BY <1>2, <1>4, <1>5, <1>6, Zenon DEF la_nor, x, y
<1>c. Result(la_andn(s, i)) + Result(la_and(s, i)) = RJ(s, i)
  <2>1. Result(la_andn(s, i)) = And(x, Complement(y))
    BY <1>2, <1>4, <1>5, Zenon DEF la_andn, x, y
  <2>2. And(x, Complement(y)) + And(x, y) = x
    BY <1>3, AndSplits
  <2> QED BY <1>6, <2>1, <2>2 DEF x
<1>d. Low32(Result(la_sll_w(s, i))) = Low32(Result(do_sllw(s, Same(i))))
  <2>1. ShamtW(y) \in 0 .. XLEN + 2
    <3>1. HALF \in Nat \ {0}
      BY Widths, SMT
    <3>2. ShamtW(y) \in 0 .. HALF - 1
      BY <1>3, <3>1, SMT DEF ShamtW
    <3> QED BY <3>2, Widths, SMT
  <2>2. p \in Int
    BY <2>1, Powers
  <2>3. Sext(x, HALF) \in Int
    <3>1. Sext(x, HALF) \in Words /\ \A w \in Words : w \in Int
      BY <1>3, ExtendType, Widths
    <3> QED BY <3>1
  <2> HIDE DEF p
  <2>4. Result(la_sll_w(s, i)) = Word(Sext(x * p, HALF)) /\ Result(do_sllw(s, r)) = Word(Sext(x, HALF) * p)
    BY <1>1, <1>2, Zenon DEF la_sll_w, do_sllw, ShiftLeft, x, y, p
  <2>5. x * p \in Int /\ Sext(x, HALF) * p \in Int
    BY <1>3, <2>2, <2>3, SMT
  <2>6. Low32(Sext(x, HALF) * p) = Low32(x * p)
    BY <1>3, <2>2, <2>3, LowOfProduct, LowOfWord
  <2>7. Sext(x * p, HALF) \in Int
    <3>1. Sext(x * p, HALF) \in Words /\ \A w \in Words : w \in Int
      BY <2>5, ExtendType, Widths
    <3> QED BY <3>1
  <2>8. Low32(Word(Sext(x * p, HALF))) = Low32(x * p) /\ Low32(Word(Sext(x, HALF) * p)) = Low32(Sext(x, HALF) * p)
    BY <2>5, <2>7, LowOfWord
  <2> QED BY <2>4, <2>6, <2>8 DEF r
<1> QED BY <1>a, <1>b, <1>c, <1>d DEF Result

(* What a LoongArch instruction sets leaves x0 zero and words in registers.  *)
LEMMA OwnWellFormed ==
  ASSUME NEW s \in Harts, WellFormed(s), NEW i \in LAInfos
  PROVE  \A t \in OwnResults(s, i) : WellFormed(t)
<1>1. \A v \in Int : WellFormed(Set(s, i, v))
  <2> SUFFICES ASSUME NEW v \in Int PROVE WellFormed(Set(s, i, v))
    OBVIOUS
  <2>1. i.rd \in {0, 1} /\ Same(i).rd = set_rd(i.rd)
    BY LATwins DEF LAInfos
  <2>2. Alike(Set(s, i, v), DEST(s, Same(i), v))
    BY <2>1, SetAlike
  <2> QED BY <2>2 DEF Alike
<1> DEFINE x == RJ(s, i)
           y == RK(s, i)
<1>2. x \in Words /\ y \in Words /\ x \in Int /\ y \in Int /\ i.rj \in Int /\ 0 \in Int
  BY LAOperands DEF LAInfos
<1>3. \A w \in Words : w \in Int
  BY Widths
<1>4. /\ Complement(Or(x, y)) \in Int /\ And(x, Complement(y)) \in Int
      /\ Complement(Or(x, Complement(y))) \in Int
  <2>1. Complement(y) \in Words /\ Or(x, y) \in Words
    BY <1>2, ComplementBits, BitwiseWord
  <2>2. And(x, Complement(y)) \in Words /\ Or(x, Complement(y)) \in Words
    BY <1>2, <2>1, BitwiseWord
  <2> QED BY <1>3, <2>1, <2>2, ComplementBits
<1>5. Sext(ShiftLeft(x, ShamtW(y)), HALF) \in Int
  <2>1. ShamtW(y) \in 0 .. XLEN + 2
    <3>1. HALF \in Nat \ {0}
      BY Widths, SMT
    <3>2. ShamtW(y) \in 0 .. HALF - 1
      BY <1>2, <3>1, SMT DEF ShamtW
    <3> QED BY <3>2, Widths, SMT
  <2> DEFINE p == 2 ^ ShamtW(y)
  <2>2. p \in Int
    BY <2>1, Powers
  <2> HIDE DEF x, y, p
  <2>3. x * p \in Int
    BY <1>2, <2>2, SMT
  <2>4. Sext(x * p, HALF) \in Words
    BY <2>3, ExtendType, Widths
  <2> QED BY <1>3, <2>4 DEF ShiftLeft, p
<1> HIDE DEF x, y
<1>6. WellFormed(la_maskeqz(s, i)) /\ WellFormed(la_masknez(s, i))
  BY <1>1, <1>2 DEF la_maskeqz, la_masknez
<1>7. WellFormed(la_nor(s, i)) /\ WellFormed(la_andn(s, i)) /\ WellFormed(la_orn(s, i))
  BY <1>1, <1>4 DEF la_nor, la_andn, la_orn, x, y
<1>8. WellFormed(la_sll_w(s, i))
  BY <1>1, <1>5 DEF la_sll_w, x, y
<1> QED BY <1>6, <1>7, <1>8 DEF OwnResults

(* The LoongArch core and the RISC-V core give the same results, jumps and   *)
(* stores for the instructions both have, in registers of any width, but for *)
(* what TwoCoresAgree leaves out, and the logical instructions LoongArch has *)
(* alone give what it claims of them.                                        *)
THEOREM CoresAgree ==
  HartSpec => []TwoCoresAgree
<1>1. Picked => TwoCoresAgree
  <2> SUFFICES ASSUME Picked, unit = "loongarch" PROVE TwoCoresAgree
    BY DEF TwoCoresAgree, Is
  <2> DEFINE s == Hart(input.a, input.b)
             i == LAFields(input)
  <2>1. input \in Instructions
    BY DEF Picked
  <2>2. s \in Harts /\ WellFormed(s) /\ i \in LAInfos /\ i.imm = input.imm
    BY <2>1, InfoType, HartType, LAFieldsType DEF LAFields
  <2> HIDE DEF s, i
  <2>3. \A p \in SharedResults(s, i) : WellFormed(p[1]) /\ Visible(p[1]) = Visible(p[2])
    <3> SUFFICES ASSUME NEW p \in SharedResults(s, i) PROVE Alike(p[1], p[2])
      BY DEF Alike
    <3> DEFINE r == Same(i)
               ok == TRUE
               b == Branch(s, i)
               shifted == [Same(i) EXCEPT !.imm = s.pc + @]
               to32 == [Same(i) EXCEPT !.rd = 32]
               to1 == [Same(i) EXCEPT !.rd = 1]
    <3>1. /\ Alike(la_add_w(s, i), do_addw(s, r)) /\ Alike(la_sub_w(s, i), do_subw(s, r))
          /\ Alike(la_slt(s, i), do_slt(s, r)) /\ Alike(la_sltu(s, i), do_sltu(s, r))
          /\ Alike(la_and(s, i), do_and(s, r)) /\ Alike(la_or(s, i), do_or(s, r))
          /\ Alike(la_xor(s, i), do_xor(s, r)) /\ Alike(la_srl_w(s, i), do_srlw(s, r))
          /\ Alike(la_sra_w(s, i), do_sraw(s, r)) /\ Alike(la_add_d(s, i), do_add(s, r))
          /\ Alike(la_sub_d(s, i), do_sub(s, r))
      BY <2>2, RegistersAlike
    <3>2. /\ Alike(la_addi_w(s, i), do_addiw(s, r)) /\ Alike(la_slti(s, i), do_slti(s, r))
          /\ Alike(la_sltiu(s, i), do_sltiu(s, r)) /\ Alike(la_ori(s, i), do_ori(s, r))
          /\ Alike(la_xori(s, i), do_xori(s, r)) /\ Alike(la_andi(s, i), do_andi(s, r))
          /\ Alike(la_lu12i_w(s, i), do_lui(s, r))
          /\ Alike(la_pcaddu12i(s, i), do_auipc(s, shifted))
      BY <2>2, ImmediatesAlike
    <3>3. /\ Alike(la_ld_b(s, i, ok), do_lb(s, r)) /\ Alike(la_ld_h(s, i, ok), do_lh(s, r))
          /\ Alike(la_ld_w(s, i, ok), do_lw(s, r)) /\ Alike(la_ld_bu(s, i, ok), do_lbu(s, r))
          /\ Alike(la_ld_hu(s, i, ok), do_lhu(s, r))
          /\ Alike(la_st_b(s, i), do_sb(s, b)) /\ Alike(la_st_h(s, i), do_sh(s, b))
          /\ Alike(la_st_w(s, i), do_sw(s, b))
      BY <2>2, MemoryAlike
    <3>4. /\ Alike(la_beq(s, i), do_beq(s, b)) /\ Alike(la_bne(s, i), do_bne(s, b))
          /\ Alike(la_blt(s, i), do_blt(s, b)) /\ Alike(la_bltu(s, i), do_bltu(s, b))
          /\ Alike(la_bge(s, i), do_bge(s, b)) /\ Alike(la_bgeu(s, i), do_bgeu(s, b))
          /\ Alike(la_b(s, i), do_jal(s, to32))
          /\ Alike(la_bl(s, i), do_jal(s, to1))
          /\ i.rd # i.rj => Alike(la_jirl(s, i), do_jalr(s, r))
      BY <2>2, JumpsAlike
    <3> DEFINE Registers == {<<la_add_w(s, i), do_addw(s, r)>>, <<la_sub_w(s, i), do_subw(s, r)>>,
                             <<la_slt(s, i), do_slt(s, r)>>, <<la_sltu(s, i), do_sltu(s, r)>>,
                             <<la_and(s, i), do_and(s, r)>>, <<la_or(s, i), do_or(s, r)>>,
                             <<la_xor(s, i), do_xor(s, r)>>, <<la_srl_w(s, i), do_srlw(s, r)>>,
                             <<la_sra_w(s, i), do_sraw(s, r)>>, <<la_add_d(s, i), do_add(s, r)>>,
                             <<la_sub_d(s, i), do_sub(s, r)>>}
               Immediate == {<<la_addi_w(s, i), do_addiw(s, r)>>, <<la_slti(s, i), do_slti(s, r)>>,
                             <<la_sltiu(s, i), do_sltiu(s, r)>>, <<la_ori(s, i), do_ori(s, r)>>,
                             <<la_xori(s, i), do_xori(s, r)>>, <<la_andi(s, i), do_andi(s, r)>>,
                             <<la_lu12i_w(s, i), do_lui(s, r)>>, <<la_pcaddu12i(s, i), do_auipc(s, shifted)>>}
               Memory == {<<la_ld_b(s, i, ok), do_lb(s, r)>>, <<la_ld_h(s, i, ok), do_lh(s, r)>>,
                          <<la_ld_w(s, i, ok), do_lw(s, r)>>, <<la_ld_bu(s, i, ok), do_lbu(s, r)>>,
                          <<la_ld_hu(s, i, ok), do_lhu(s, r)>>, <<la_st_b(s, i), do_sb(s, b)>>,
                          <<la_st_h(s, i), do_sh(s, b)>>, <<la_st_w(s, i), do_sw(s, b)>>}
               Jumps == {<<la_beq(s, i), do_beq(s, b)>>, <<la_bne(s, i), do_bne(s, b)>>,
                         <<la_blt(s, i), do_blt(s, b)>>, <<la_bltu(s, i), do_bltu(s, b)>>,
                         <<la_bge(s, i), do_bge(s, b)>>, <<la_bgeu(s, i), do_bgeu(s, b)>>,
                         <<la_b(s, i), do_jal(s, to32)>>, <<la_bl(s, i), do_jal(s, to1)>>}
               Link == IF i.rd = i.rj THEN {} ELSE {<<la_jirl(s, i), do_jalr(s, r)>>}
    <3>5. p \in Registers \/ p \in Immediate \/ p \in Memory \/ p \in Jumps \/ p \in Link
      BY Zenon DEF SharedResults
    <3> HIDE DEF r, b, ok, shifted, to32, to1
    <3>a. CASE p \in Registers
      BY <3>1, <3>a
    <3>b. CASE p \in Immediate
      BY <3>2, <3>b
    <3>c. CASE p \in Memory
      BY <3>3, <3>c
    <3>d. CASE p \in Jumps
      BY <3>4, <3>d
    <3>e. CASE p \in Link
      BY <3>4, <3>e
    <3> HIDE DEF Registers, Immediate, Memory, Jumps, Link
    <3> QED BY <3>5, <3>a, <3>b, <3>c, <3>d, <3>e
  <2>4. input.imm < HALF => \A p \in SharedShifts(s, i) : WellFormed(p[1]) /\ Visible(p[1]) = Visible(p[2])
    <3> SUFFICES ASSUME input.imm < HALF, NEW p \in SharedShifts(s, i) PROVE Alike(p[1], p[2])
      BY DEF Alike
    <3>1. i.imm < HALF
      BY <2>2
    <3>2. /\ Alike(la_slli_w(s, i), do_slliw(s, Same(i))) /\ Alike(la_srli_w(s, i), do_srliw(s, Same(i)))
          /\ Alike(la_srai_w(s, i), do_sraiw(s, Same(i)))
      BY <2>2, <3>1, ImmediatesAlike
    <3> QED BY <3>2 DEF SharedShifts
  <2>5. i.rd # 0 =>
          LET Result(t) == t.gpr[i.rd]
          IN  /\ Result(IF RK(s, i) = 0 THEN la_maskeqz(s, i) ELSE la_masknez(s, i)) = 0
              /\ Result(la_nor(s, i)) = Complement(Result(la_or(s, i)))
              /\ Result(la_andn(s, i)) + Result(la_and(s, i)) = RJ(s, i)
              /\ Low32(Result(la_sll_w(s, i))) = Low32(Result(do_sllw(s, Same(i))))
    BY <2>2, OwnLogic
  <2>6. \A t \in OwnResults(s, i) : WellFormed(t)
    BY <2>2, OwnWellFormed
  <2> QED BY <2>3, <2>4, <2>5, <2>6, Zenon DEF TwoCoresAgree, s, i
<1> QED BY <1>1, UnitsPick, PTL

-----------------------------------------------------------------------------
(* Floating point.                                                           *)

FloatHarts ==
  [gpr : [{0, 1, 2, 3, 32} -> {0}], fpr : [1 .. 3 -> [boxed : {FALSE}, v : Data]], round : {RNE},
   frm : {RTZ, RUP, DYN}, store : {<<>>}, invalid : {FALSE}]

FloatInfos ==
  [rd : {1, 3}, rs1 : {1}, rs2 : {2}, rs3 : {3}, flag : {RNE, RDN, 5}, imm : {0}, undefined : {0}]

Others(f, rd) == [r \in DOMAIN f \ {rd} |-> f[r]]

(* What FloatsLeaveTheHostAlone asks of an instruction that writes file.     *)
SoundAfter(s, i, t, file) ==
  /\ t.round = s.round
  /\ t.invalid => t = do_invalid_inst(s)
  /\ file # "gpr" => t.gpr = s.gpr
  /\ file # "fpr" => t.fpr = s.fpr
  /\ Others(t.gpr, i.rd) = Others(s.gpr, i.rd) /\ Others(t.fpr, i.rd) = Others(s.fpr, i.rd)

Singles(s, i, t) == SoundAfter(s, i, t, "fpr") /\ (t.invalid \/ t.fpr[i.rd].boxed)
Doubles(s, i, t) == SoundAfter(s, i, t, "fpr") /\ ~t.fpr[i.rd].boxed
Whole(s, i, t) == SoundAfter(s, i, t, "gpr")

(* A floating-point instruction starts on a hart of FloatHarts.              *)
LEMMA FloatTypes ==
  ASSUME NEW n \in [x : Data, y : Data, rd : {1, 3}, frm : {RTZ, RUP, DYN}, rm : {RNE, RDN, 5}]
  PROVE  /\ FloatHart(n) \in FloatHarts /\ FloatInfo(n) \in FloatInfos
         /\ F1(FloatHart(n), FloatInfo(n)) = n.x /\ F2(FloatHart(n), FloatInfo(n)) = n.y
<1>1. n.x \in Data /\ n.y \in Data /\ n.rd \in {1, 3} /\ n.frm \in {RTZ, RUP, DYN} /\ n.rm \in {RNE, RDN, 5}
  OBVIOUS
<1>2. 1 \in 1 .. 3 /\ 2 \in 1 .. 3
  BY SMT
<1>3. [r \in 1 .. 3 |-> [boxed |-> FALSE, v |-> IF r = 2 THEN n.y ELSE n.x]]
      \in [1 .. 3 -> [boxed : {FALSE}, v : Data]]
  BY <1>1
<1>4. [r \in {0, 1, 2, 3, 32} |-> 0] \in [{0, 1, 2, 3, 32} -> {0}]
  OBVIOUS
<1>5. FloatHart(n) \in FloatHarts
  BY <1>1, <1>3, <1>4 DEF FloatHart, FloatHarts
<1>6. FloatInfo(n) \in FloatInfos
  BY <1>1 DEF FloatInfo, FloatInfos
<1>7. F1(FloatHart(n), FloatInfo(n)) = n.x /\ F2(FloatHart(n), FloatInfo(n)) = n.y
  BY <1>2 DEF F1, F2, FloatHart, FloatInfo
<1> QED BY <1>5, <1>6, <1>7

(* A write leaves the other registers.                                       *)
LEMMA OthersStay ==
  ASSUME NEW D, NEW V, NEW f \in [D -> V], NEW rd \in D, NEW w
  PROVE  Others([f EXCEPT ![rd] = w], rd) = Others(f, rd) /\ [f EXCEPT ![rd] = w][rd] = w
BY DEF Others

(* An invalid instruction leaves everything else as it was.                  *)
LEMMA InvalidSound ==
  ASSUME NEW s \in FloatHarts, NEW i \in FloatInfos
  PROVE  /\ Singles(s, i, do_invalid_inst(s)) /\ Doubles(s, i, do_invalid_inst(s))
         /\ Whole(s, i, do_invalid_inst(s))
<1>1. /\ do_invalid_inst(s).round = s.round /\ do_invalid_inst(s).gpr = s.gpr
      /\ do_invalid_inst(s).fpr = s.fpr /\ do_invalid_inst(s).invalid
  BY DEF do_invalid_inst, FloatHarts
<1>2. ~s.fpr[i.rd].boxed
  <2>1. i.rd \in 1 .. 3
    BY SMT DEF FloatInfos
  <2> QED BY <2>1 DEF FloatHarts
<1> QED BY <1>1, <1>2 DEF Singles, Doubles, Whole, SoundAfter

(* One register of fpr is written, the rounding mode put back.               *)
LEMMA FloatWrite ==
  ASSUME NEW s \in FloatHarts, NEW i \in FloatInfos, NEW j, j.rd = i.rd, NEW x
  PROVE  Singles(s, i, FDESTS(s, j, x)) /\ Doubles(s, i, FDESTD(s, j, x))
<1> DEFINE S == [boxed |-> TRUE, v |-> x]
           D == [boxed |-> FALSE, v |-> x]
           fs == [s.fpr EXCEPT ![i.rd] = S]
           fd == [s.fpr EXCEPT ![i.rd] = D]
<1>1. s.fpr \in [1 .. 3 -> [boxed : {FALSE}, v : Data]] /\ i.rd \in 1 .. 3
  <2>1. s.fpr \in [1 .. 3 -> [boxed : {FALSE}, v : Data]]
    BY DEF FloatHarts
  <2>2. i.rd \in 1 .. 3
    BY SMT DEF FloatInfos
  <2> QED BY <2>1, <2>2
<1>2. S.boxed /\ ~D.boxed
  OBVIOUS
<1>3. /\ Others(fs, i.rd) = Others(s.fpr, i.rd) /\ fs[i.rd] = S
      /\ Others(fd, i.rd) = Others(s.fpr, i.rd) /\ fd[i.rd] = D
  <2> DEFINE g == s.fpr
             r == i.rd
  <2>1. g \in [1 .. 3 -> [boxed : {FALSE}, v : Data]] /\ r \in 1 .. 3
    BY <1>1
  <2> HIDE DEF S, D, g, r
  <2>2. \A y : Others([g EXCEPT ![r] = y], r) = Others(g, r) /\ [g EXCEPT ![r] = y][r] = y
    BY <2>1, OthersStay
  <2> QED BY <2>2 DEF g, r
<1> HIDE DEF S, D
<1>4. /\ FDESTS(s, j, x).fpr = fs /\ FDESTS(s, j, x).gpr = s.gpr
      /\ FDESTS(s, j, x).round = s.round /\ ~FDESTS(s, j, x).invalid
  BY DEF FDESTS, FloatHarts, S
<1>5. /\ FDESTD(s, j, x).fpr = fd /\ FDESTD(s, j, x).gpr = s.gpr
      /\ FDESTD(s, j, x).round = s.round /\ ~FDESTD(s, j, x).invalid
  BY DEF FDESTD, FloatHarts, D
<1> HIDE DEF fs, fd
<1> QED BY <1>2, <1>3, <1>4, <1>5 DEF Singles, Doubles, SoundAfter

(* The same for a register of gpr.                                           *)
LEMMA IntegerWrite ==
  ASSUME NEW s \in FloatHarts, NEW i \in FloatInfos, NEW w
  PROVE  LET t == [s EXCEPT !.gpr[i.rd] = w] IN Whole(s, i, t) /\ t.gpr[i.rd] = w
<1> DEFINE t == [s EXCEPT !.gpr[i.rd] = w]
           g == [s.gpr EXCEPT ![i.rd] = w]
<1>1. s.gpr \in [{0, 1, 2, 3, 32} -> {0}] /\ i.rd \in {0, 1, 2, 3, 32}
  BY DEF FloatHarts, FloatInfos
<1>2. Others(g, i.rd) = Others(s.gpr, i.rd) /\ g[i.rd] = w
  BY <1>1, OthersStay
<1>3. t.gpr = g /\ t.fpr = s.fpr /\ t.round = s.round /\ ~t.invalid
  BY DEF FloatHarts
<1> HIDE DEF t, g
<1>4. Whole(s, i, t) /\ t.gpr[i.rd] = w
  BY <1>2, <1>3 DEF Whole, SoundAfter
<1> QED BY <1>4 DEF t

(* An instruction that rounds gives the host its rounding mode back.         *)
LEMMA RoundedSound ==
  ASSUME NEW s \in FloatHarts, NEW i \in FloatInfos, NEW op, NEW args
  PROVE  Singles(s, i, RoundedS(s, i, op, args)) /\ Doubles(s, i, RoundedD(s, i, op, args))
<1> DEFINE x == Host(op, args, SET_FPU(s, i).round)
<1>1. /\ RESTORE_FPU(FDESTS(SET_FPU(s, i), i, x), s.round) = FDESTS(s, i, x)
      /\ RESTORE_FPU(FDESTD(SET_FPU(s, i), i, x), s.round) = FDESTD(s, i, x)
  <2> HIDE DEF x
  <2> QED BY DEF RESTORE_FPU, FDESTS, FDESTD, SET_FPU, FloatHarts
<1>2. /\ RoundedS(s, i, op, args) = IF NoMode(s, i) THEN do_invalid_inst(s) ELSE FDESTS(s, i, x)
      /\ RoundedD(s, i, op, args) = IF NoMode(s, i) THEN do_invalid_inst(s) ELSE FDESTD(s, i, x)
  BY <1>1, Zenon DEF RoundedS, RoundedD
<1> HIDE DEF x
<1>3. Singles(s, i, FDESTS(s, i, x)) /\ Doubles(s, i, FDESTD(s, i, x))
  BY FloatWrite
<1> QED BY <1>2, <1>3, InvalidSound

(* So does a conversion to an integer.                                       *)
LEMMA ConvertedSound ==
  ASSUME NEW s \in FloatHarts, NEW i \in FloatInfos, NEW value
  PROVE  Whole(s, i, Converted(s, i, value)) /\ Whole(s, i, DEST(s, i, value))
<1>1. RESTORE_FPU(DEST(SET_FPU(s, i), i, value), s.round) = DEST(s, i, value)
  BY DEF RESTORE_FPU, DEST, SET_FPU, FloatHarts
<1>2. Whole(s, i, DEST(s, i, value))
  BY IntegerWrite DEF DEST
<1> QED BY <1>1, <1>2, InvalidSound, Zenon DEF Converted

(* All instructions that write a single are sound.                           *)
LEMMA SinglesSound ==
  ASSUME NEW s \in FloatHarts, NEW i \in FloatInfos, NEW t \in SinglesAfter(s, i)
  PROVE  Singles(s, i, t)
<1>1. \A op, args : Singles(s, i, RoundedS(s, i, op, args))
  BY RoundedSound
<1>2. \A x : Singles(s, i, FDESTS(s, i, x))
  BY FloatWrite
<1>3. /\ Singles(s, i, do_fmadd_s(s, i)) /\ Singles(s, i, do_fmsub_s(s, i))
      /\ Singles(s, i, do_fnmsub_s(s, i)) /\ Singles(s, i, do_fnmadd_s(s, i))
      /\ Singles(s, i, do_fadd_s(s, i)) /\ Singles(s, i, do_fsub_s(s, i))
      /\ Singles(s, i, do_fmul_s(s, i)) /\ Singles(s, i, do_fdiv_s(s, i)) /\ Singles(s, i, do_fsqrt_s(s, i))
  BY <1>1, Zenon DEF do_fmadd_s, do_fmsub_s, do_fnmsub_s, do_fnmadd_s, do_fadd_s, do_fsub_s, do_fmul_s,
                     do_fdiv_s, do_fsqrt_s
<1>4. /\ Singles(s, i, do_fcvt_s_w(s, i)) /\ Singles(s, i, do_fcvt_s_wu(s, i))
      /\ Singles(s, i, do_fcvt_s_l(s, i)) /\ Singles(s, i, do_fcvt_s_lu(s, i)) /\ Singles(s, i, do_fcvt_s_d(s, i))
  BY <1>1, Zenon DEF do_fcvt_s_w, do_fcvt_s_wu, do_fcvt_s_l, do_fcvt_s_lu, do_fcvt_s_d
<1>5. /\ Singles(s, i, do_fsgnj_s(s, i)) /\ Singles(s, i, do_fsgnjn_s(s, i)) /\ Singles(s, i, do_fsgnjx_s(s, i))
      /\ Singles(s, i, do_fmin_s(s, i)) /\ Singles(s, i, do_fmax_s(s, i))
      /\ Singles(s, i, do_flw(s, i, F2(s, i))) /\ Singles(s, i, do_fmv_w_x(s, i, F2(s, i)))
  BY <1>2, Zenon DEF do_fsgnj_s, do_fsgnjn_s, do_fsgnjx_s, do_fmin_s, do_fmax_s, do_flw, do_fmv_w_x
<1> QED BY <1>3, <1>4, <1>5, Zenon DEF SinglesAfter

(* All instructions that write a double are sound.                           *)
LEMMA DoublesSound ==
  ASSUME NEW s \in FloatHarts, NEW i \in FloatInfos, NEW t \in DoublesAfter(s, i)
  PROVE  Doubles(s, i, t)
<1>1. \A op, args : Doubles(s, i, RoundedD(s, i, op, args))
  BY RoundedSound
<1>2. (\A x : Doubles(s, i, FDESTD(s, i, x))) /\ \A x : Doubles(s, i, FDESTD(s, FromSp(i), x))
  <2>1. FromSp(i).rd = i.rd
    BY DEF FromSp, FloatInfos
  <2> QED BY <2>1, FloatWrite
<1>3. /\ Doubles(s, i, do_fmadd_d(s, i)) /\ Doubles(s, i, do_fmsub_d(s, i))
      /\ Doubles(s, i, do_fnmsub_d(s, i)) /\ Doubles(s, i, do_fnmadd_d(s, i))
      /\ Doubles(s, i, do_fadd_d(s, i)) /\ Doubles(s, i, do_fsub_d(s, i))
      /\ Doubles(s, i, do_fmul_d(s, i)) /\ Doubles(s, i, do_fdiv_d(s, i)) /\ Doubles(s, i, do_fsqrt_d(s, i))
  BY <1>1, Zenon DEF do_fmadd_d, do_fmsub_d, do_fnmsub_d, do_fnmadd_d, do_fadd_d, do_fsub_d, do_fmul_d,
                     do_fdiv_d, do_fsqrt_d
<1>4. /\ Doubles(s, i, do_fcvt_d_w(s, i)) /\ Doubles(s, i, do_fcvt_d_wu(s, i))
      /\ Doubles(s, i, do_fcvt_d_l(s, i)) /\ Doubles(s, i, do_fcvt_d_lu(s, i)) /\ Doubles(s, i, do_fcvt_d_s(s, i))
  BY <1>1, Zenon DEF do_fcvt_d_w, do_fcvt_d_wu, do_fcvt_d_l, do_fcvt_d_lu, do_fcvt_d_s
<1>5. /\ Doubles(s, i, do_fsgnj_d(s, i)) /\ Doubles(s, i, do_fsgnjn_d(s, i)) /\ Doubles(s, i, do_fsgnjx_d(s, i))
      /\ Doubles(s, i, do_fmin_d(s, i)) /\ Doubles(s, i, do_fmax_d(s, i))
  BY <1>2, Zenon DEF do_fsgnj_d, do_fsgnjn_d, do_fsgnjx_d, do_fmin_d, do_fmax_d
<1>6. /\ Doubles(s, i, do_fld(s, i, F2(s, i))) /\ Doubles(s, i, do_fmv_d_x(s, i, F2(s, i)))
      /\ Doubles(s, i, do_c_fldsp(s, i, F2(s, i))) /\ Doubles(s, i, do_c_fld(s, i, F2(s, i)))
  BY <1>2, Zenon DEF do_fld, do_fmv_d_x, do_c_fldsp, do_c_fld
<1> QED BY <1>3, <1>4, <1>5, <1>6, Zenon DEF DoublesAfter

(* All instructions that write an integer register are sound.                *)
LEMMA IntegersSound ==
  ASSUME NEW s \in FloatHarts, NEW i \in FloatInfos, NEW t \in IntegersAfter(s, i)
  PROVE  Whole(s, i, t)
<1>1. \A value : Whole(s, i, Converted(s, i, value)) /\ Whole(s, i, DEST(s, i, value))
  BY ConvertedSound
<1>2. /\ Whole(s, i, do_fcvt_w_s(s, i)) /\ Whole(s, i, do_fcvt_wu_s(s, i)) /\ Whole(s, i, do_fcvt_l_s(s, i))
      /\ Whole(s, i, do_fcvt_lu_s(s, i)) /\ Whole(s, i, do_fcvt_w_d(s, i)) /\ Whole(s, i, do_fcvt_wu_d(s, i))
      /\ Whole(s, i, do_fcvt_l_d(s, i)) /\ Whole(s, i, do_fcvt_lu_d(s, i))
  BY <1>1, Zenon DEF do_fcvt_w_s, do_fcvt_wu_s, do_fcvt_l_s, do_fcvt_lu_s, do_fcvt_w_d, do_fcvt_wu_d,
                     do_fcvt_l_d, do_fcvt_lu_d
<1>3. /\ Whole(s, i, do_feq_s(s, i)) /\ Whole(s, i, do_flt_s(s, i)) /\ Whole(s, i, do_fle_s(s, i))
      /\ Whole(s, i, do_feq_d(s, i)) /\ Whole(s, i, do_flt_d(s, i)) /\ Whole(s, i, do_fle_d(s, i))
      /\ Whole(s, i, do_fclass_s(s, i)) /\ Whole(s, i, do_fclass_d(s, i))
  BY <1>1, Zenon DEF do_feq_s, do_flt_s, do_fle_s, do_feq_d, do_flt_d, do_fle_d, do_fclass_s, do_fclass_d
<1> QED BY <1>2, <1>3, Zenon DEF IntegersAfter

(* All moves and stores are sound.                                           *)
LEMMA MovesSound ==
  ASSUME NEW s \in FloatHarts, NEW i \in FloatInfos
  PROVE  /\ \A t \in {do_fmv_x_w(s, i), do_fmv_x_d(s, i)} :
              SoundAfter(s, i, t, "gpr") /\ t.gpr[i.rd].bits = F1(s, i)
         /\ \A t \in {do_fsw(s, i), do_fsd(s, i), do_c_fsdsp(s, i), do_c_fsd(s, i)} :
              SoundAfter(s, i, t, "none") /\ t.store[2] = F2(s, i)
<1> DEFINE w == [bits |-> F1(s, i), upperOnes |-> F1(s, i).neg]
           stored(addr, x, len) == [s EXCEPT !.store = <<addr, x, len>>]
<1>1. fmv_x(s, i) = [s EXCEPT !.gpr[i.rd] = w] /\ w.bits = F1(s, i)
  BY DEF fmv_x
<1>2. SoundAfter(s, i, fmv_x(s, i), "gpr") /\ fmv_x(s, i).gpr[i.rd].bits = F1(s, i)
  <2> HIDE DEF w
  <2> QED BY <1>1, IntegerWrite DEF Whole
<1>3. \A addr, x, len : SoundAfter(s, i, stored(addr, x, len), "none") /\ stored(addr, x, len).store[2] = x
  BY DEF SoundAfter, FloatHarts
<1>4. /\ do_fsw(s, i) = stored(Word(ADDR(s, i)), F2(s, i), 4) /\ do_fsd(s, i) = stored(Word(ADDR(s, i)), F2(s, i), 8)
      /\ do_c_fsd(s, i) = stored(Word(ADDR(s, i)), F2(s, i), 8)
      /\ do_c_fsdsp(s, i) = stored(Word(ADDR(s, FromSp(i))), F2(s, i), 8)
  <2>1. F2(s, FromSp(i)) = F2(s, i)
    BY DEF F2, FromSp, FloatInfos
  <2> QED BY <2>1, Zenon DEF do_fsw, do_fsd, do_c_fsd, do_c_fsdsp
<1> HIDE DEF stored
<1>5. do_fmv_x_w(s, i) = fmv_x(s, i) /\ do_fmv_x_d(s, i) = fmv_x(s, i)
  BY DEF do_fmv_x_w, do_fmv_x_d
<1> QED BY <1>2, <1>3, <1>4, <1>5

(* Whatever a floating-point instruction computes, the host's rounding mode  *)
(* is what it was before, only the destination register is written, and a    *)
(* single has the other half of its register filled with ones.               *)
THEOREM FloatsLeaveTheHost ==
  HartSpec => []FloatsLeaveTheHostAlone
<1>1. Picked => FloatsLeaveTheHostAlone
  <2> SUFFICES ASSUME Picked, unit = "float" PROVE FloatsLeaveTheHostAlone
    BY DEF FloatsLeaveTheHostAlone, Is
  <2> DEFINE s == FloatHart(input)
             i == FloatInfo(input)
  <2>1. s \in FloatHarts /\ i \in FloatInfos /\ F1(s, i) = input.x /\ F2(s, i) = input.y
    BY FloatTypes DEF Picked
  <2> HIDE DEF s, i
  <2>2. \A t \in SinglesAfter(s, i) : Singles(s, i, t)
    BY <2>1, SinglesSound
  <2>3. \A t \in DoublesAfter(s, i) : Doubles(s, i, t)
    BY <2>1, DoublesSound
  <2>4. \A t \in IntegersAfter(s, i) : Whole(s, i, t)
    BY <2>1, IntegersSound
  <2>5. /\ \A t \in {do_fmv_x_w(s, i), do_fmv_x_d(s, i)} :
              SoundAfter(s, i, t, "gpr") /\ t.gpr[i.rd].bits = input.x
        /\ \A t \in {do_fsw(s, i), do_fsd(s, i), do_c_fsdsp(s, i), do_c_fsd(s, i)} :
              SoundAfter(s, i, t, "none") /\ t.store[2] = input.y
    BY <2>1, MovesSound
  <2> QED BY <2>2, <2>3, <2>4, <2>5, Zenon
          DEF FloatsLeaveTheHostAlone, s, i, Singles, Doubles, Whole, SoundAfter, Others
<1> QED BY <1>1, UnitsPick, PTL

-----------------------------------------------------------------------------
(* CSRs.  A register is a set of bits below 64, the addresses of the PMP     *)
(* have 54, and the PMP list is what its registers say.                      *)

Bits == 0 .. 63

CsrRecord(f) ==
  f \in [csr : [Csr!Registers -> SUBSET Bits], privMode : {0, 1, 3}, copy : {f.copy},
         translate : {f.translate}, pmp : {f.pmp}, timer : {f.timer}, rd : {f.rd}, invalid : BOOLEAN]

CsrGood(f) ==
  /\ CsrRecord(f)
  /\ f.csr["pmpaddr0"] \subseteq 0 .. 53 /\ f.csr["pmpaddr1"] \subseteq 0 .. 53
  /\ f.pmp = Csr!PmpList(f)

(* The PMP list is read off three registers.                                 *)
LEMMA ListOfRegisters ==
  ASSUME NEW f, NEW g, f.csr["pmpcfg0"] = g.csr["pmpcfg0"],
         f.csr["pmpaddr0"] = g.csr["pmpaddr0"], f.csr["pmpaddr1"] = g.csr["pmpaddr1"]
  PROVE  Csr!PmpList(f) = Csr!PmpList(g)
<1> DEFINE addrs(h) == [k \in 1 .. Len(Csr!PmpAddrs) |-> Csr!get_csr_value(h, Csr!PmpAddrs[k])]
<1>1. ASSUME NEW k \in 1 .. Len(Csr!PmpAddrs)
      PROVE  Csr!get_csr_value(f, Csr!PmpAddrs[k]) = Csr!get_csr_value(g, Csr!PmpAddrs[k])
  <2>1. k = 1 \/ k = 2
    BY SMT DEF Csr!PmpAddrs
  <2>2. Csr!PmpAddrs[k] = "pmpaddr0" \/ Csr!PmpAddrs[k] = "pmpaddr1"
    BY <2>1 DEF Csr!PmpAddrs
  <2> QED BY <2>2 DEF Csr!get_csr_value
<1>2. addrs(f) = addrs(g)
  BY <1>1
<1>3. Csr!get_csr_value(f, "pmpcfg0") = Csr!get_csr_value(g, "pmpcfg0")
  BY DEF Csr!get_csr_value
<1> QED BY <1>2, <1>3, Zenon DEF Csr!PmpList

(* Registers that are all off list no entry.                                 *)
LEMMA NoEntries ==
  ASSUME NEW addrs
  PROVE  Csr!PmpEntries({}, addrs) = <<>>
<1> DEFINE entry(k) == Csr!PmpEntry({}, addrs, k)
           n == Len(Csr!PmpAddrs)
           f == [k \in 0 .. n |-> <<>>]
           Fits(g) == g = [k \in 0 .. n |-> IF k = 0 THEN <<>> ELSE g[k - 1] \o entry(k)]
<1>1. \A k : entry(k) = <<>>
  BY DEF Csr!PmpEntry
<1>2. n = 2
  BY SMT DEF Csr!PmpAddrs
<1> HIDE DEF entry, n
<1>3. <<>> \o <<>> = <<>>
  BY SMT
<1>4. Fits(f)
  <2>1. \A k \in 0 .. n : k # 0 => k - 1 \in 0 .. n
    BY <1>2, SMT
  <2> QED BY <1>1, <1>3, <2>1
<1>5. ASSUME NEW g, Fits(g) PROVE g[n] = <<>>
  <2>1. 0 \in 0 .. n /\ 1 \in 0 .. n /\ 2 \in 0 .. n /\ 1 - 1 = 0 /\ 2 - 1 = 1 /\ 1 # 0 /\ 2 # 0
    BY <1>2, SMT
  <2>2. g[0] = <<>>
    BY <1>5, <2>1
  <2>3. g[1] = g[0] \o entry(1)
    BY <1>5, <2>1
  <2>4. g[2] = g[1] \o entry(2)
    BY <1>5, <2>1
  <2> QED BY <1>1, <1>2, <1>3, <2>2, <2>3, <2>4
<1> DEFINE h == CHOOSE g : Fits(g)
<1>6. Fits(h)
  BY <1>4, Zenon
<1>7. Csr!PmpEntries({}, addrs) = h[n]
  BY Zenon DEF Csr!PmpEntries, entry, n
<1> HIDE DEF h, Fits
<1> QED BY <1>5, <1>6, <1>7

(* f has changed to g only in what register s holds, and in derived state.   *)
SameOtherwise(f, g) == g.privMode = f.privMode /\ g.rd = f.rd /\ g.invalid = f.invalid

Moved(f, g, s, w) ==
  /\ CsrRecord(g) /\ SameOtherwise(f, g)
  /\ g.csr = [f.csr EXCEPT ![s] = w]

(* A store into one register changes that register only.                     *)
LEMMA SetSlot ==
  ASSUME NEW f, CsrRecord(f), NEW s \in Csr!Registers, NEW w \in SUBSET Bits
  PROVE  LET g == Csr!set_csr_value(f, s, w)
         IN  /\ Moved(f, g, s, w)
             /\ g.copy = f.copy /\ g.translate = f.translate /\ g.pmp = f.pmp /\ g.timer = f.timer
<1> DEFINE Regs == Csr!Registers
           Vals == SUBSET Bits
           g == [f EXCEPT !.csr[s] = w]
<1>0. f \in [csr : [Regs -> Vals], privMode : {0, 1, 3}, copy : {f.copy},
         translate : {f.translate}, pmp : {f.pmp}, timer : {f.timer}, rd : {f.rd}, invalid : BOOLEAN]
  BY DEF CsrRecord
<1>1. s \in Regs /\ w \in Vals
  OBVIOUS
<1> HIDE DEF Regs, Vals
<1>2. g \in [csr : [Regs -> Vals], privMode : {0, 1, 3}, copy : {f.copy},
         translate : {f.translate}, pmp : {f.pmp}, timer : {f.timer}, rd : {f.rd}, invalid : BOOLEAN]
  BY <1>0, <1>1
<1>3. /\ g.privMode = f.privMode /\ g.rd = f.rd /\ g.invalid = f.invalid
      /\ g.csr = [f.csr EXCEPT ![s] = w]
      /\ g.copy = f.copy /\ g.translate = f.translate /\ g.pmp = f.pmp /\ g.timer = f.timer
  BY <1>0, <1>1
<1>4. g = Csr!set_csr_value(f, s, w)
  BY DEF Csr!set_csr_value
<1> HIDE DEF g
<1>5. CsrRecord(g)
  BY <1>2, <1>3 DEF CsrRecord, Regs, Vals
<1> QED BY <1>3, <1>4, <1>5 DEF Moved, SameOtherwise

(* The callbacks store what they derive.                                     *)
LEMMA Callbacks ==
  ASSUME NEW f, CsrRecord(f)
  PROVE  /\ LET g == Csr!update_mstatus(f)
            IN  /\ CsrRecord(g) /\ SameOtherwise(f, g) /\ g.csr = f.csr /\ g.copy = Csr!Copy(g)
                /\ g.translate = f.translate /\ g.pmp = f.pmp /\ g.timer = f.timer
         /\ LET g == Csr!update_vm_translate(f)
            IN  /\ CsrRecord(g) /\ SameOtherwise(f, g) /\ g.csr = f.csr /\ g.copy = f.copy
                /\ g.translate = Csr!Translation(g) /\ g.pmp = f.pmp /\ g.timer = f.timer
         /\ LET g == Csr!reload_pmpcfg(f)
            IN  /\ CsrRecord(g) /\ SameOtherwise(f, g) /\ g.csr = f.csr /\ g.copy = f.copy
                /\ g.translate = f.translate /\ g.pmp = Csr!PmpList(g) /\ g.timer = f.timer
<1> DEFINE Regs == Csr!Registers
           Vals == SUBSET Bits
<1>0. f \in [csr : [Regs -> Vals], privMode : {0, 1, 3}, copy : {f.copy},
         translate : {f.translate}, pmp : {f.pmp}, timer : {f.timer}, rd : {f.rd}, invalid : BOOLEAN]
  BY DEF CsrRecord
<1> HIDE DEF Regs, Vals
<1>1. ASSUME NEW x
      PROVE  LET g == [f EXCEPT !.copy = x]
             IN  /\ CsrRecord(g) /\ SameOtherwise(f, g) /\ g.csr = f.csr /\ g.copy = x
                 /\ g.translate = f.translate /\ g.pmp = f.pmp /\ g.timer = f.timer
  <2> DEFINE g == [f EXCEPT !.copy = x]
  <2>1. /\ g.privMode = f.privMode /\ g.rd = f.rd /\ g.invalid = f.invalid
        /\ g.csr = f.csr /\ g.copy = x
        /\ g.translate = f.translate /\ g.pmp = f.pmp /\ g.timer = f.timer
    BY <1>0
  <2>2. g \in [csr : [Regs -> Vals], privMode : {0, 1, 3}, copy : {x},
         translate : {f.translate}, pmp : {f.pmp}, timer : {f.timer}, rd : {f.rd}, invalid : BOOLEAN]
    BY <1>0
  <2> HIDE DEF g
  <2>3. CsrRecord(g)
    BY <2>1, <2>2 DEF CsrRecord, Regs, Vals
  <2> QED BY <2>1, <2>3 DEF SameOtherwise, g
<1>2. ASSUME NEW x
      PROVE  LET g == [f EXCEPT !.translate = x]
             IN  /\ CsrRecord(g) /\ SameOtherwise(f, g) /\ g.csr = f.csr /\ g.translate = x
                 /\ g.copy = f.copy /\ g.pmp = f.pmp /\ g.timer = f.timer
  <2> DEFINE g == [f EXCEPT !.translate = x]
  <2>1. /\ g.privMode = f.privMode /\ g.rd = f.rd /\ g.invalid = f.invalid
        /\ g.csr = f.csr /\ g.translate = x
        /\ g.copy = f.copy /\ g.pmp = f.pmp /\ g.timer = f.timer
    BY <1>0
  <2>2. g \in [csr : [Regs -> Vals], privMode : {0, 1, 3}, copy : {f.copy},
         translate : {x}, pmp : {f.pmp}, timer : {f.timer}, rd : {f.rd}, invalid : BOOLEAN]
    BY <1>0
  <2> HIDE DEF g
  <2>3. CsrRecord(g)
    BY <2>1, <2>2 DEF CsrRecord, Regs, Vals
  <2> QED BY <2>1, <2>3 DEF SameOtherwise, g
<1>3. ASSUME NEW x
      PROVE  LET g == [f EXCEPT !.pmp = x]
             IN  /\ CsrRecord(g) /\ SameOtherwise(f, g) /\ g.csr = f.csr /\ g.pmp = x
                 /\ g.copy = f.copy /\ g.translate = f.translate /\ g.timer = f.timer
  <2> DEFINE g == [f EXCEPT !.pmp = x]
  <2>1. /\ g.privMode = f.privMode /\ g.rd = f.rd /\ g.invalid = f.invalid
        /\ g.csr = f.csr /\ g.pmp = x
        /\ g.copy = f.copy /\ g.translate = f.translate /\ g.timer = f.timer
    BY <1>0
  <2>2. g \in [csr : [Regs -> Vals], privMode : {0, 1, 3}, copy : {f.copy},
         translate : {f.translate}, pmp : {x}, timer : {f.timer}, rd : {f.rd}, invalid : BOOLEAN]
    BY <1>0
  <2> HIDE DEF g
  <2>3. CsrRecord(g)
    BY <2>1, <2>2 DEF CsrRecord, Regs, Vals
  <2> QED BY <2>1, <2>3 DEF SameOtherwise, g
<1>4. ASSUME NEW g, g.csr = f.csr, g.privMode = f.privMode
      PROVE  Csr!Copy(g) = Csr!Copy(f) /\ Csr!Translation(g) = Csr!Translation(f)
             /\ Csr!PmpList(g) = Csr!PmpList(f)
  <2>1. Csr!PmpList(g) = Csr!PmpList(f)
    BY <1>4, ListOfRegisters
  <2>2. \A a : Csr!get_csr_value(g, a) = Csr!get_csr_value(f, a)
    BY <1>4 DEF Csr!get_csr_value
  <2> QED BY <1>4, <2>1, <2>2, Zenon DEF Csr!Copy, Csr!Translation
<1> QED BY <1>1, <1>2, <1>3, <1>4, Zenon
        DEF Csr!update_mstatus, Csr!update_vm_translate, Csr!reload_pmpcfg, SameOtherwise

(* What is derived from other registers than s stays as derived.             *)
LEMMA StillDerived ==
  ASSUME NEW f, NEW g, NEW s, NEW w, CsrRecord(f), s \in Csr!Registers, Moved(f, g, s, w)
  PROVE  /\ g.csr[s] = w
         /\ \A b \in Csr!Registers : b # s => g.csr[b] = f.csr[b]
         /\ s # "mstatus" => Csr!Copy(g) = Csr!Copy(f)
         /\ s # "satp" => Csr!Translation(g) = Csr!Translation(f)
         /\ s \notin {"pmpcfg0", "pmpaddr0", "pmpaddr1"} => Csr!PmpList(g) = Csr!PmpList(f)
<1>1. f.csr \in [Csr!Registers -> SUBSET Bits]
  BY DEF CsrRecord
<1>2. g.csr = [f.csr EXCEPT ![s] = w] /\ g.privMode = f.privMode
  BY DEF Moved, SameOtherwise
<1>3. g.csr[s] = w /\ \A b \in Csr!Registers : b # s => g.csr[b] = f.csr[b]
  BY <1>1, <1>2
<1>4. {"mstatus", "satp", "pmpcfg0", "pmpaddr0", "pmpaddr1", "stimecmp"} \subseteq Csr!Registers
  BY DEF Csr!Registers, Csr!PmpCfgs
<1>5. s # "mstatus" => Csr!Copy(g) = Csr!Copy(f)
  <2>1. s # "mstatus" => Csr!get_csr_value(g, "mstatus") = Csr!get_csr_value(f, "mstatus")
    BY <1>3, <1>4 DEF Csr!get_csr_value
  <2> QED BY <2>1, Zenon DEF Csr!Copy
<1>6. s # "satp" => Csr!Translation(g) = Csr!Translation(f)
  <2>1. s # "satp" => Csr!get_csr_value(g, "satp") = Csr!get_csr_value(f, "satp")
    BY <1>3, <1>4 DEF Csr!get_csr_value
  <2> QED BY <1>2, <2>1, Zenon DEF Csr!Translation
<1>7. s \notin {"pmpcfg0", "pmpaddr0", "pmpaddr1"} => Csr!PmpList(g) = Csr!PmpList(f)
  BY <1>3, <1>4, ListOfRegisters
<1> QED BY <1>3, <1>5, <1>6, <1>7

(* The register that a write of a changes, and what it holds then.           *)
Target(a) ==
  CASE a = "sip" -> "mip" [] a = "sie" -> "mie" [] a = "sstatus" -> "mstatus"
    [] a \in {"fflags", "frm"} -> "fcsr" [] OTHER -> a

New(c, a, v) ==
  CASE a = "mip" -> Csr!Merge(c["mip"], v, Csr!MIP_RW_MASK)
    [] a = "sip" -> Csr!Merge(c["mip"], v, {Csr!SOFTWARE_S})
    [] a = "sie" -> Csr!Merge(c["mie"] \cap Csr!MIE_INTER_MASK, v, Csr!INTER_MASK_S)
    [] a = "sstatus" -> Csr!Merge(c["mstatus"], v, Csr!SSTATUS_MASK)
    [] a \in {"pmpaddr0", "pmpaddr1"} -> v \cap (0 .. 53)
    [] a = "satp" -> Csr!Satp(v) \ Csr!Asid
    [] a = "fflags" -> Csr!Merge(c["fcsr"], v, Csr!FFLAGS)
    [] a = "frm" -> Csr!Merge(c["fcsr"], Csr!Shift(v, 5), Csr!FRM)
    [] OTHER -> v

Changeable == Csr!Registers \ {"time", "mhartid", "stimecmp"}

(* What a write stores are bits of a register, in one of the registers.      *)
LEMMA NewBits ==
  ASSUME NEW c \in [Csr!Registers -> SUBSET Bits], NEW a \in Changeable, NEW v \in SUBSET Bits
  PROVE  /\ Target(a) \in Csr!Registers /\ New(c, a, v) \in SUBSET Bits
         /\ a \in {"pmpaddr0", "pmpaddr1"} => New(c, a, v) \subseteq 0 .. 53
<1>1. Target(a) \in Csr!Registers
  BY DEF Target, Changeable, Csr!Registers, Csr!PmpCfgs
<1>2. \A b \in {"mip", "mie", "mstatus", "fcsr"} : c[b] \subseteq Bits
  BY DEF Csr!Registers, Csr!PmpCfgs
<1>3. ASSUME NEW x, x \subseteq Bits, NEW y, NEW mask, mask \subseteq Bits
      PROVE  Csr!Merge(x, y, mask) \subseteq Bits
  BY <1>3 DEF Csr!Merge
<1>4. /\ Csr!MIP_RW_MASK \subseteq Bits /\ {Csr!SOFTWARE_S} \subseteq Bits
      /\ Csr!INTER_MASK_S \subseteq Bits /\ Csr!SSTATUS_MASK \subseteq Bits
      /\ Csr!FFLAGS \subseteq Bits /\ Csr!FRM \subseteq Bits
  BY SMT DEF Bits, Csr!MIP_RW_MASK, Csr!INTER_MASK_S, Csr!SSTATUS_MASK, Csr!FFLAGS, Csr!FRM,
             Csr!SOFTWARE_S, Csr!TIMER_S, Csr!EXTERNAL_S
<1>5. CASE a \in {"mip", "sip", "sie", "sstatus", "fflags", "frm"}
  <2>1. c["mie"] \cap Csr!MIE_INTER_MASK \subseteq Bits
    BY <1>2
  <2>2. /\ a = "mip" => New(c, a, v) = Csr!Merge(c["mip"], v, Csr!MIP_RW_MASK)
        /\ a = "sip" => New(c, a, v) = Csr!Merge(c["mip"], v, {Csr!SOFTWARE_S})
        /\ a = "sie" => New(c, a, v) = Csr!Merge(c["mie"] \cap Csr!MIE_INTER_MASK, v, Csr!INTER_MASK_S)
        /\ a = "sstatus" => New(c, a, v) = Csr!Merge(c["mstatus"], v, Csr!SSTATUS_MASK)
        /\ a = "fflags" => New(c, a, v) = Csr!Merge(c["fcsr"], v, Csr!FFLAGS)
        /\ a = "frm" => New(c, a, v) = Csr!Merge(c["fcsr"], Csr!Shift(v, 5), Csr!FRM)
    BY DEF New
  <2> QED BY <1>1, <1>2, <1>3, <1>4, <1>5, <2>1, <2>2
<1>6. CASE a \in {"pmpaddr0", "pmpaddr1"}
  <2>1. New(c, a, v) = v \cap (0 .. 53)
    BY <1>6 DEF New
  <2> QED BY <1>1, <2>1
<1>7. CASE a = "satp"
  <2>1. New(c, a, v) = Csr!Satp(v) \ Csr!Asid
    BY <1>7 DEF New
  <2>2. Csr!Satp(v) \subseteq v
    BY DEF Csr!Satp
  <2> QED BY <1>1, <1>7, <2>1, <2>2
<1>8. CASE a \notin {"mip", "sip", "sie", "sstatus", "fflags", "frm", "pmpaddr0", "pmpaddr1", "satp"}
  <2>1. New(c, a, v) = v
    BY <1>8 DEF New
  <2> QED BY <1>1, <1>8, <2>1
<1> QED BY <1>5, <1>6, <1>7, <1>8

(* What f derives from its registers stays derived in t.                     *)
StaysDerived(f, t) ==
  /\ f.copy = Csr!Copy(f) => t.copy = Csr!Copy(t)
  /\ f.translate = Csr!Translation(f) => t.translate = Csr!Translation(t)
  /\ f.timer = f.csr["stimecmp"] => t.timer = t.csr["stimecmp"]

(* A write with its callback changes one register and what hangs on it.      *)
LEMMA Written ==
  ASSUME NEW f, CsrGood(f), NEW a \in Changeable, NEW v \in SUBSET Bits
  PROVE  LET t == Csr!WriteCallback(Csr!Stored(f, a, v), a)
         IN  CsrGood(t) /\ Moved(f, t, Target(a), New(f.csr, a, v)) /\ StaysDerived(f, t)
<1> DEFINE t == Csr!WriteCallback(Csr!Stored(f, a, v), a)
           s == Target(a)
           w == New(f.csr, a, v)
           g == Csr!set_csr_value(f, s, w)
           Pmps == {"pmpcfg0", "pmpaddr0", "pmpaddr1"}
<1>1. CsrRecord(f) /\ f.csr \in [Csr!Registers -> SUBSET Bits]
  BY DEF CsrGood, CsrRecord
<1>2. s \in Csr!Registers /\ w \in SUBSET Bits
  BY <1>1, NewBits
<1>3. /\ Moved(f, g, s, w)
      /\ g.copy = f.copy /\ g.translate = f.translate /\ g.pmp = f.pmp /\ g.timer = f.timer
  BY <1>1, <1>2, SetSlot
<1>4. Csr!Stored(f, a, v) = IF a \in Pmps THEN Csr!reload_pmpcfg(g) ELSE g
  <2>1. CASE a \in {"mip", "sip", "sie", "sstatus"}
    BY <2>1 DEF Csr!Stored, Csr!Into, Csr!get_csr_value, Csr!PmpCfgs, Target, New
  <2>2. CASE a \in {"fflags", "frm"}
    BY <2>2 DEF Csr!Stored, Csr!Into, Csr!write_frm, Csr!get_csr_value, Csr!PmpCfgs, Target, New
  <2>3. CASE a \in Pmps \cup {"satp"}
    BY <2>3 DEF Csr!Stored, Csr!PmpCfgs, Target, New
  <2>4. CASE a \notin {"mip", "sip", "sie", "sstatus", "fflags", "frm", "satp"} \cup Pmps
    BY <2>4 DEF Csr!Stored, Csr!PmpCfgs, Target, New
  <2> QED BY <2>1, <2>2, <2>3, <2>4
<1>5. t = IF a = "satp" THEN Csr!update_vm_translate(g)
          ELSE IF a \in {"mstatus", "sstatus"} THEN Csr!update_mstatus(g)
          ELSE IF a \in Pmps THEN Csr!reload_pmpcfg(g) ELSE g
  BY <1>4 DEF Csr!WriteCallback, Changeable
<1>6. /\ a = "satp" <=> s = "satp"
      /\ a \in {"mstatus", "sstatus"} <=> s = "mstatus"
      /\ a \in Pmps <=> s \in Pmps
      /\ s # "stimecmp"
      /\ a \in Pmps => s = a
  BY DEF Target, Changeable
<1>7. CsrRecord(g)
  BY <1>3 DEF Moved
<1> HIDE DEF g, s, w
<1>8. /\ CsrRecord(t) /\ SameOtherwise(g, t) /\ t.csr = g.csr
      /\ t.copy = IF s = "mstatus" THEN Csr!Copy(t) ELSE g.copy
      /\ t.translate = IF s = "satp" THEN Csr!Translation(t) ELSE g.translate
      /\ t.pmp = IF s \in Pmps THEN Csr!PmpList(t) ELSE g.pmp
      /\ t.timer = g.timer
  <2> HIDE DEF t
  <2>1. CASE a = "satp"
    BY <1>5, <1>6, <1>7, <2>1, Callbacks, Zenon
  <2>2. CASE a \in {"mstatus", "sstatus"}
    <3>1. a # "satp" /\ s # "satp" /\ s \notin Pmps
      BY <1>6, <2>2
    <3> QED BY <1>5, <1>6, <1>7, <2>2, <3>1, Callbacks, Zenon
  <2>3. CASE a \in Pmps
    <3>1. a # "satp" /\ a \notin {"mstatus", "sstatus"}
      BY <2>3
    <3> QED BY <1>5, <1>6, <1>7, <2>3, <3>1, Callbacks, Zenon
  <2>4. CASE a \notin {"satp", "mstatus", "sstatus"} \cup Pmps
    <3>1. t = g
      BY <1>5, <2>4
    <3>2. SameOtherwise(g, g)
      BY DEF SameOtherwise
    <3>3. s # "mstatus" /\ s # "satp" /\ s \notin Pmps
      BY <1>6, <2>4
    <3> QED BY <1>7, <3>1, <3>2, <3>3
  <2> QED BY <2>1, <2>2, <2>3, <2>4
<1> HIDE DEF t
<1>9. Moved(f, t, s, w)
  BY <1>3, <1>8 DEF Moved, SameOtherwise
<1>10. /\ t.csr[s] = w
       /\ \A b \in Csr!Registers : b # s => t.csr[b] = f.csr[b]
       /\ s # "mstatus" => Csr!Copy(t) = Csr!Copy(f)
       /\ s # "satp" => Csr!Translation(t) = Csr!Translation(f)
       /\ s \notin Pmps => Csr!PmpList(t) = Csr!PmpList(f)
  BY <1>1, <1>2, <1>9, StillDerived, Zenon
<1>11. CsrGood(t)
  <2>1. t.pmp = Csr!PmpList(t)
    BY <1>3, <1>8, <1>10 DEF CsrGood
  <2>2. ASSUME NEW b \in {"pmpaddr0", "pmpaddr1"} PROVE t.csr[b] \subseteq 0 .. 53
    <3>1. b \in Csr!Registers /\ f.csr[b] \subseteq 0 .. 53
      BY DEF CsrGood, Csr!Registers, Csr!PmpCfgs
    <3>2. s = b => a = b
      BY <1>6
    <3>3. s = b => w \subseteq 0 .. 53
      BY <1>1, <3>2, NewBits DEF w
    <3> QED BY <1>10, <3>1, <3>3
  <2> QED BY <1>8, <2>1, <2>2 DEF CsrGood
<1>12. StaysDerived(f, t)
  <2>1. s # "stimecmp" /\ "stimecmp" \in Csr!Registers
    BY <1>6 DEF Csr!Registers, Csr!PmpCfgs
  <2>2. t.csr["stimecmp"] = f.csr["stimecmp"]
    BY <1>10, <2>1
  <2> QED BY <1>3, <1>8, <1>10, <2>2 DEF StaysDerived
<1> QED BY <1>9, <1>11, <1>12 DEF t, s, w

(* stimecmp, the one register whose write changes another: mip.              *)
LEMMA WrittenTimer ==
  ASSUME NEW f, CsrGood(f), NEW v \in SUBSET Bits
  PROVE  LET t == Csr!WriteCallback(Csr!Stored(f, "stimecmp", v), "stimecmp")
         IN  /\ CsrGood(t) /\ SameOtherwise(f, t) /\ StaysDerived(f, t)
             /\ t.csr["stimecmp"] = v
             /\ t.csr["mip"] = f.csr["mip"] \ {Csr!TIMER_S}
             /\ \A b \in Csr!Registers \ {"stimecmp", "mip"} : t.csr[b] = f.csr[b]
<1> DEFINE g == Csr!set_csr_value(f, "stimecmp", v)
           h == [g EXCEPT !.timer = Csr!get_csr_value(g, "stimecmp")]
           t == Csr!WriteCallback(Csr!Stored(f, "stimecmp", v), "stimecmp")
           Regs == Csr!Registers
           Vals == SUBSET Bits
           low == g.csr["mip"] \ {Csr!TIMER_S}
           x == Csr!get_csr_value(g, "stimecmp")
<1>0. {"stimecmp", "mip", "pmpcfg0", "pmpaddr0", "pmpaddr1", "mstatus", "satp"} \subseteq Regs
  BY DEF Csr!Registers, Csr!PmpCfgs
<1>1. CsrRecord(f)
  BY DEF CsrGood
<1>2. /\ Moved(f, g, "stimecmp", v)
      /\ g.copy = f.copy /\ g.translate = f.translate /\ g.pmp = f.pmp /\ g.timer = f.timer
  BY <1>0, <1>1, SetSlot
<1>3. t = [g EXCEPT !.timer = x, !.csr["mip"] = @ \ {Csr!TIMER_S}]
  BY DEF Csr!Stored, Csr!PmpCfgs, Csr!WriteCallback, Csr!update_stimecmp
<1>4. g \in [csr : [Regs -> Vals], privMode : {0, 1, 3}, copy : {g.copy},
         translate : {g.translate}, pmp : {g.pmp}, timer : {g.timer}, rd : {g.rd}, invalid : BOOLEAN]
  BY <1>2 DEF Moved, CsrRecord
<1>5. low \in Vals
  <2>1. g.csr["mip"] \in Vals
    BY <1>0, <1>4
  <2> QED BY <2>1
<1> HIDE DEF g, Regs, Vals, x
<1>6. /\ t.csr = [g.csr EXCEPT !["mip"] = low]
      /\ t.privMode = g.privMode /\ t.rd = g.rd /\ t.invalid = g.invalid
      /\ t.copy = g.copy /\ t.translate = g.translate /\ t.pmp = g.pmp /\ t.timer = x
  BY <1>3, <1>4
<1> HIDE DEF low
<1>7. t \in [csr : [Regs -> Vals], privMode : {0, 1, 3}, copy : {g.copy},
         translate : {g.translate}, pmp : {g.pmp}, timer : {x}, rd : {g.rd}, invalid : BOOLEAN]
  <2>1. [g EXCEPT !.timer = x, !.csr["mip"] = @ \ {Csr!TIMER_S}]
          = [[g EXCEPT !.timer = x] EXCEPT !.csr = [g.csr EXCEPT !["mip"] = low]]
    BY <1>4 DEF low
  <2>2. [g.csr EXCEPT !["mip"] = low] \in [Regs -> Vals]
    BY <1>0, <1>4, <1>5
  <2> DEFINE c == [g.csr EXCEPT !["mip"] = low]
  <2> HIDE DEF c
  <2>3. [[g EXCEPT !.timer = x] EXCEPT !.csr = c] \in
          [csr : [Regs -> Vals], privMode : {0, 1, 3}, copy : {g.copy},
           translate : {g.translate}, pmp : {g.pmp}, timer : {x}, rd : {g.rd}, invalid : BOOLEAN]
    BY <1>4, <2>2 DEF c
  <2> QED BY <1>3, <2>1, <2>3 DEF c
<1> HIDE DEF t
<1>8. CsrRecord(t)
  BY <1>6, <1>7 DEF CsrRecord, Regs, Vals
<1>9. g.csr["stimecmp"] = v /\ x = v /\ \A b \in Regs : b # "stimecmp" => g.csr[b] = f.csr[b]
  <2>1. g.csr = [f.csr EXCEPT !["stimecmp"] = v] /\ f.csr \in [Regs -> Vals]
    BY <1>1, <1>2 DEF Moved, CsrRecord, Regs, Vals
  <2>2. g.csr["stimecmp"] = v /\ \A b \in Regs : b # "stimecmp" => g.csr[b] = f.csr[b]
    BY <1>0, <2>1
  <2> QED BY <2>2 DEF x, Csr!get_csr_value
<1>10. /\ t.csr["mip"] = f.csr["mip"] \ {Csr!TIMER_S}
       /\ t.csr["stimecmp"] = v
       /\ \A b \in Regs \ {"stimecmp", "mip"} : t.csr[b] = f.csr[b]
  <2>1. t.csr["mip"] = low /\ \A b \in Regs : b # "mip" => t.csr[b] = g.csr[b]
    BY <1>0, <1>4, <1>6
  <2> QED BY <1>0, <1>9, <2>1 DEF low
<1>11. SameOtherwise(f, t)
  BY <1>2, <1>6 DEF SameOtherwise, Moved
<1>12. /\ Csr!PmpList(t) = Csr!PmpList(f) /\ Csr!Copy(t) = Csr!Copy(f)
       /\ Csr!Translation(t) = Csr!Translation(f)
  <2>1. Csr!PmpList(t) = Csr!PmpList(f)
    BY <1>0, <1>10, ListOfRegisters
  <2>2. Csr!get_csr_value(t, "mstatus") = Csr!get_csr_value(f, "mstatus")
        /\ Csr!get_csr_value(t, "satp") = Csr!get_csr_value(f, "satp")
    BY <1>0, <1>10 DEF Csr!get_csr_value
  <2>3. t.privMode = f.privMode
    BY <1>11 DEF SameOtherwise
  <2> QED BY <2>1, <2>2, <2>3, Zenon DEF Csr!Copy, Csr!Translation
<1>13. CsrGood(t)
  <2>1. t.pmp = Csr!PmpList(t)
    BY <1>2, <1>6, <1>12 DEF CsrGood
  <2>2. t.csr["pmpaddr0"] \subseteq 0 .. 53 /\ t.csr["pmpaddr1"] \subseteq 0 .. 53
    BY <1>0, <1>10 DEF CsrGood
  <2> QED BY <1>8, <2>1, <2>2 DEF CsrGood
<1>14. StaysDerived(f, t)
  BY <1>2, <1>6, <1>9, <1>10, <1>12 DEF StaysDerived
<1> QED BY <1>10, <1>11, <1>13, <1>14 DEF t, Regs

-----------------------------------------------------------------------------
(* What b reads when the registers hold c; time reads no register.           *)
ReadOf(c, b) ==
  CASE b = "sstatus" -> c["mstatus"] \cap Csr!SSTATUS_MASK
    [] b = "fflags" -> c["fcsr"] \cap Csr!FFLAGS
    [] b = "frm" -> Csr!Shift(c["fcsr"] \cap Csr!FRM, -5)
    [] OTHER -> c[b]

(* Every register but time reads one value, taken from what is stored.       *)
LEMMA ReadsOf ==
  ASSUME NEW f, NEW b
  PROVE  /\ b \notin Csr!Registers => Csr!read_csr(f, b) = {}
         /\ b = "time" => Csr!read_csr(f, b) \in {{}, {{}}}
         /\ b \in Csr!Registers \ {"time"} => Csr!read_csr(f, b) = {ReadOf(f.csr, b)}
<1>1. "time" \in Csr!Registers /\ "sstatus" \in Csr!Registers /\ "fflags" \in Csr!Registers
      /\ "frm" \in Csr!Registers
  BY DEF Csr!Registers, Csr!PmpCfgs
<1>2. b \notin Csr!Registers => Csr!read_csr(f, b) = {}
  BY <1>1 DEF Csr!read_csr
<1>3. b = "time" => Csr!read_csr(f, b) \in {{}, {{}}}
  BY <1>1 DEF Csr!read_csr
<1>4. b \in Csr!Registers \ {"time"} => Csr!read_csr(f, b) = {ReadOf(f.csr, b)}
  BY <1>1 DEF Csr!read_csr, ReadOf, Csr!get_csr_value
<1> QED BY <1>2, <1>3, <1>4

(* Registers that hold d instead of c after a write of a read as they did    *)
(* but for what they share with a.                                           *)
Apart(c, d, a) ==
  \A b \in Csr!Registers \ {"time"} : Differ(ReadOf(c, b), ReadOf(d, b)) \subseteq Shared(a, b)

(* What is read are bits of a register.                                      *)
LEMMA ReadBits ==
  ASSUME NEW c \in [Csr!Registers -> SUBSET Bits], NEW b \in Csr!Registers
  PROVE  ReadOf(c, b) \subseteq Bits
<1>1. c[b] \subseteq Bits /\ c["mstatus"] \subseteq Bits /\ c["fcsr"] \subseteq Bits
  BY DEF Csr!Registers, Csr!PmpCfgs
<1>2. CASE b = "frm"
  <2>1. ReadOf(c, b) = Csr!Shift(c["fcsr"] \cap Csr!FRM, -5)
    BY <1>2 DEF ReadOf
  <2>2. \A x \in Csr!FRM : x + (-5) \in Bits
    BY SMT DEF Csr!FRM, Bits
  <2>3. Csr!Shift(c["fcsr"] \cap Csr!FRM, -5) \subseteq Bits
    BY <2>2, Zenon DEF Csr!Shift
  <2> QED BY <2>1, <2>3
<1>3. CASE b # "frm"
  BY <1>1, <1>3 DEF ReadOf
<1> QED BY <1>2, <1>3

(* Two registers that read the same part of what changed.                    *)
LEMMA MergeReads ==
  ASSUME NEW x, NEW y, NEW mask
  PROVE  /\ Differ(x, Csr!Merge(x, y, mask)) \subseteq mask
         /\ Csr!Merge(x, y, mask) \cap mask = Csr!Merge(x \cap mask, y, mask)
         /\ \A other : other \cap mask = {} => Csr!Merge(x, y, mask) \cap other = x \cap other
         /\ \A other : Differ(x \cap other, Csr!Merge(x, y, mask) \cap other) \subseteq mask
  BY DEF Differ, Csr!Merge

(* Registers differ in bits of a register, and not at all if equal.          *)
LEMMA DifferBits ==
  ASSUME NEW x, NEW y
  PROVE  /\ x \subseteq Bits /\ y \subseteq Bits => Differ(x, y) \subseteq 0 .. 63
         /\ x = y => Differ(x, y) = {}
  BY DEF Differ, Bits

(* The rounding mode is read three bits wide, wherever it stands.            *)
LEMMA ShiftedMode ==
  ASSUME NEW x \in SUBSET Bits, NEW y \in SUBSET Bits
  PROVE  /\ Csr!Shift(Csr!Merge(x, Csr!Shift(y, 5), Csr!FRM) \cap Csr!FRM, -5)
              = Csr!Merge(Csr!Shift(x \cap Csr!FRM, -5), y, 0 .. 2)
         /\ Differ(Csr!Shift(x \cap Csr!FRM, -5), Csr!Shift(y \cap Csr!FRM, -5)) \subseteq 0 .. 2
<1>1. \A v \in SUBSET Bits : \A b : b \in Csr!Shift(v \cap Csr!FRM, -5) <=> b \in 0 .. 2 /\ b + 5 \in v
  <2> SUFFICES ASSUME NEW v \in SUBSET Bits, NEW b
               PROVE  b \in Csr!Shift(v \cap Csr!FRM, -5) <=> b \in 0 .. 2 /\ b + 5 \in v
    OBVIOUS
  <2>1. b \in Csr!Shift(v \cap Csr!FRM, -5) <=> \E c \in v \cap Csr!FRM : b = c + (-5)
    BY Zenon DEF Csr!Shift
  <2>2. ASSUME NEW c \in v \cap Csr!FRM, b = c + (-5) PROVE b \in 0 .. 2 /\ b + 5 \in v
    <3>1. c \in 5 .. 7 /\ c \in v
      BY DEF Csr!FRM
    <3>2. b \in 0 .. 2 /\ b + 5 = c
      BY <2>2, <3>1, SMT
    <3> QED BY <3>1, <3>2
  <2>3. ASSUME b \in 0 .. 2, b + 5 \in v PROVE \E c \in v \cap Csr!FRM : b = c + (-5)
    <3>1. b + 5 \in 5 .. 7 /\ b = (b + 5) + (-5)
      BY <2>3, SMT
    <3> QED BY <2>3, <3>1 DEF Csr!FRM
  <2> QED BY <2>1, <2>2, <2>3
<1>2. \A v \in SUBSET Bits : \A b : b + 5 \in Csr!Shift(v, 5) /\ b \in 0 .. 2 <=> b \in v /\ b \in 0 .. 2
  <2> SUFFICES ASSUME NEW v \in SUBSET Bits, NEW b, b \in 0 .. 2
               PROVE  b + 5 \in Csr!Shift(v, 5) <=> b \in v
    OBVIOUS
  <2>1. b + 5 \in Csr!Shift(v, 5) <=> \E c \in v : b + 5 = c + 5
    BY Zenon DEF Csr!Shift
  <2>2. \A c \in v : b + 5 = c + 5 <=> b = c
    <3>1. \A c \in Bits : b + 5 = c + 5 <=> b = c
      BY SMT DEF Bits
    <3> QED BY <3>1
  <2> QED BY <2>1, <2>2
<1> DEFINE z == Csr!Merge(x, Csr!Shift(y, 5), Csr!FRM)
<1>3. z \in SUBSET Bits
  <2>1. Csr!FRM \subseteq Bits
    BY SMT DEF Csr!FRM, Bits
  <2> QED BY <2>1 DEF Csr!Merge
<1>4. \A b \in 0 .. 2 : b + 5 \in z <=> b \in y
  <2>1. \A b \in 0 .. 2 : b + 5 \in Csr!FRM
    BY SMT DEF Csr!FRM
  <2> QED BY <1>2, <2>1 DEF Csr!Merge
<1>5. \A b : b \in Csr!Shift(z \cap Csr!FRM, -5) <=> b \in 0 .. 2 /\ b \in y
  BY <1>1, <1>3, <1>4
<1>6. \A b : b \in Csr!Shift(x \cap Csr!FRM, -5) => b \in 0 .. 2
  BY <1>1
<1>7. \A b : b \in Csr!Merge(Csr!Shift(x \cap Csr!FRM, -5), y, 0 .. 2) <=> b \in 0 .. 2 /\ b \in y
  BY <1>6 DEF Csr!Merge
<1>8. Csr!Shift(z \cap Csr!FRM, -5) = Csr!Merge(Csr!Shift(x \cap Csr!FRM, -5), y, 0 .. 2)
  BY <1>5, <1>7
<1>9. Differ(Csr!Shift(x \cap Csr!FRM, -5), Csr!Shift(y \cap Csr!FRM, -5)) \subseteq 0 .. 2
  <2>1. \A v \in SUBSET Bits : Csr!Shift(v \cap Csr!FRM, -5) \subseteq 0 .. 2
    BY <1>1
  <2> QED BY <2>1 DEF Differ
<1> QED BY <1>8, <1>9

(* A write of a through the mask leaves every other register alone but for   *)
(* what it shares with a.                                                    *)
LEMMA WriteApart ==
  ASSUME NEW c \in [Csr!Registers -> SUBSET Bits], NEW a \in Changeable, NEW v \in SUBSET Bits,
         NEW d \in [Csr!Registers -> SUBSET Bits], d = [c EXCEPT ![Target(a)] = New(c, a, v)]
  PROVE  /\ Apart(c, d, a)
         /\ a \notin {"sip", "sie", "satp"} /\ (a \in {"pmpaddr0", "pmpaddr1"} => c[a] \subseteq 0 .. 53)
              => ReadOf(d, a) = Csr!Merge(ReadOf(c, a), v, Writable(a))
<1> DEFINE s == Target(a)
           w == New(c, a, v)
<1>1. s \in Csr!Registers /\ w \in SUBSET Bits
  BY NewBits
<1>2. d[s] = w /\ \A b \in Csr!Registers : b # s => d[b] = c[b]
  BY <1>1
<1>3. {"mip", "sip", "mie", "sie", "mstatus", "sstatus", "fcsr", "fflags", "frm"} \subseteq Csr!Registers
  BY DEF Csr!Registers, Csr!PmpCfgs
<1>4. \A b \in Csr!Registers : ReadOf(c, b) \subseteq Bits /\ ReadOf(d, b) \subseteq Bits /\ c[b] \subseteq Bits
  BY ReadBits
<1>5. /\ Csr!SSTATUS_MASK \subseteq Bits
      /\ Csr!FFLAGS \cap Csr!FRM = {} /\ Csr!FRM \cap Csr!FFLAGS = {}
      /\ Csr!FFLAGS = 0 .. 4 /\ Csr!FRM = 5 .. 7
  BY SMT DEF Bits, Csr!SSTATUS_MASK, Csr!FFLAGS, Csr!FRM
<1>6. \A x, y : x \subseteq Bits => Csr!Merge(x, y, 0 .. 63) = y \cap (0 .. 63)
  BY DEF Csr!Merge, Bits
<1>7. v \cap (0 .. 63) = v
  BY DEF Bits
<1> HIDE DEF s, w
<1>8. ASSUME NEW b \in Csr!Registers \ {"time"},
             \/ b # s /\ b \notin {"sstatus", "fflags", "frm"}
             \/ b = "sstatus" /\ s # "mstatus"
             \/ b \in {"fflags", "frm"} /\ s # "fcsr"
      PROVE  Differ(ReadOf(c, b), ReadOf(d, b)) \subseteq Shared(a, b)
  <2>1. ReadOf(c, b) = ReadOf(d, b)
    BY <1>2, <1>3, <1>8 DEF ReadOf
  <2> QED BY <2>1, DifferBits
<1>9. ASSUME NEW b \in Csr!Registers \ {"time"}, b = a
      PROVE  Differ(ReadOf(c, b), ReadOf(d, b)) \subseteq Shared(a, b)
  <2>1. Shared(a, b) = 0 .. 63
    BY <1>9 DEF Shared
  <2> QED BY <1>4, <2>1, DifferBits
<1>10. CASE a \in {"mip", "sip"}
  <2>1. s = "mip"
    BY <1>10 DEF s, Target
  <2>2. a = "sip" => w = Csr!Merge(c["mip"], v, {Csr!SOFTWARE_S})
    BY DEF w, New
  <2>3. a = "mip" => w = Csr!Merge(c["mip"], v, Csr!MIP_RW_MASK)
    BY DEF w, New
  <2>4. a = "sip" => Differ(ReadOf(c, "mip"), ReadOf(d, "mip")) \subseteq Shared(a, "mip")
    <3>1. ReadOf(c, "mip") = c["mip"] /\ ReadOf(d, "mip") = d["mip"]
      BY DEF ReadOf
    <3>2. a = "sip" => Shared(a, "mip") = {Csr!SOFTWARE_S}
      BY DEF Shared
    <3>3. Differ(c["mip"], Csr!Merge(c["mip"], v, {Csr!SOFTWARE_S})) \subseteq {Csr!SOFTWARE_S}
      BY MergeReads, Zenon
    <3> QED BY <1>2, <2>1, <2>2, <3>1, <3>2, <3>3, Zenon
  <2>5. Apart(c, d, a)
    <3> SUFFICES ASSUME NEW b \in Csr!Registers \ {"time"}
                 PROVE  Differ(ReadOf(c, b), ReadOf(d, b)) \subseteq Shared(a, b)
      BY DEF Apart
    <3> QED BY <1>8, <1>9, <1>10, <2>1, <2>4
  <2>6. a = "mip" => ReadOf(d, a) = Csr!Merge(ReadOf(c, a), v, Writable(a))
    <3>1. a = "mip" => Writable(a) = Csr!MIP_RW_MASK
      BY DEF Writable, Csr!MIP_RW_MASK
    <3>2. a = "mip" => ReadOf(c, a) = c["mip"] /\ ReadOf(d, a) = d["mip"]
      BY DEF ReadOf
    <3> QED BY <1>2, <2>1, <2>3, <3>1, <3>2
  <2> QED BY <1>10, <2>5, <2>6
<1>11. CASE a \in {"mie", "sie"}
  <2>1. s = "mie"
    BY <1>11 DEF s, Target
  <2>2. a = "sie" => w = Csr!Merge(c["mie"] \cap Csr!MIE_INTER_MASK, v, Csr!INTER_MASK_S)
    BY DEF w, New
  <2>3. a = "mie" => w = v
    BY DEF w, New
  <2>4. a = "sie" => Differ(ReadOf(c, "mie"), ReadOf(d, "mie")) \subseteq Shared(a, "mie")
    <3>1. ReadOf(c, "mie") = c["mie"] /\ ReadOf(d, "mie") = d["mie"]
      BY DEF ReadOf
    <3>2. a = "sie" => Shared(a, "mie") = Csr!INTER_MASK_S \cup ((0 .. 63) \ Csr!MIE_INTER_MASK)
      BY DEF Shared
    <3>3. c["mie"] \subseteq 0 .. 63
      BY <1>3, <1>4 DEF Bits
    <3>4. \A x : x \subseteq 0 .. 63 =>
            Differ(x, Csr!Merge(x \cap Csr!MIE_INTER_MASK, v, Csr!INTER_MASK_S))
              \subseteq Csr!INTER_MASK_S \cup ((0 .. 63) \ Csr!MIE_INTER_MASK)
      BY DEF Differ, Csr!Merge
    <3> QED BY <1>2, <2>1, <2>2, <3>1, <3>2, <3>3, <3>4
  <2>5. Apart(c, d, a)
    <3> SUFFICES ASSUME NEW b \in Csr!Registers \ {"time"}
                 PROVE  Differ(ReadOf(c, b), ReadOf(d, b)) \subseteq Shared(a, b)
      BY DEF Apart
    <3> QED BY <1>8, <1>9, <1>11, <2>1, <2>4
  <2>6. a = "mie" => ReadOf(d, a) = Csr!Merge(ReadOf(c, a), v, Writable(a))
    <3>1. a = "mie" => Writable(a) = 0 .. 63
      BY DEF Writable
    <3>2. a = "mie" => ReadOf(c, a) = c["mie"] /\ ReadOf(d, a) = d["mie"]
      BY DEF ReadOf
    <3>3. Csr!Merge(c["mie"], v, 0 .. 63) = v
      BY <1>3, <1>4, <1>6, <1>7, Zenon
    <3> QED BY <1>2, <2>1, <2>3, <3>1, <3>2, <3>3, Zenon
  <2> QED BY <1>11, <2>5, <2>6
<1>12. CASE a \in {"mstatus", "sstatus"}
  <2>1. s = "mstatus"
    BY <1>12 DEF s, Target
  <2>2. a = "sstatus" => w = Csr!Merge(c["mstatus"], v, Csr!SSTATUS_MASK)
    BY DEF w, New
  <2>3. a = "mstatus" => w = v
    BY DEF w, New
  <2>4. /\ ReadOf(c, "mstatus") = c["mstatus"] /\ ReadOf(d, "mstatus") = w
        /\ ReadOf(c, "sstatus") = c["mstatus"] \cap Csr!SSTATUS_MASK
        /\ ReadOf(d, "sstatus") = w \cap Csr!SSTATUS_MASK
    BY <1>2, <2>1 DEF ReadOf
  <2>5. a = "sstatus" => Differ(ReadOf(c, "mstatus"), ReadOf(d, "mstatus")) \subseteq Shared(a, "mstatus")
    <3>1. a = "sstatus" => Shared(a, "mstatus") = Csr!SSTATUS_MASK
      BY DEF Shared
    <3>2. Differ(c["mstatus"], Csr!Merge(c["mstatus"], v, Csr!SSTATUS_MASK)) \subseteq Csr!SSTATUS_MASK
      BY MergeReads, Zenon
    <3> QED BY <2>2, <2>4, <3>1, <3>2, Zenon
  <2>6. a = "mstatus" => Differ(ReadOf(c, "sstatus"), ReadOf(d, "sstatus")) \subseteq Shared(a, "sstatus")
    <3>1. a = "mstatus" => Shared(a, "sstatus") = Csr!SSTATUS_MASK
      BY DEF Shared
    <3>2. \A x, y, m : Differ(x \cap m, y \cap m) \subseteq m
      BY DEF Differ
    <3> QED BY <2>4, <3>1, <3>2
  <2>7. Apart(c, d, a)
    <3> SUFFICES ASSUME NEW b \in Csr!Registers \ {"time"}
                 PROVE  Differ(ReadOf(c, b), ReadOf(d, b)) \subseteq Shared(a, b)
      BY DEF Apart
    <3> QED BY <1>8, <1>9, <1>12, <2>1, <2>5, <2>6
  <2>8. a = "mstatus" => ReadOf(d, a) = Csr!Merge(ReadOf(c, a), v, Writable(a))
    <3>1. a = "mstatus" => Writable(a) = 0 .. 63
      BY DEF Writable
    <3>2. Csr!Merge(c["mstatus"], v, 0 .. 63) = v
      BY <1>3, <1>4, <1>6, <1>7, Zenon
    <3> QED BY <2>3, <2>4, <3>1, <3>2, Zenon
  <2>9. a = "sstatus" => ReadOf(d, a) = Csr!Merge(ReadOf(c, a), v, Writable(a))
    <3>1. a = "sstatus" => Writable(a) = Csr!SSTATUS_MASK
      BY DEF Writable
    <3>2. Csr!Merge(c["mstatus"], v, Csr!SSTATUS_MASK) \cap Csr!SSTATUS_MASK
            = Csr!Merge(c["mstatus"] \cap Csr!SSTATUS_MASK, v, Csr!SSTATUS_MASK)
      BY DEF Csr!Merge
    <3> QED BY <2>2, <2>4, <3>1, <3>2, Zenon
  <2> QED BY <1>12, <2>7, <2>8, <2>9
<1>13. CASE a \in {"fcsr", "fflags", "frm"}
  <2>1. s = "fcsr"
    BY <1>13 DEF s, Target
  <2> DEFINE x == c["fcsr"]
  <2>2. a = "fcsr" => w = v
    BY DEF w, New
  <2>3. a = "fflags" => w = Csr!Merge(x, v, Csr!FFLAGS)
    BY DEF w, New
  <2>4. a = "frm" => w = Csr!Merge(x, Csr!Shift(v, 5), Csr!FRM)
    BY DEF w, New
  <2>5. /\ ReadOf(c, "fcsr") = x /\ ReadOf(d, "fcsr") = w
        /\ ReadOf(c, "fflags") = x \cap Csr!FFLAGS /\ ReadOf(d, "fflags") = w \cap Csr!FFLAGS
        /\ ReadOf(c, "frm") = Csr!Shift(x \cap Csr!FRM, -5)
        /\ ReadOf(d, "frm") = Csr!Shift(w \cap Csr!FRM, -5)
    BY <1>2, <2>1 DEF ReadOf
  <2>6. x \in SUBSET Bits
    BY <1>3
  <2> HIDE DEF x
  <2>7. a = "fcsr" =>
          /\ Differ(ReadOf(c, "fflags"), ReadOf(d, "fflags")) \subseteq Shared(a, "fflags")
          /\ Differ(ReadOf(c, "frm"), ReadOf(d, "frm")) \subseteq Shared(a, "frm")
    <3>1. a = "fcsr" => Shared(a, "fflags") = 0 .. 4 /\ Shared(a, "frm") = 0 .. 2
      BY DEF Shared
    <3>2. Differ(x \cap Csr!FFLAGS, w \cap Csr!FFLAGS) \subseteq 0 .. 4
      BY <1>5 DEF Differ
    <3> QED BY <1>1, <2>5, <2>6, <3>1, <3>2, ShiftedMode
  <2>8. a = "fflags" =>
          /\ Differ(ReadOf(c, "fcsr"), ReadOf(d, "fcsr")) \subseteq Shared(a, "fcsr")
          /\ Differ(ReadOf(c, "frm"), ReadOf(d, "frm")) \subseteq Shared(a, "frm")
    <3>1. a = "fflags" => Shared(a, "fcsr") = 0 .. 4
      BY DEF Shared
    <3>2. Csr!Merge(x, v, Csr!FFLAGS) \cap Csr!FRM = x \cap Csr!FRM
      BY <1>5 DEF Csr!Merge
    <3>3. Differ(x, Csr!Merge(x, v, Csr!FFLAGS)) \subseteq Csr!FFLAGS
      BY MergeReads, Zenon
    <3>4. a = "fflags" => w \cap Csr!FRM = x \cap Csr!FRM
      BY <2>3, <3>2, Zenon
    <3>5. a = "fflags" => Differ(x, w) \subseteq 0 .. 4
      BY <1>5, <2>3, <3>3, Zenon
    <3> QED BY <2>5, <3>1, <3>4, <3>5, DifferBits
  <2>9. a = "frm" =>
          /\ Differ(ReadOf(c, "fcsr"), ReadOf(d, "fcsr")) \subseteq Shared(a, "fcsr")
          /\ Differ(ReadOf(c, "fflags"), ReadOf(d, "fflags")) \subseteq Shared(a, "fflags")
    <3>1. a = "frm" => Shared(a, "fcsr") = 5 .. 7
      BY DEF Shared
    <3>2. Csr!Merge(x, Csr!Shift(v, 5), Csr!FRM) \cap Csr!FFLAGS = x \cap Csr!FFLAGS
      BY <1>5 DEF Csr!Merge
    <3>3. Differ(x, Csr!Merge(x, Csr!Shift(v, 5), Csr!FRM)) \subseteq Csr!FRM
      BY DEF Differ, Csr!Merge
    <3>4. a = "frm" => w \cap Csr!FFLAGS = x \cap Csr!FFLAGS
      BY <2>4, <3>2, Zenon
    <3>5. a = "frm" => Differ(x, w) \subseteq 5 .. 7
      BY <1>5, <2>4, <3>3, Zenon
    <3> QED BY <2>5, <3>1, <3>4, <3>5, DifferBits
  <2>10. Apart(c, d, a)
    <3> SUFFICES ASSUME NEW b \in Csr!Registers \ {"time"}
                 PROVE  Differ(ReadOf(c, b), ReadOf(d, b)) \subseteq Shared(a, b)
      BY DEF Apart
    <3>1. b \in {"fcsr", "fflags", "frm"} \/ (b # s /\ b \notin {"sstatus", "fflags", "frm"})
             \/ (b = "sstatus" /\ s # "mstatus")
      BY <2>1
    <3> QED BY <1>8, <1>9, <1>13, <2>7, <2>8, <2>9, <3>1
  <2>11. a = "fcsr" => ReadOf(d, a) = Csr!Merge(ReadOf(c, a), v, Writable(a))
    <3>1. a = "fcsr" => Writable(a) = 0 .. 63
      BY DEF Writable
    <3>2. Csr!Merge(x, v, 0 .. 63) = v
      BY <1>6, <1>7, <2>6, Zenon
    <3> QED BY <2>2, <2>5, <3>1, <3>2, Zenon
  <2>12. a = "fflags" => ReadOf(d, a) = Csr!Merge(ReadOf(c, a), v, Writable(a))
    <3>1. a = "fflags" => Writable(a) = Csr!FFLAGS
      BY <1>5 DEF Writable
    <3>2. Csr!Merge(x, v, Csr!FFLAGS) \cap Csr!FFLAGS = Csr!Merge(x \cap Csr!FFLAGS, v, Csr!FFLAGS)
      BY DEF Csr!Merge
    <3> QED BY <2>3, <2>5, <3>1, <3>2, Zenon
  <2>13. a = "frm" => ReadOf(d, a) = Csr!Merge(ReadOf(c, a), v, Writable(a))
    <3>1. a = "frm" => Writable(a) = 0 .. 2
      BY DEF Writable
    <3> QED BY <2>4, <2>5, <2>6, <3>1, ShiftedMode
  <2> QED BY <1>13, <2>10, <2>11, <2>12, <2>13
<1>14. CASE a \notin {"mip", "sip", "mie", "sie", "mstatus", "sstatus", "fcsr", "fflags", "frm"}
  <2>1. s = a
    BY <1>14 DEF s, Target
  <2>2. Apart(c, d, a)
    <3> SUFFICES ASSUME NEW b \in Csr!Registers \ {"time"}
                 PROVE  Differ(ReadOf(c, b), ReadOf(d, b)) \subseteq Shared(a, b)
      BY DEF Apart
    <3> QED BY <1>8, <1>9, <1>14, <2>1
  <2>3. ReadOf(c, a) = c[a] /\ ReadOf(d, a) = w
    BY <1>2, <1>14, <2>1 DEF ReadOf
  <2>4. CASE a \in {"pmpaddr0", "pmpaddr1"}
    <3>1. w = v \cap (0 .. 53) /\ Writable(a) = 0 .. 53
      BY <2>4 DEF w, New, Writable
    <3>2. c[a] \subseteq 0 .. 53 => Csr!Merge(c[a], v, 0 .. 53) = v \cap (0 .. 53)
      BY DEF Csr!Merge
    <3> QED BY <2>2, <2>3, <2>4, <3>1, <3>2
  <2>5. CASE a \notin {"pmpaddr0", "pmpaddr1", "satp"}
    <3>1. w = v /\ Writable(a) = 0 .. 63
      BY <1>14, <2>5 DEF w, New, Writable
    <3>2. c[a] \subseteq Bits
      BY <1>4 DEF Changeable
    <3> QED BY <1>6, <1>7, <2>2, <2>3, <2>5, <3>1, <3>2
  <2> QED BY <2>2, <2>4, <2>5
<1> QED BY <1>10, <1>11, <1>12, <1>13, <1>14

(* A write of v to a, which turns f into t.                                  *)
Wrote(f, t, a, v) ==
  /\ CsrGood(t) /\ SameOtherwise(f, t) /\ StaysDerived(f, t) /\ Apart(f.csr, t.csr, a)
  /\ a \notin {"sip", "sie", "satp"} => ReadOf(t.csr, a) = Csr!Merge(ReadOf(f.csr, a), v, Writable(a))

(* Every writable register is written as Wrote says.                         *)
LEMMA WriteDoes ==
  ASSUME NEW f, CsrGood(f), NEW a \in Csr!Registers \ {"time", "mhartid"}, NEW v \in SUBSET Bits
  PROVE  \E t : Csr!write_csr(f, a, v) = {t} /\ Wrote(f, t, a, v)
<1> DEFINE t == Csr!WriteCallback(Csr!Stored(f, a, v), a)
<1>1. Csr!write_csr(f, a, v) = {t}
  BY DEF Csr!write_csr
<1>2. f.csr \in [Csr!Registers -> SUBSET Bits]
  BY DEF CsrGood, CsrRecord
<1>3. CASE a # "stimecmp"
  <2>1. a \in Changeable
    BY <1>3 DEF Changeable
  <2>2. CsrGood(t) /\ Moved(f, t, Target(a), New(f.csr, a, v)) /\ StaysDerived(f, t)
    BY <2>1, Written
  <2> HIDE DEF t
  <2>3. t.csr = [f.csr EXCEPT ![Target(a)] = New(f.csr, a, v)] /\ SameOtherwise(f, t)
        /\ t.csr \in [Csr!Registers -> SUBSET Bits]
    BY <2>2 DEF Moved, CsrGood, CsrRecord
  <2>4. a \in {"pmpaddr0", "pmpaddr1"} => f.csr[a] \subseteq 0 .. 53
    BY DEF CsrGood
  <2>5. /\ Apart(f.csr, t.csr, a)
        /\ a \notin {"sip", "sie", "satp"} => ReadOf(t.csr, a) = Csr!Merge(ReadOf(f.csr, a), v, Writable(a))
    BY <1>2, <2>1, <2>3, <2>4, WriteApart
  <2>6. Wrote(f, t, a, v)
    BY <2>2, <2>3, <2>5 DEF Wrote
  <2> QED BY <1>1, <2>6
<1>4. CASE a = "stimecmp"
  <2>1. /\ CsrGood(t) /\ SameOtherwise(f, t) /\ StaysDerived(f, t)
        /\ t.csr["stimecmp"] = v
        /\ t.csr["mip"] = f.csr["mip"] \ {Csr!TIMER_S}
        /\ \A b \in Csr!Registers \ {"stimecmp", "mip"} : t.csr[b] = f.csr[b]
    BY <1>4, WrittenTimer
  <2> HIDE DEF t
  <2>2. {"stimecmp", "mip", "mstatus", "fcsr"} \subseteq Csr!Registers
    BY DEF Csr!Registers, Csr!PmpCfgs
  <2>3. \A b \in Csr!Registers \ {"stimecmp", "mip"} : ReadOf(t.csr, b) = ReadOf(f.csr, b)
    BY <2>1, <2>2 DEF ReadOf
  <2>4. /\ ReadOf(t.csr, "stimecmp") = v
        /\ ReadOf(f.csr, "mip") = f.csr["mip"] /\ ReadOf(t.csr, "mip") = f.csr["mip"] \ {Csr!TIMER_S}
    BY <2>1 DEF ReadOf
  <2>5. ReadOf(f.csr, "stimecmp") \subseteq Bits
    BY <1>2, <2>2, ReadBits
  <2>6. /\ Shared("stimecmp", "mip") = {Csr!TIMER_S} /\ Shared("stimecmp", "stimecmp") = 0 .. 63
        /\ Writable("stimecmp") = 0 .. 63
    BY DEF Shared, Writable
  <2>7. Apart(f.csr, t.csr, a)
    <3> SUFFICES ASSUME NEW b \in Csr!Registers \ {"time"}
                 PROVE  Differ(ReadOf(f.csr, b), ReadOf(t.csr, b)) \subseteq Shared("stimecmp", b)
      BY <1>4 DEF Apart
    <3>1. CASE b = "stimecmp"
      BY <2>4, <2>5, <2>6, <3>1, DifferBits
    <3>2. CASE b = "mip"
      <4>1. \A x, y : Differ(x, x \ y) \subseteq y
        BY DEF Differ
      <4> QED BY <2>4, <2>6, <3>2, <4>1
    <3>3. CASE b \notin {"stimecmp", "mip"}
      <4>1. Differ(ReadOf(f.csr, b), ReadOf(t.csr, b)) = {}
        BY <2>3, <3>3, DifferBits
      <4> QED BY <4>1
    <3> QED BY <3>1, <3>2, <3>3
  <2>8. ReadOf(t.csr, a) = Csr!Merge(ReadOf(f.csr, a), v, Writable(a))
    <3>1. \A x : x \subseteq Bits => Csr!Merge(x, v, 0 .. 63) = v
      BY DEF Csr!Merge, Bits
    <3> QED BY <1>4, <2>4, <2>5, <2>6, <3>1
  <2>9. Wrote(f, t, a, v)
    BY <2>1, <2>7, <2>8 DEF Wrote
  <2> QED BY <1>1, <2>9
<1> QED BY <1>3, <1>4

(* What may differ from f beside its CSRs.                                   *)
Beside(f, y) ==
  [csr : [Csr!Registers -> SUBSET Bits], privMode : {0, 1, 3}, copy : {f.copy},
   translate : {f.translate}, pmp : {f.pmp}, timer : {f.timer}, rd : {y}, invalid : BOOLEAN]

(* A hart with the same registers and mode is as good.                       *)
LEMMA Aside ==
  ASSUME NEW f, CsrGood(f), NEW y, NEW g \in Beside(f, y), g.csr = f.csr, g.privMode = f.privMode
  PROVE  CsrGood(g) /\ StaysDerived(f, g) /\ StaysDerived(g, f)
<1>1. f.pmp = Csr!PmpList(f) /\ f.csr["pmpaddr0"] \subseteq 0 .. 53 /\ f.csr["pmpaddr1"] \subseteq 0 .. 53
  BY DEF CsrGood
<1>2. g.copy = f.copy /\ g.translate = f.translate /\ g.timer = f.timer /\ g.pmp = f.pmp /\ g.rd = y
  BY DEF Beside
<1>3. CsrRecord(g)
  BY <1>2 DEF CsrRecord, Beside
<1>4. Csr!PmpList(g) = Csr!PmpList(f)
  BY ListOfRegisters
<1>5. \A a : Csr!get_csr_value(g, a) = Csr!get_csr_value(f, a)
  BY DEF Csr!get_csr_value
<1>6. Csr!Copy(g) = Csr!Copy(f) /\ Csr!Translation(g) = Csr!Translation(f)
  BY <1>5, Zenon DEF Csr!Copy, Csr!Translation
<1>7. CsrGood(g)
  BY <1>1, <1>2, <1>3, <1>4 DEF CsrGood
<1> QED BY <1>2, <1>6, <1>7 DEF StaysDerived

(* The write of rd touches no CSR.                                           *)
LEMMA Destination ==
  ASSUME NEW f, CsrGood(f), NEW x
  PROVE  LET g == [f EXCEPT !.rd = x]
         IN  /\ CsrGood(g) /\ g.csr = f.csr /\ g.privMode = f.privMode /\ g.rd = x
             /\ g.invalid = f.invalid /\ StaysDerived(f, g) /\ StaysDerived(g, f)
<1> DEFINE g == [f EXCEPT !.rd = x]
<1>1. f \in Beside(f, f.rd)
  BY DEF CsrGood, CsrRecord, Beside
<1>2. /\ g \in Beside(f, x) /\ g.csr = f.csr /\ g.privMode = f.privMode /\ g.rd = x
      /\ g.invalid = f.invalid
  BY <1>1 DEF Beside
<1> HIDE DEF g
<1>3. CsrGood(g) /\ StaysDerived(f, g) /\ StaysDerived(g, f)
  BY <1>2, Aside
<1> QED BY <1>2, <1>3 DEF g

(* The mark of an invalid instruction touches no CSR.                        *)
LEMMA Validity ==
  ASSUME NEW f, CsrGood(f), NEW b \in BOOLEAN
  PROVE  LET g == [f EXCEPT !.invalid = b]
         IN  /\ CsrGood(g) /\ g.csr = f.csr /\ g.privMode = f.privMode /\ g.rd = f.rd
             /\ g.invalid = b /\ StaysDerived(f, g) /\ StaysDerived(g, f)
             /\ g.copy = f.copy /\ g.translate = f.translate /\ g.timer = f.timer
<1> DEFINE g == [f EXCEPT !.invalid = b]
<1>1. f \in Beside(f, f.rd)
  BY DEF CsrGood, CsrRecord, Beside
<1>2. /\ g \in Beside(f, f.rd) /\ g.csr = f.csr /\ g.privMode = f.privMode /\ g.rd = f.rd
      /\ g.invalid = b
      /\ g.copy = f.copy /\ g.translate = f.translate /\ g.timer = f.timer
  BY <1>1 DEF Beside
<1> HIDE DEF g
<1>3. CsrGood(g) /\ StaysDerived(f, g) /\ StaysDerived(g, f)
  BY <1>2, Aside
<1> QED BY <1>2, <1>3 DEF g

(* An instruction, and what it may make of f.                                *)
CsrInstruction(i) ==
  /\ i.op \in Zicsr /\ i.src \in SUBSET Bits /\ i.noWrite \in BOOLEAN /\ i.toX0 \in BOOLEAN
  /\ i.noWrite => i.src = {}
  /\ i.op \in {"csrrwi", "csrrsi", "csrrci"} => ~i.toX0

Completes(f, i, t) ==
  /\ CsrGood(t) /\ t.invalid = FALSE /\ i.csr \in Csr!Registers /\ t.privMode = f.privMode
  /\ StaysDerived(f, t)
  /\ i.toX0 => t.rd = f.rd
  /\ ~i.toX0 => Csr!read_csr(f, i.csr) = {t.rd}
  /\ i.csr = "time" => t.csr = f.csr /\ Wanted(i, {}) = {} /\ Csr!read_csr(f, i.csr) # {}
  /\ i.csr # "time" =>
       /\ Apart(f.csr, t.csr, i.csr)
       /\ LET old == ReadOf(f.csr, i.csr)
          IN  i.csr \notin {"sip", "sie", "satp"} =>
                ReadOf(t.csr, i.csr) = Csr!Merge(old, Wanted(i, old), Writable(i.csr))

Outcome(f, i, t) == t = Csr!do_invalid_inst(f) \/ Completes(f, i, t)

(* A result that is there is taken, and one that is missing is invalid.      *)
LEMMA Singleton ==
  ASSUME NEW f, NEW t
  PROVE  Csr!CheckSuccess(f, {t}) = t /\ Csr!CheckSuccess(f, {}) = Csr!do_invalid_inst(f)
<1>1. (CHOOSE g \in {t} : TRUE) = t
  OBVIOUS
<1> QED BY <1>1, Zenon DEF Csr!CheckSuccess

(* An instruction that has written its register ends with the destination.   *)
LEMMA Finishes ==
  ASSUME NEW f, CsrGood(f), f.invalid = FALSE, NEW i, CsrInstruction(i),
         i.csr \in Csr!Registers \ {"time", "mhartid"},
         NEW v, ~i.toX0 => v = ReadOf(f.csr, i.csr),
         NEW t, Wrote(f, t, i.csr, Wanted(i, ReadOf(f.csr, i.csr)))
  PROVE  Completes(f, i, Csr!DEST(t, i, v))
<1> DEFINE d == Csr!DEST(t, i, v)
           g == [t EXCEPT !.rd = v]
<1>1. d = IF i.toX0 THEN t ELSE g
  BY DEF Csr!DEST
<1>2. CsrGood(t) /\ SameOtherwise(f, t) /\ StaysDerived(f, t)
  BY DEF Wrote
<1>3. /\ CsrGood(g) /\ g.csr = t.csr /\ g.privMode = t.privMode /\ g.rd = v
      /\ g.invalid = t.invalid /\ StaysDerived(t, g)
  BY <1>2, Destination, Zenon
<1> HIDE DEF g, d
<1>4. StaysDerived(f, g)
  BY <1>2, <1>3 DEF StaysDerived
<1>5. /\ CsrGood(d) /\ d.csr = t.csr /\ d.privMode = f.privMode /\ d.invalid = FALSE /\ StaysDerived(f, d)
      /\ i.toX0 => d.rd = f.rd
      /\ ~i.toX0 => d.rd = v
  BY <1>1, <1>2, <1>3, <1>4 DEF SameOtherwise
<1>6. Csr!read_csr(f, i.csr) = {ReadOf(f.csr, i.csr)}
  BY ReadsOf
<1>7. /\ Apart(f.csr, d.csr, i.csr)
      /\ LET old == ReadOf(f.csr, i.csr)
         IN  i.csr \notin {"sip", "sie", "satp"} =>
               ReadOf(d.csr, i.csr) = Csr!Merge(old, Wanted(i, old), Writable(i.csr))
  BY <1>5 DEF Wrote
<1> QED BY <1>5, <1>6, <1>7 DEF Completes, d

(* csrrw completes or is invalid.                                            *)
LEMMA ReadAndWrite ==
  ASSUME NEW f, CsrGood(f), f.invalid = FALSE, NEW i, CsrInstruction(i), i.op = "csrrw"
  PROVE  Outcome(f, i, Csr!do_csrrw(f, i))
<1> DEFINE old == IF i.toX0 THEN {{}} ELSE Csr!read_csr(f, i.csr)
           all == {Csr!DEST(g, i, v) : v \in old, g \in Csr!write_csr(f, i.csr, i.src)}
<1>0. Csr!do_csrrw(f, i) =
        IF Csr!csr_read_only(i.csr) THEN Csr!do_invalid_inst(f) ELSE Csr!CheckSuccess(f, all)
  BY SMT DEF Csr!do_csrrw
<1> HIDE DEF all, old
<1>1. CASE Csr!csr_read_only(i.csr)
  BY <1>1 DEF Csr!do_csrrw, Outcome
<1>2. CASE ~Csr!csr_read_only(i.csr) /\ i.csr \notin Csr!Registers
  <2>1. Csr!write_csr(f, i.csr, i.src) = {}
    BY <1>2 DEF Csr!write_csr
  <2>2. all = {}
    BY <2>1 DEF all
  <2> QED BY <1>0, <1>2, <2>2, Singleton DEF Outcome
<1>3. CASE ~Csr!csr_read_only(i.csr) /\ i.csr \in Csr!Registers
  <2> DEFINE v == IF i.toX0 THEN {} ELSE ReadOf(f.csr, i.csr)
  <2>1. i.csr \in Csr!Registers \ {"time", "mhartid"}
    BY <1>3 DEF Csr!csr_read_only
  <2>2. i.src \in SUBSET Bits /\ i.src = Wanted(i, ReadOf(f.csr, i.csr))
    BY DEF CsrInstruction, Wanted
  <2>3. PICK t : Csr!write_csr(f, i.csr, i.src) = {t} /\ Wrote(f, t, i.csr, i.src)
    BY <2>1, <2>2, WriteDoes
  <2>4. old = {v}
    BY <2>1, ReadsOf DEF old
  <2>5. all = {Csr!DEST(t, i, v)}
    BY <2>3, <2>4 DEF all
  <2>6. Csr!do_csrrw(f, i) = Csr!DEST(t, i, v)
    BY <1>0, <1>3, <2>5, Singleton
  <2>7. Completes(f, i, Csr!DEST(t, i, v))
    BY <2>1, <2>2, <2>3, Finishes
  <2> QED BY <2>6, <2>7 DEF Outcome
<1> QED BY <1>1, <1>2, <1>3

(* csrrwi completes or is invalid, though it writes rd before the CSR.       *)
LEMMA ImmediateWrite ==
  ASSUME NEW f, CsrGood(f), f.invalid = FALSE, NEW i, CsrInstruction(i), i.op = "csrrwi"
  PROVE  Outcome(f, i, Csr!do_csrrwi(f, i))
<1>0. ~i.toX0
  BY DEF CsrInstruction
<1> DEFINE begun == {Csr!DEST(f, i, v) : v \in Csr!read_csr(f, i.csr)}
<1>1. CASE Csr!csr_read_only(i.csr)
  BY <1>1 DEF Csr!do_csrrwi, Outcome
<1>2. CASE ~Csr!csr_read_only(i.csr) /\ i.csr \notin Csr!Registers
  <2>1. Csr!read_csr(f, i.csr) = {}
    BY <1>2, ReadsOf
  <2>2. begun = {}
    BY <2>1
  <2> QED BY <1>0, <1>2, <2>2 DEF Csr!do_csrrwi, Outcome
<1>3. CASE ~Csr!csr_read_only(i.csr) /\ i.csr \in Csr!Registers
  <2> DEFINE v == ReadOf(f.csr, i.csr)
             g == [f EXCEPT !.rd = v]
  <2>1. i.csr \in Csr!Registers \ {"time", "mhartid"}
    BY <1>3 DEF Csr!csr_read_only
  <2>2. i.src \in SUBSET Bits /\ i.src = Wanted(i, v)
    BY DEF CsrInstruction, Wanted
  <2>3. Csr!read_csr(f, i.csr) = {v}
    BY <2>1, ReadsOf
  <2>4. begun = {g}
    BY <1>0, <2>3 DEF Csr!DEST
  <2>5. /\ CsrGood(g) /\ g.csr = f.csr /\ g.privMode = f.privMode /\ g.rd = v
        /\ g.invalid = f.invalid /\ StaysDerived(f, g)
    BY Destination, Zenon
  <2>6. PICK t : Csr!write_csr(g, i.csr, i.src) = {t} /\ Wrote(g, t, i.csr, i.src)
    BY <2>1, <2>2, <2>5, WriteDoes
  <2>7. Csr!do_csrrwi(f, i) = t
    <3>1. (CHOOSE h \in begun : TRUE) = g
      BY <2>4
    <3>2. Csr!CheckSuccess(g, Csr!write_csr(g, i.csr, i.src)) = t
      BY <2>6, Singleton
    <3>3. begun # {}
      BY <2>4
    <3> HIDE DEF g
    <3> QED BY <1>0, <1>3, <3>1, <3>2, <3>3, Zenon DEF Csr!do_csrrwi
  <2> HIDE DEF g
  <2>8. /\ CsrGood(t) /\ SameOtherwise(g, t) /\ StaysDerived(g, t) /\ Apart(f.csr, t.csr, i.csr)
        /\ i.csr \notin {"sip", "sie", "satp"} =>
             ReadOf(t.csr, i.csr) = Csr!Merge(v, Wanted(i, v), Writable(i.csr))
    BY <2>2, <2>5, <2>6 DEF Wrote
  <2>9. StaysDerived(f, t)
    BY <2>5, <2>8 DEF StaysDerived
  <2>10. t.invalid = FALSE /\ t.privMode = f.privMode /\ t.rd = v
    BY <2>5, <2>8 DEF SameOtherwise
  <2>11. Completes(f, i, t)
    BY <1>0, <2>1, <2>3, <2>8, <2>9, <2>10 DEF Completes
  <2> QED BY <2>7, <2>11 DEF Outcome
<1> QED BY <1>1, <1>2, <1>3

(* So do the forms of csrrs and csrrc.                                       *)
LEMMA ChangesBits ==
  ASSUME NEW f, CsrGood(f), f.invalid = FALSE, NEW i, CsrInstruction(i),
         NEW sets \in BOOLEAN, i.op \in IF sets THEN {"csrrs", "csrrsi"} ELSE {"csrrc", "csrrci"}
  PROVE  Outcome(f, i, Csr!ReadModifyWrite(f, i, sets))
<1> DEFINE old == Csr!read_csr(f, i.csr)
           new(v) == IF sets THEN v \cup i.src ELSE v \ i.src
           noWrite == {Csr!DEST(f, i, v) : v \in old}
           all == UNION {{Csr!DEST(g, i, v) : g \in Csr!write_csr(f, i.csr, new(v))} : v \in old}
<1>0. /\ Csr!ReadModifyWrite(f, i, sets) =
           IF old = {} \/ (~i.noWrite /\ Csr!csr_read_only(i.csr)) THEN Csr!do_invalid_inst(f)
           ELSE IF i.noWrite THEN Csr!CheckSuccess(f, noWrite) ELSE Csr!CheckSuccess(f, all)
  BY Zenon DEF Csr!ReadModifyWrite
<1>1. f.csr \in [Csr!Registers -> SUBSET Bits]
  BY DEF CsrGood, CsrRecord
<1>2. \A v : Wanted(i, v) = new(v)
  BY DEF Wanted
<1>3. CASE old = {} \/ (~i.noWrite /\ Csr!csr_read_only(i.csr))
  BY <1>0, <1>3 DEF Outcome
<1>4. CASE old # {} /\ i.noWrite
  <2>1. PICK v : old = {v} /\ (i.csr # "time" => v = ReadOf(f.csr, i.csr)) /\ i.csr \in Csr!Registers
    BY <1>4, ReadsOf
  <2> DEFINE d == Csr!DEST(f, i, v)
             g == [f EXCEPT !.rd = v]
  <2>2. noWrite = {d}
    BY <2>1
  <2>3. Csr!ReadModifyWrite(f, i, sets) = d
    BY <1>0, <1>4, <2>2, Singleton
  <2>4. d = IF i.toX0 THEN f ELSE g
    BY DEF Csr!DEST
  <2>5. /\ CsrGood(g) /\ g.csr = f.csr /\ g.privMode = f.privMode /\ g.rd = v
        /\ g.invalid = f.invalid /\ StaysDerived(f, g)
    BY Destination, Zenon
  <2>6. StaysDerived(f, f)
    BY DEF StaysDerived
  <2> HIDE DEF g, d
  <2>7. /\ CsrGood(d) /\ d.csr = f.csr /\ d.privMode = f.privMode /\ d.invalid = FALSE /\ StaysDerived(f, d)
        /\ i.toX0 => d.rd = f.rd
        /\ ~i.toX0 => d.rd = v
    BY <2>4, <2>5, <2>6
  <2>8. i.src = {} /\ \A x : Wanted(i, x) = x
    <3>1. i.src = {}
      BY <1>4 DEF CsrInstruction
    <3> QED BY <1>2, <3>1
  <2>9. Apart(f.csr, d.csr, i.csr)
    <3> SUFFICES ASSUME NEW b \in Csr!Registers \ {"time"}
                 PROVE  Differ(ReadOf(f.csr, b), ReadOf(d.csr, b)) \subseteq Shared(i.csr, b)
      BY DEF Apart
    <3>1. Differ(ReadOf(f.csr, b), ReadOf(d.csr, b)) = {}
      BY <2>7, DifferBits
    <3> QED BY <3>1
  <2>10. \A x, m : Csr!Merge(x, x, m) = x
    BY DEF Csr!Merge
  <2>11. LET x == ReadOf(f.csr, i.csr)
         IN  ReadOf(d.csr, i.csr) = Csr!Merge(x, Wanted(i, x), Writable(i.csr))
    BY <2>7, <2>8, <2>10
  <2>12. Completes(f, i, d)
    BY <1>4, <2>1, <2>7, <2>8, <2>9, <2>11 DEF Completes
  <2> QED BY <2>3, <2>12 DEF Outcome
<1>5. CASE old # {} /\ ~i.noWrite /\ ~Csr!csr_read_only(i.csr)
  <2> DEFINE v == ReadOf(f.csr, i.csr)
  <2>1. i.csr \in Csr!Registers \ {"time", "mhartid"}
    BY <1>5, ReadsOf DEF Csr!csr_read_only
  <2>2. old = {v}
    BY <2>1, ReadsOf
  <2>3. v \in SUBSET Bits
    BY <1>1, <2>1, ReadBits
  <2>4. new(v) \in SUBSET Bits
    <3>1. i.src \in SUBSET Bits
      BY DEF CsrInstruction
    <3> QED BY <2>3, <3>1
  <2> HIDE DEF new
  <2>5. PICK t : Csr!write_csr(f, i.csr, new(v)) = {t} /\ Wrote(f, t, i.csr, new(v))
    BY <2>1, <2>4, WriteDoes
  <2>6. all = {Csr!DEST(t, i, v)}
    BY <2>2, <2>5
  <2>7. Csr!ReadModifyWrite(f, i, sets) = Csr!DEST(t, i, v)
    BY <1>0, <1>5, <2>6, Singleton
  <2>8. Completes(f, i, Csr!DEST(t, i, v))
    BY <1>2, <2>1, <2>5, Finishes
  <2> QED BY <2>7, <2>8 DEF Outcome
<1> QED BY <1>3, <1>4, <1>5

(* So does every CSR instruction.                                            *)
LEMMA Executes ==
  ASSUME NEW f, CsrGood(f), f.invalid = FALSE, NEW i, CsrInstruction(i)
  PROVE  Outcome(f, i, Csr!ExecuteZicsr(f, i))
<1>1. CASE i.op = "csrrw"
  <2>1. Csr!ExecuteZicsr(f, i) = Csr!do_csrrw(f, i)
    BY <1>1 DEF Csr!ExecuteZicsr
  <2> QED BY <1>1, <2>1, ReadAndWrite
<1>2. CASE i.op = "csrrwi"
  <2>1. Csr!ExecuteZicsr(f, i) = Csr!do_csrrwi(f, i)
    BY <1>2 DEF Csr!ExecuteZicsr
  <2> QED BY <1>2, <2>1, ImmediateWrite
<1>3. CASE i.op \in {"csrrs", "csrrsi"}
  <2>1. Csr!ExecuteZicsr(f, i) = Csr!ReadModifyWrite(f, i, TRUE)
    BY <1>3, Zenon DEF Csr!ExecuteZicsr, Csr!do_csrrs, Csr!do_csrrsi
  <2> QED BY <1>3, <2>1, ChangesBits
<1>4. CASE i.op \in {"csrrc", "csrrci"}
  <2>1. Csr!ExecuteZicsr(f, i) = Csr!ReadModifyWrite(f, i, FALSE)
    BY <1>4, Zenon DEF Csr!ExecuteZicsr, Csr!do_csrrc, Csr!do_csrrci
  <2> QED BY <1>4, <2>1, ChangesBits
<1> QED BY <1>1, <1>2, <1>3, <1>4 DEF CsrInstruction, Zicsr

(* The steps of the hart that are no instructions keep CsrGood as well.      *)
LEMMA FocusBits ==
  ASSUME NEW focus \in Focuses, NEW v \in focus.values
  PROVE  v \in SUBSET Bits
<1>1. {{{1, 3}, {1, 5, 11}, {3, 18}}, {{0, 5}, {0, 3, 9, 12}}, {{2, 63}, {3, 62, 63}, {1, 45, 60, 63}}}
        \subseteq SUBSET (SUBSET Bits)
  BY SMT DEF Bits
<1>2. {{{0, 1}, {0, 5, 6}, {2, 7}}, {{1}, {63}}, {{0, 3}, {0, 3, 11}, {3, 4, 12}, {1, 54}}}
        \subseteq SUBSET (SUBSET Bits)
  BY SMT DEF Bits
<1>3. focus.values \in {{{1, 3}, {1, 5, 11}, {3, 18}}, {{0, 5}, {0, 3, 9, 12}},
                        {{2, 63}, {3, 62, 63}, {1, 45, 60, 63}}}
   \/ focus.values \in {{{0, 1}, {0, 5, 6}, {2, 7}}, {{1}, {63}},
                        {{0, 3}, {0, 3, 11}, {3, 4, 12}, {1, 54}}}
  <2>1. \A c, x : focus = [csrs |-> c, values |-> x] => focus.values = x
    OBVIOUS
  <2> QED BY <2>1, Zenon DEF Focuses
<1> QED BY <1>1, <1>2, <1>3, Zenon

(* The instructions that the steps take.                                     *)
LEMMA InstructionBits ==
  ASSUME NEW focus \in Focuses, NEW i \in CsrInstructions(focus)
  PROVE  CsrInstruction(i)
<1>1. \A v \in focus.values : v \in SUBSET Bits
  BY FocusBits
<1>2. {} \in SUBSET Bits
  OBVIOUS
<1>3. CASE i \in [op : {"csrrw", "csrrs", "csrrc"}, csr : focus.csrs, src : focus.values,
                  noWrite : {FALSE}, toX0 : BOOLEAN]
  BY <1>1, <1>3 DEF CsrInstruction, Zicsr
<1>4. CASE i \in [op : {"csrrwi", "csrrsi", "csrrci"}, csr : focus.csrs,
                  src : {v \in focus.values : v \subseteq 0 .. 4}, noWrite : {FALSE}, toX0 : {FALSE}]
  BY <1>1, <1>4 DEF CsrInstruction, Zicsr
<1>5. CASE i \in [op : Zicsr, csr : focus.csrs, src : {{}}, noWrite : {TRUE}, toX0 : {FALSE}]
  BY <1>2, <1>5 DEF CsrInstruction, Zicsr
<1> QED BY <1>3, <1>4, <1>5 DEF CsrInstructions

(* A change of mode changes no register.                                     *)
LEMMA ModeKeeps ==
  ASSUME NEW f, CsrGood(f), NEW mode \in {0, 1, 3}
  PROVE  CsrGood(Csr!set_priv_mode(f, mode))
<1> DEFINE Regs == Csr!Registers
           Vals == SUBSET Bits
           g == [f EXCEPT !.privMode = mode]
           t == Csr!update_vm_translate(g)
<1>1. f \in [csr : [Regs -> Vals], privMode : {0, 1, 3}, copy : {f.copy},
         translate : {f.translate}, pmp : {f.pmp}, timer : {f.timer}, rd : {f.rd}, invalid : BOOLEAN]
  BY DEF CsrGood, CsrRecord
<1> HIDE DEF Regs, Vals
<1>2. /\ g \in [csr : [Regs -> Vals], privMode : {0, 1, 3}, copy : {f.copy},
         translate : {f.translate}, pmp : {f.pmp}, timer : {f.timer}, rd : {f.rd}, invalid : BOOLEAN]
      /\ g.csr = f.csr /\ g.copy = f.copy /\ g.translate = f.translate /\ g.pmp = f.pmp
      /\ g.timer = f.timer /\ g.rd = f.rd
  BY <1>1
<1> HIDE DEF g
<1>3. CsrRecord(g)
  BY <1>2 DEF CsrRecord, Regs, Vals
<1>4. CsrRecord(t) /\ t.csr = g.csr /\ t.pmp = g.pmp
  BY <1>3, Callbacks
<1> HIDE DEF t
<1>5. Csr!PmpList(t) = Csr!PmpList(f)
  BY <1>2, <1>4, ListOfRegisters
<1>6. CsrGood(t)
  BY <1>2, <1>4, <1>5 DEF CsrGood
<1> QED BY <1>6, Zenon DEF Csr!set_priv_mode, t, g

(* A store past the functions keeps the PMP list if it is no PMP register.   *)
LEMMA StoreKeeps ==
  ASSUME NEW f, CsrGood(f), NEW s \in Csr!Registers, s \notin {"pmpcfg0", "pmpaddr0", "pmpaddr1"},
         NEW w \in SUBSET Bits
  PROVE  CsrGood(Csr!set_csr_value(f, s, w))
<1> DEFINE g == Csr!set_csr_value(f, s, w)
<1>1. CsrRecord(f)
  BY DEF CsrGood
<1>2. Moved(f, g, s, w) /\ g.pmp = f.pmp
  BY <1>1, SetSlot
<1> HIDE DEF g
<1>3. CsrRecord(g)
  BY <1>2 DEF Moved
<1>4. Csr!PmpList(g) = Csr!PmpList(f) /\ \A b \in Csr!Registers : b # s => g.csr[b] = f.csr[b]
  BY <1>1, <1>2, StillDerived
<1>5. "pmpaddr0" \in Csr!Registers /\ "pmpaddr1" \in Csr!Registers
  BY DEF Csr!Registers
<1>6. CsrGood(g)
  BY <1>2, <1>3, <1>4, <1>5 DEF CsrGood
<1> QED BY <1>6 DEF g

(* An interrupt set or cleared by a device changes mip only.                 *)
LEMMA InterruptKeeps ==
  ASSUME NEW f, CsrGood(f)
  PROVE  CsrGood(Csr!set_interrupt(f, 11)) /\ CsrGood(Csr!clear_interrupt(f, 11))
<1> DEFINE up == f.csr["mip"] \cup {11}
           down == f.csr["mip"] \ {11}
<1>1. "mip" \in Csr!Registers
  BY DEF Csr!Registers
<1>2. f.csr["mip"] \in SUBSET Bits
  BY <1>1 DEF CsrGood, CsrRecord
<1>3. up \in SUBSET Bits /\ down \in SUBSET Bits
  <2>1. 11 \in Bits
    BY SMT DEF Bits
  <2> QED BY <1>2, <2>1
<1>4. Csr!set_interrupt(f, 11) = Csr!set_csr_value(f, "mip", up)
  BY DEF Csr!set_interrupt, Csr!set_csr_value, CsrGood, CsrRecord
<1>5. Csr!clear_interrupt(f, 11) = Csr!set_csr_value(f, "mip", down)
  BY DEF Csr!clear_interrupt, Csr!set_csr_value, CsrGood, CsrRecord
<1> HIDE DEF up, down
<1> QED BY <1>1, <1>3, <1>4, <1>5, StoreKeeps

(* Reset turns all registers off but two bits of mstatus.                    *)
ResetRegisters == [a \in Csr!Registers |-> Csr!ResetValue(a)]

(* A reset turns all PMP entries off with the registers.                     *)
LEMMA ResetKeeps ==
  ASSUME NEW f, CsrRecord(f)
  PROVE  CsrGood(Csr!reset(f))
<1> DEFINE c == ResetRegisters
           n == <<>>
           m == Csr!MACHINE
           Regs == Csr!Registers
           Vals == SUBSET Bits
           t == [f EXCEPT !.csr = c, !.pmp = n, !.privMode = m]
<1>1. /\ c \in [Regs -> Vals] /\ c["pmpcfg0"] = {} /\ c["pmpaddr0"] = {} /\ c["pmpaddr1"] = {}
  <2>1. {11, 12} \in SUBSET Bits
    BY SMT DEF Bits
  <2>2. \A a : Csr!ResetValue(a) \in SUBSET Bits
    BY <2>1 DEF Csr!ResetValue
  <2>3. "pmpcfg0" \in Csr!Registers /\ "pmpaddr0" \in Csr!Registers /\ "pmpaddr1" \in Csr!Registers
    BY DEF Csr!Registers, Csr!PmpCfgs
  <2>4. \A a \in {"pmpcfg0", "pmpaddr0", "pmpaddr1"} : Csr!ResetValue(a) = {}
    BY DEF Csr!ResetValue
  <2> QED BY <2>2, <2>3, <2>4 DEF ResetRegisters
<1>2. Csr!reset(f) = t
  BY Zenon DEF Csr!reset, ResetRegisters
<1>3. m \in {0, 1, 3}
  BY DEF Csr!MACHINE
<1>4. f \in [csr : [Regs -> Vals], privMode : {0, 1, 3}, copy : {f.copy},
         translate : {f.translate}, pmp : {f.pmp}, timer : {f.timer}, rd : {f.rd}, invalid : BOOLEAN]
  BY DEF CsrRecord
<1> HIDE DEF c, n, m, Regs, Vals
<1>5. /\ t \in [csr : [Regs -> Vals], privMode : {0, 1, 3}, copy : {f.copy},
         translate : {f.translate}, pmp : {n}, timer : {f.timer}, rd : {f.rd}, invalid : BOOLEAN]
      /\ t.csr = c /\ t.copy = f.copy /\ t.translate = f.translate /\ t.pmp = n
      /\ t.timer = f.timer /\ t.rd = f.rd
  BY <1>1, <1>3, <1>4
<1> HIDE DEF t
<1>6. CsrRecord(t)
  BY <1>5 DEF CsrRecord, Regs, Vals
<1>7. Csr!PmpList(t) = n
  <2>1. Csr!get_csr_value(t, "pmpcfg0") = {}
    BY <1>1, <1>5 DEF Csr!get_csr_value
  <2> DEFINE addrs == [k \in 1 .. Len(Csr!PmpAddrs) |-> Csr!get_csr_value(t, Csr!PmpAddrs[k])]
  <2>2. Csr!PmpList(t) = Csr!PmpEntries(Csr!get_csr_value(t, "pmpcfg0"), addrs)
    BY Zenon DEF Csr!PmpList
  <2> HIDE DEF addrs
  <2>3. Csr!PmpEntries({}, addrs) = <<>>
    BY NoEntries
  <2> QED BY <2>1, <2>2, <2>3 DEF n
<1> QED BY <1>1, <1>2, <1>5, <1>6, <1>7 DEF CsrGood

(* A hart boots into a good state.                                           *)
LEMMA BootGood ==
  ASSUME NEW copy
  PROVE  CsrGood(Csr!Booted(copy))
<1> DEFINE none == [a \in Csr!Registers |-> {}]
           bare == [base |-> {}, mode |-> {}]
           f == [csr |-> none, privMode |-> Csr!MACHINE, copy |-> copy, translate |-> bare,
                 pmp |-> <<>>, timer |-> {}, rd |-> {}, invalid |-> FALSE]
<1>1. none \in [Csr!Registers -> SUBSET Bits] /\ Csr!MACHINE \in {0, 1, 3}
  BY DEF Csr!MACHINE
<1>2. Csr!Booted(copy) = Csr!reset(f)
  BY Zenon DEF Csr!Booted
<1> HIDE DEF none, bare
<1>3. CsrRecord(f)
  BY <1>1 DEF CsrRecord
<1> HIDE DEF f
<1> QED BY <1>2, <1>3, ResetKeeps

(* While the hart takes steps with its CSRs they are as CsrGood says.        *)
CsrState ==
  unit = "csr" =>
    /\ CsrGood(hart)
    /\ input \in [focus : Focuses, left : {input.left}, last : {input.last}]

(* CsrState is inductive.                                                    *)
LEMMA CsrInductive ==
  CsrState /\ [HartNext \/ Elsewhere]_hartVars => CsrState'
<1> SUFFICES ASSUME CsrState, [HartNext \/ Elsewhere]_hartVars, unit' = "csr" PROVE CsrState'
  BY Zenon DEF CsrState
<1>1. CASE UNCHANGED hartVars
  BY <1>1 DEF CsrState, hartVars
<1>2. CASE Elsewhere
  BY <1>2 DEF Elsewhere, HartUnitNames
<1>3. CASE Calculate \/ ExecuteCompressed \/ ExecuteLoongArch \/ CalculateFloat
  BY <1>3 DEF Calculate, ExecuteCompressed, ExecuteLoongArch, CalculateFloat, Pick
<1>4. CASE BootHart
  <2>1. PICK focus \in Focuses, copy \in Copies :
          /\ input' = [focus |-> focus, left |-> CsrSteps, last |-> [op |-> "boot"]]
          /\ hart' = Csr!Booted(copy)
    BY <1>4, Zenon DEF BootHart
  <2>2. CsrGood(hart')
    BY <2>1, BootGood
  <2>3. input' \in [focus : Focuses, left : {input'.left}, last : {input'.last}]
    BY <2>1
  <2> QED BY <2>2, <2>3 DEF CsrState
<1>5. ASSUME unit = "csr"
      PROVE  CsrGood(Valid)
  BY <1>5, Validity DEF CsrState, Valid
<1>6. ASSUME NEW last, NEW after, HartStep(last, after), CsrGood(after)
      PROVE  CsrState'
  <2>1. /\ unit = "csr" /\ input' = [input EXCEPT !.left = @ - 1, !.last = last]
        /\ hart' = after
    BY <1>6 DEF HartStep
  <2>2. input \in [focus : Focuses, left : {input.left}, last : {input.last}]
    BY <2>1 DEF CsrState
  <2>3. input' \in [focus : Focuses, left : {input'.left}, last : {input'.last}]
    BY <2>1, <2>2
  <2> QED BY <1>6, <2>1, <2>3 DEF CsrState
<1>7. CASE ExecuteCsr
  <2>1. PICK i \in CsrInstructions(input.focus) : HartStep(i, Csr!ExecuteZicsr(Valid, i))
    BY <1>7 DEF ExecuteCsr
  <2>2. unit = "csr" /\ input.focus \in Focuses
    BY <2>1 DEF HartStep, CsrState
  <2>3. CsrInstruction(i)
    BY <2>2, InstructionBits
  <2>4. CsrGood(Valid) /\ Valid.invalid = FALSE
    BY <2>2, Validity DEF CsrState, Valid
  <2>5. Outcome(Valid, i, Csr!ExecuteZicsr(Valid, i))
    BY <2>3, <2>4, Executes
  <2>6. CsrGood(Csr!do_invalid_inst(Valid))
    BY <2>4, Validity DEF Csr!do_invalid_inst
  <2>7. CsrGood(Csr!ExecuteZicsr(Valid, i))
    BY <2>5, <2>6 DEF Outcome, Completes
  <2> QED BY <1>6, <2>1, <2>7
<1>8. CASE EnterMode
  <2>1. PICK mode \in {0, 1, 3} : HartStep([op |-> "mode"], Csr!set_priv_mode(Valid, mode))
    BY <1>8, Zenon DEF EnterMode
  <2>2. CsrGood(Csr!set_priv_mode(Valid, mode))
    BY <1>5, <2>1, ModeKeeps DEF HartStep
  <2> QED BY <1>6, <2>1, <2>2
<1>9. CASE ResetHart
  <2>1. HartStep([op |-> "reset"], Csr!reset(Valid))
    BY <1>9 DEF ResetHart
  <2>2. CsrGood(Csr!reset(Valid))
    BY <1>5, <2>1, ResetKeeps DEF HartStep, CsrGood
  <2> QED BY <1>6, <2>1, <2>2
<1>10. CASE Debug
  <2>1. PICK a \in input.focus.csrs, v \in input.focus.values :
          HartStep([op |-> "debugger"], Csr!set_register(Valid, a, IF a = "satp" THEN Csr!Satp(v) ELSE v))
    BY <1>10, Zenon DEF Debug
  <2> DEFINE w == IF a = "satp" THEN Csr!Satp(v) ELSE v
  <2>2. unit = "csr" /\ input.focus \in Focuses /\ CsrGood(Valid)
    BY <1>5, <2>1 DEF HartStep, CsrState
  <2>3. w \in SUBSET Bits
    <3>1. v \in SUBSET Bits
      BY <2>2, FocusBits
    <3>2. Csr!Satp(v) \subseteq v
      BY DEF Csr!Satp
    <3> QED BY <3>1, <3>2
  <2> HIDE DEF w
  <2>4. Csr!Settable \subseteq Csr!Registers \ {"pmpcfg0", "pmpaddr0", "pmpaddr1"}
    BY DEF Csr!Settable, Csr!Registers, Csr!PmpCfgs
  <2>5. CsrGood(Csr!set_register(Valid, a, w))
    <3>1. CASE a \in Csr!Settable
      <4>1. Csr!set_register(Valid, a, w) = Csr!set_csr_value(Valid, a, w)
        BY <3>1, Zenon DEF Csr!set_register
      <4> QED BY <2>2, <2>3, <2>4, <3>1, <4>1, StoreKeeps
    <3>2. CASE a \notin Csr!Settable
      <4>1. Csr!set_register(Valid, a, w) = Valid
        BY <3>2, Zenon DEF Csr!set_register
      <4> QED BY <2>2, <4>1
    <3> QED BY <3>1, <3>2
  <2> QED BY <1>6, <2>1, <2>5, Zenon DEF w
<1>11. CASE Raise
  <2>1. HartStep([op |-> "interrupt"], Csr!set_interrupt(Valid, 11))
    BY <1>11 DEF Raise
  <2>2. CsrGood(Csr!set_interrupt(Valid, 11))
    BY <1>5, <2>1, InterruptKeeps DEF HartStep
  <2> QED BY <1>6, <2>1, <2>2
<1>12. CASE Lower
  <2>1. HartStep([op |-> "interrupt"], Csr!clear_interrupt(Valid, 11))
    BY <1>12 DEF Lower
  <2>2. CsrGood(Csr!clear_interrupt(Valid, 11))
    BY <1>5, <2>1, InterruptKeeps DEF HartStep
  <2> QED BY <1>6, <2>1, <2>2
<1> QED BY <1>1, <1>2, <1>3, <1>4, <1>7, <1>8, <1>9, <1>10, <1>11, <1>12 DEF HartNext

-----------------------------------------------------------------------------
(* CsrsKeepApart of one step from f to t.                                    *)
Kept(f, t, i) ==
  LET Read(g, a) == Csr!read_csr(g, a)
      Only(s) == CHOOSE v \in s : TRUE
  IN  /\ t.invalid => t = [f EXCEPT !.invalid = TRUE]
      /\ ~t.invalid /\ ~i.toX0 => Read(f, i.csr) = {t.rd}
      /\ i.toX0 => t.rd = f.rd
      /\ ~t.invalid /\ i.csr \notin {"sip", "sie", "satp"} =>
            LET old == Only(Read(f, i.csr))
            IN  Read(t, i.csr) = {Csr!Merge(old, Wanted(i, old), Writable(i.csr))}
      /\ \A b \in Csr!Registers :
            Read(f, b) # {} /\ Read(t, b) # {} =>
              Differ(Only(Read(f, b)), Only(Read(t, b))) \subseteq Shared(i.csr, b)
      /\ f.copy = Csr!Copy(f) => t.copy = Csr!Copy(t)
      /\ f.translate = Csr!Translation(f) => t.translate = Csr!Translation(t)
      /\ t.pmp = Csr!PmpList(t)
      /\ f.timer = f.csr["stimecmp"] => t.timer = t.csr["stimecmp"]

(* Reads look at registers and mode only.                                    *)
LEMMA SameReads ==
  ASSUME NEW f, NEW g, f.csr = g.csr, f.privMode = g.privMode, NEW a
  PROVE  Csr!read_csr(f, a) = Csr!read_csr(g, a)
<1>1. \A b : Csr!get_csr_value(f, b) = Csr!get_csr_value(g, b)
  BY DEF Csr!get_csr_value
<1>2. Csr!time_readable(f) <=> Csr!time_readable(g)
  BY <1>1, Zenon DEF Csr!time_readable
<1>3. CASE a = "time"
  <2>1. ASSUME NEW h
        PROVE  Csr!read_csr(h, "time") = IF Csr!time_readable(h) THEN {{}} ELSE {}
    <3>1. /\ "time" \in Csr!Registers
          /\ "time" # "sstatus" /\ "time" # "fflags" /\ "time" # "frm"
      BY DEF Csr!Registers
    <3>2. CASE Csr!time_readable(h)
      BY <3>1, <3>2 DEF Csr!read_csr
    <3>3. CASE ~Csr!time_readable(h)
      BY <3>1, <3>3 DEF Csr!read_csr
    <3> QED BY <3>2, <3>3
  <2> QED BY <1>2, <1>3, <2>1
<1>4. CASE a # "time"
  <2>1. ReadOf(f.csr, a) = ReadOf(g.csr, a)
    OBVIOUS
  <2> QED BY <1>4, <2>1, ReadsOf
<1> QED BY <1>3, <1>4

(* One instruction keeps the registers apart.                                *)
LEMMA InstructionKeeps ==
  ASSUME NEW f, CsrGood(f), NEW i, CsrInstruction(i), NEW t,
         Outcome([f EXCEPT !.invalid = FALSE], i, t)
  PROVE  Kept(f, t, i)
<1> DEFINE g == [f EXCEPT !.invalid = FALSE]
           Only(s) == CHOOSE v \in s : TRUE
<1>1. /\ CsrGood(g) /\ g.csr = f.csr /\ g.privMode = f.privMode /\ g.rd = f.rd
      /\ g.invalid = FALSE /\ StaysDerived(f, g) /\ StaysDerived(g, f)
      /\ g.copy = f.copy /\ g.translate = f.translate /\ g.timer = f.timer
  BY Validity
<1>2. \A a : Csr!read_csr(f, a) = Csr!read_csr(g, a)
  BY <1>1, SameReads
<1>3. \A v : Only({v}) = v
  OBVIOUS
<1>4. CASE t = Csr!do_invalid_inst(g)
  <2>1. t = [f EXCEPT !.invalid = TRUE]
    BY <1>4 DEF Csr!do_invalid_inst, CsrGood, CsrRecord
  <2>2. /\ CsrGood(t) /\ t.csr = f.csr /\ t.privMode = f.privMode /\ t.rd = f.rd
        /\ t.invalid = TRUE /\ StaysDerived(f, t)
    BY <2>1, Validity
  <2>3. \A a : Csr!read_csr(f, a) = Csr!read_csr(t, a)
    BY <2>2, SameReads
  <2>4. \A b \in Csr!Registers :
          Differ(Only(Csr!read_csr(f, b)), Only(Csr!read_csr(t, b))) \subseteq Shared(i.csr, b)
    <3> SUFFICES ASSUME NEW b \in Csr!Registers
                 PROVE  Differ(Only(Csr!read_csr(f, b)), Only(Csr!read_csr(t, b))) = {}
      OBVIOUS
    <3> QED BY <2>3, DifferBits
  <2> HIDE DEF g
  <2> QED BY <2>1, <2>2, <2>4, Zenon DEF Kept, StaysDerived, CsrGood
<1>5. CASE Completes(g, i, t)
  <2>1. /\ CsrGood(t) /\ t.invalid = FALSE /\ i.csr \in Csr!Registers /\ t.privMode = f.privMode
        /\ StaysDerived(g, t)
        /\ i.toX0 => t.rd = f.rd
        /\ ~i.toX0 => Csr!read_csr(f, i.csr) = {t.rd}
    BY <1>1, <1>2, <1>5 DEF Completes
  <2>2. StaysDerived(f, t)
    BY <1>1, <2>1 DEF StaysDerived
  <2>3. \A b \in Csr!Registers \ {"time"} :
          Csr!read_csr(f, b) = {ReadOf(f.csr, b)} /\ Csr!read_csr(t, b) = {ReadOf(t.csr, b)}
    BY ReadsOf
  <2>4. \A h : Csr!read_csr(h, "time") # {} => Only(Csr!read_csr(h, "time")) = {}
    <3> SUFFICES ASSUME NEW h, Csr!read_csr(h, "time") # {}
                 PROVE  Only(Csr!read_csr(h, "time")) = {}
      OBVIOUS
    <3>1. Csr!read_csr(h, "time") = {{}}
      BY ReadsOf
    <3> QED BY <1>3, <3>1
  <2>5. i.csr = "time" => t.csr = f.csr /\ Wanted(i, {}) = {}
    BY <1>1, <1>5 DEF Completes
  <2>6. i.csr # "time" => Apart(f.csr, t.csr, i.csr)
    BY <1>1, <1>5 DEF Completes
  <2>7. i.csr \notin {"sip", "sie", "satp", "time"} =>
          LET old == ReadOf(f.csr, i.csr)
          IN  ReadOf(t.csr, i.csr) = Csr!Merge(old, Wanted(i, old), Writable(i.csr))
    BY <1>1, <1>5 DEF Completes
  <2>8. ASSUME NEW b \in Csr!Registers, Csr!read_csr(f, b) # {}, Csr!read_csr(t, b) # {}
        PROVE  Differ(Only(Csr!read_csr(f, b)), Only(Csr!read_csr(t, b))) \subseteq Shared(i.csr, b)
    <3>1. CASE b = "time"
      <4>1. Only(Csr!read_csr(f, b)) = {} /\ Only(Csr!read_csr(t, b)) = {}
        BY <2>4, <2>8, <3>1
      <4> QED BY <4>1, DifferBits
    <3>2. CASE b # "time"
      <4>1. Only(Csr!read_csr(f, b)) = ReadOf(f.csr, b) /\ Only(Csr!read_csr(t, b)) = ReadOf(t.csr, b)
        BY <1>3, <2>3, <3>2
      <4>2. CASE i.csr = "time"
        BY <2>5, <4>1, <4>2, DifferBits
      <4>3. CASE i.csr # "time"
        BY <2>6, <3>2, <4>1, <4>3 DEF Apart
      <4> QED BY <4>2, <4>3
    <3> QED BY <3>1, <3>2
  <2>9. ASSUME i.csr \notin {"sip", "sie", "satp"}
        PROVE  LET old == Only(Csr!read_csr(f, i.csr))
               IN  Csr!read_csr(t, i.csr) = {Csr!Merge(old, Wanted(i, old), Writable(i.csr))}
    <3>1. CASE i.csr = "time"
      <4>1. Csr!read_csr(t, i.csr) = Csr!read_csr(f, i.csr)
        BY <2>1, <2>5, <3>1, SameReads
      <4>2. Csr!read_csr(f, i.csr) # {}
        BY <1>2, <1>5, <3>1 DEF Completes
      <4>3. Csr!read_csr(f, i.csr) = {{}}
        BY <3>1, <4>2, ReadsOf
      <4>4. Csr!Merge({}, {}, Writable(i.csr)) = {}
        BY DEF Csr!Merge
      <4> QED BY <1>3, <2>5, <3>1, <4>1, <4>3, <4>4
    <3>2. CASE i.csr # "time"
      <4>1. Only(Csr!read_csr(f, i.csr)) = ReadOf(f.csr, i.csr)
        BY <1>3, <2>1, <2>3, <3>2
      <4> QED BY <2>1, <2>3, <2>7, <2>9, <3>2, <4>1
    <3> QED BY <3>1, <3>2
  <2> HIDE DEF g
  <2> QED BY <2>1, <2>2, <2>8, <2>9, Zenon DEF Kept, StaysDerived, CsrGood
<1> QED BY <1>4, <1>5 DEF Outcome

(* The registers of a hart share bits only where the manual says, whatever   *)
(* instruction accesses them and whatever the debugger, resets, interrupts   *)
(* and changes of mode left there.                                           *)
THEOREM CsrsApart == HartSpec => CsrsKeepApart
<1> DEFINE body == unit = "csr" /\ input'.last.op \in Zicsr => Kept(hart, hart', input'.last)
<1>1. HartInit => CsrState
  BY DEF HartInit, CsrState
<1>2. CsrState /\ [HartNext \/ Elsewhere]_hartVars => body \/ UNCHANGED hartVars
  <2> SUFFICES ASSUME CsrState, HartNext \/ Elsewhere, unit = "csr", input'.last.op \in Zicsr
               PROVE  Kept(hart, hart', input'.last)
    BY Zenon
  <2>1. CsrGood(hart) /\ input \in [focus : Focuses, left : {input.left}, last : {input.last}]
    BY DEF CsrState
  <2>2. ASSUME NEW last, NEW after, HartStep(last, after)
        PROVE  input'.last = last /\ hart' = after /\ unit = "csr"
    BY <2>1, <2>2 DEF HartStep
  <2>3. ASSUME NEW op, op \notin Zicsr, NEW after PROVE ~HartStep([op |-> op], after)
    BY <2>2, <2>3
  <2>4. {"mode", "reset", "debugger", "interrupt"} \cap Zicsr = {}
    BY DEF Zicsr
  <2>5. ~EnterMode /\ ~ResetHart /\ ~Debug /\ ~Raise /\ ~Lower
    BY <2>3, <2>4, Zenon DEF EnterMode, ResetHart, Debug, Raise, Lower
  <2>6. ~Elsewhere /\ ~BootHart
    BY DEF Elsewhere, HartUnitNames, BootHart
  <2>7. ~Calculate /\ ~ExecuteCompressed /\ ~ExecuteLoongArch /\ ~CalculateFloat
    BY DEF Calculate, ExecuteCompressed, ExecuteLoongArch, CalculateFloat, Pick
  <2>8. PICK i \in CsrInstructions(input.focus) : HartStep(i, Csr!ExecuteZicsr(Valid, i))
    BY <2>5, <2>6, <2>7 DEF HartNext, ExecuteCsr
  <2>9. CsrInstruction(i)
    BY <2>1, InstructionBits
  <2>10. Outcome(Valid, i, Csr!ExecuteZicsr(Valid, i))
    <3>1. CsrGood(Valid) /\ Valid.invalid = FALSE
      BY <2>1, Validity DEF Valid
    <3> QED BY <2>9, <3>1, Executes
  <2> QED BY <2>1, <2>2, <2>8, <2>9, <2>10, InstructionKeeps DEF Valid
<1>3. (body \/ UNCHANGED hartVars) => [unit = "csr" /\ input'.last.op \in Zicsr =>
                                         Kept(hart, hart', input'.last)]_hartVars
  OBVIOUS
<1>4. HartSpec => [][unit = "csr" /\ input'.last.op \in Zicsr => Kept(hart, hart', input'.last)]_hartVars
  BY <1>1, <1>2, CsrInductive, PTL DEF HartSpec
<1> QED BY <1>4, Zenon DEF CsrsKeepApart, Kept

-----------------------------------------------------------------------------
(* Products and quotients.                                                   *)

(* A number within the range of n bits is its own signed value.              *)
LEMMA SignedSmall ==
  ASSUME NEW n \in 1 .. XLEN, NEW v \in (-(2 ^ (n - 1))) .. (2 ^ (n - 1) - 1)
  PROVE  SignedLow(v, n) = v
<1> DEFINE M == 2 ^ n
           H == 2 ^ (n - 1)
           w == v + M
<1>1. M \in Nat \ {0} /\ H \in Nat \ {0} /\ M = 2 * H
  BY Signs, SMT
<1>2. SignedLow(v, n) = IF v % M >= H THEN (v % M) - M ELSE v % M
  BY DEF SignedLow
<1>3. v \in (-H) .. (H - 1)
  OBVIOUS
<1> HIDE DEF M, H, w
<1>4. CASE v >= 0
  <2>1. v \in 0 .. M - 1 /\ 0 \in Int
    BY <1>1, <1>3, <1>4, SMT
  <2>2. M * 0 + v = v
    BY <1>1, <2>1, SMT
  <2>3. v % M = v
    BY <1>1, <2>1, <2>2, Unique
  <2> QED BY <1>1, <1>2, <1>3, <2>3, SMT
<1>5. CASE v < 0
  <2>1. w \in 0 .. M - 1 /\ -1 \in Int /\ w >= H /\ w - M = v /\ M * (-1) + w = v
    BY <1>1, <1>3, <1>5, SMT DEF w
  <2>2. v % M = w
    BY <1>1, <2>1, Unique
  <2> QED BY <1>2, <2>1, <2>2
<1> QED BY <1>3, <1>4, <1>5, <1>1, SMT

(* Written to a register and read back as signed, such a number is the same; *)
(* so is one within the range of half a word.                                *)
LEMMA SignedOfWord ==
  /\ \A v \in (-(2 ^ (XLEN - 1))) .. (2 ^ (XLEN - 1) - 1) : SignedWord(Word(v)) = v
  /\ \A v \in (-(2 ^ (HALF - 1))) .. (2 ^ (HALF - 1) - 1) :
       SignedWord(Word(v)) = v /\ SignedLow(v, HALF) = v
<1> DEFINE H == 2 ^ (XLEN - 1)
           K == 2 ^ (HALF - 1)
           M == 2 ^ XLEN
           N == 2 ^ HALF
<1>1. H \in Nat \ {0} /\ K \in Nat \ {0} /\ M = 2 * H /\ N = 2 * K /\ M = N * N
  <2>1. H \in Nat \ {0} /\ M = 2 * H
    BY Signs, WidthsSigned
  <2>2. K \in Nat \ {0} /\ N = 2 * K
    BY Signs, WidthsSigned
  <2> QED BY <2>1, <2>2, Halves
<1> HIDE DEF H, K, M, N
<1>2. K <= H
  <2>1. N * N >= N
    BY <1>1, SMT
  <2> QED BY <1>1, <2>1, SMT
<1>3. ASSUME NEW v \in (-H) .. (H - 1) PROVE SignedWord(Word(v)) = v
  <2>1. v \in Int
    BY <1>1, SMT
  <2>2. Word(Word(v)) = Word(v)
    <3>1. Word(v) \in Words
      BY <2>1, WordType
    <3>2. \A w \in Words : w \in Int
      BY Widths
    <3> QED BY <3>1, <3>2, WordType
  <2>3. SignedLow(Word(v), XLEN) = SignedLow(v, XLEN)
    BY <2>2 DEF SignedLow, Word
  <2>4. SignedLow(v, XLEN) = v
    BY SignedSmall, WidthsSigned DEF H
  <2> QED BY <2>3, <2>4 DEF SignedWord
<1>4. ASSUME NEW v \in (-K) .. (K - 1) PROVE v \in (-H) .. (H - 1) /\ SignedLow(v, HALF) = v
  <2>1. v \in (-H) .. (H - 1)
    BY <1>1, <1>2, SMT
  <2>2. SignedLow(v, HALF) = v
    BY SignedSmall, WidthsSigned DEF K
  <2> QED BY <2>1, <2>2
<1> QED BY <1>3, <1>4 DEF H, K

(* The signed values of words have the product of the words, but for what    *)
(* does not fit a word.                                                      *)
LEMMA SignedProduct ==
  ASSUME NEW a \in Int, NEW b \in Int
  PROVE  Word(SignedWord(a) * SignedWord(b)) = Word(a * b)
<1> DEFINE M == 2 ^ XLEN
           x == SignedWord(a)
           y == SignedWord(b)
<1>1. ASSUME NEW v \in Int PROVE SignedWord(v) \in Int /\ SignedWord(v) % M = v % M
  <2> DEFINE w == SignedWord(v)
             d == v \div M
             r == v % M
  <2>1. M \in Nat \ {0}
    BY Widths
  <2>2. w \in Int /\ (w = r \/ w = r - M)
    BY SignedType, WidthsSigned DEF SignedWord
  <2>3. d \in Int /\ r \in 0 .. M - 1 /\ v = M * d + r
    <3> HIDE DEF M
    <3> QED BY <2>1, DivMod
  <2> HIDE DEF M, w, d, r
  <2>4. M * 0 + r = r /\ M * (-1) + r = r - M /\ 0 \in Int /\ -1 \in Int
    BY <2>1, <2>3, SMT
  <2>5. w % M = r
    BY <2>1, <2>2, <2>3, <2>4, Unique
  <2> QED BY <2>2, <2>5 DEF w, r
<1>2. M \in Nat \ {0}
  BY Widths
<1>3. x \in Int /\ y \in Int /\ x % M = a % M /\ y % M = b % M
  BY <1>1
<1> HIDE DEF M, x, y
<1>4. (x * y) % M = (a * y) % M /\ (y * a) % M = (b * a) % M
  BY <1>2, <1>3, SameProduct
<1>5. a * y = y * a /\ b * a = a * b
  BY <1>3, SMT
<1> QED BY <1>4, <1>5 DEF Word, M, x, y

(* The high half of a product of signed numbers fits where its factors fit.  *)
LEMMA HighFits ==
  ASSUME NEW h \in Nat \ {0}, NEW x \in (-h) .. (h - 1), NEW y \in (-h) .. (h - 1)
  PROVE  (x * y) \div (2 * h) \in (-h) .. (h - 1)
<1> DEFINE p == x * y
           m == 2 * h
           q == p \div m
           r == p % m
           k == h * h
<1>1. m \in Nat \ {0} /\ p \in Int /\ k \in Nat /\ k >= h /\ m * h = 2 * k /\ m * (-h) = -(2 * k)
  BY SMT
<1>2. -k <= p /\ p <= k
  <2>1. (h - x) * (h - y) >= 0 /\ (h + x) * (h + y) >= 0 /\ (h - x) * (h + y) >= 0 /\ (h + x) * (h - y) >= 0
    BY SMT
  <2>2. /\ (h - x) * (h - y) = k - h * x - h * y + p /\ (h + x) * (h + y) = k + h * x + h * y + p
        /\ (h - x) * (h + y) = k - h * x + h * y - p /\ (h + x) * (h - y) = k + h * x - h * y - p
    BY SMT
  <2>3. h * x \in Int /\ h * y \in Int
    BY SMT
  <2> DEFINE u == h * x
             w == h * y
  <2> HIDE DEF p, k, u, w
  <2>4. k - u - w + p >= 0 /\ k + u + w + p >= 0 /\ k - u + w - p >= 0 /\ k + u - w - p >= 0
    BY <2>1, <2>2 DEF u, w
  <2>5. u \in Int /\ w \in Int
    BY <2>3 DEF u, w
  <2> QED BY <1>1, <2>4, <2>5, SMT
<1> HIDE DEF p, m, k
<1>3. q \in Int /\ r \in 0 .. m - 1 /\ p = m * q + r
  BY <1>1, DivMod
<1> HIDE DEF q, r
<1>4. q < h
  <2>1. q >= h => m * q >= m * h
    BY <1>1, <1>3, SMT
  <2> DEFINE t == m * q
             u == m * h
  <2>2. t \in Int /\ u = 2 * k /\ p = t + r /\ (q >= h => t >= u)
    BY <1>1, <1>3, <2>1, SMT
  <2> HIDE DEF t, u
  <2> QED BY <1>1, <1>2, <1>3, <2>2, SMT
<1>5. q >= -h
  <2>1. q < -h => m * q <= m * (-h) - m
    <3>1. q < -h => m * q <= m * (-h - 1)
      BY <1>1, <1>3, SMT
    <3>2. m * (-h - 1) = m * (-h) - m
      BY <1>1, SMT
    <3> QED BY <3>1, <3>2
  <2> DEFINE t == m * q
             u == m * (-h)
  <2>2. t \in Int /\ u = -(2 * k) /\ p = t + r /\ (q < -h => t <= u - m)
    BY <1>1, <1>3, <2>1, SMT
  <2> HIDE DEF t, u
  <2> QED BY <1>1, <1>2, <1>3, <2>2, SMT
<1>6. q \in (-h) .. (h - 1)
  BY <1>3, <1>4, <1>5, SMT
<1> QED BY <1>6 DEF q, p, m

(* Quotient and remainder of C++ are those of its division toward zero.      *)
LEMMA QuotientDivides ==
  ASSUME NEW x \in Int, NEW y \in Int, y # 0
  PROVE  /\ Quotient(x, y) \in Int /\ Remainder(x, y) \in Int
         /\ Divides(x, y, Quotient(x, y), Remainder(x, y))
         /\ Magnitude(Quotient(x, y)) <= Magnitude(x)
         /\ Magnitude(Quotient(x, y)) = Magnitude(x) /\ x # 0 => Magnitude(y) = 1
<1> DEFINE m == Magnitude(x)
           d == Magnitude(y)
           q == m \div d
           r == m % d
           p == d * q
<1>1. /\ m \in Nat /\ d \in Nat \ {0} /\ m \in Int
      /\ (x < 0 => m = -x) /\ (x >= 0 => m = x) /\ (y < 0 => d = -y) /\ (y >= 0 => d = y)
  BY SMT DEF Magnitude
<1> HIDE DEF m, d
<1>2. q \in Int /\ r \in 0 .. d - 1 /\ m = p + r
  BY <1>1, DivMod
<1>3. Quotient(x, y) = IF (x < 0) = (y < 0) THEN q ELSE -q
  BY DEF Quotient, m, d
<1> HIDE DEF q, r
<1>4. q >= 0
  <2>1. q < 0 => d * q <= -d
    BY <1>1, <1>2, SMT
  <2>2. p \in Int /\ (q < 0 => p <= -d)
    BY <1>1, <1>2, <2>1, SMT
  <2> HIDE DEF p
  <2> QED BY <1>1, <1>2, <2>2, SMT
<1>5. p >= q /\ (d >= 2 => p >= 2 * q) /\ p \in Int
  BY <1>1, <1>2, <1>4, SMT
<1>6. y * Quotient(x, y) = IF x < 0 THEN -p ELSE p
  <2>1. (-d) * q = -p /\ d * (-q) = -p /\ (-d) * (-q) = p
    BY <1>1, <1>2, SMT
  <2>2. y = d \/ y = -d
    BY <1>1, SMT
  <2>3. CASE x < 0 /\ y < 0
    <3>1. y = -d /\ Quotient(x, y) = q
      BY <1>1, <1>3, <2>3, SMT
    <3> HIDE DEF p
    <3> QED BY <2>1, <2>3, <3>1
  <2>4. CASE x < 0 /\ ~(y < 0)
    <3>1. y = d /\ Quotient(x, y) = -q
      BY <1>1, <1>3, <2>4, SMT
    <3> HIDE DEF p
    <3> QED BY <2>1, <2>4, <3>1
  <2>5. CASE ~(x < 0) /\ y < 0
    <3>1. y = -d /\ Quotient(x, y) = -q
      BY <1>1, <1>3, <2>5, SMT
    <3> HIDE DEF p
    <3> QED BY <2>1, <2>5, <3>1
  <2>6. CASE ~(x < 0) /\ ~(y < 0)
    <3>1. y = d /\ Quotient(x, y) = q
      BY <1>1, <1>3, <2>6, SMT
    <3> QED BY <2>6, <3>1
  <2> QED BY <2>3, <2>4, <2>5, <2>6
<1> HIDE DEF p
<1> DEFINE Q == Quotient(x, y)
           R == Remainder(x, y)
           z == y * Q
<1>7. R = x - z /\ Q \in Int /\ z = IF x < 0 THEN -p ELSE p
  BY <1>2, <1>3, <1>6, SMT DEF Remainder
<1>8. Q = q \/ Q = -q
  BY <1>3
<1> HIDE DEF Q, R, z
<1>9. R \in Int /\ R = (IF x < 0 THEN -r ELSE r) /\ x = z + R
  BY <1>1, <1>2, <1>5, <1>7, SMT
<1>10. Magnitude(R) < d /\ (R = 0 \/ (R < 0) = (x < 0)) /\ Magnitude(R) = r
  <2>1. Magnitude(R) = r
    BY <1>1, <1>2, <1>9, SMT DEF Magnitude
  <2>2. r = 0 \/ (R < 0) = (x < 0)
    BY <1>1, <1>2, <1>9, SMT
  <2>3. r = 0 => R = 0
    <3>1. R = (IF x < 0 THEN -r ELSE r)
      BY <1>9
    <3>2. \A k \in Int : -k + k = 0
      BY SMT
    <3>3. r \in Int /\ R \in Int
      BY <1>1, <1>2, <1>9, SMT
    <3>4. R = r \/ R + r = 0
      BY <3>1, <3>2, <3>3
    <3> QED BY <3>3, <3>4, SMT
  <2> QED BY <1>1, <1>2, <2>1, <2>2, <2>3, SMT
<1>11. Magnitude(Q) = q
  BY <1>2, <1>4, <1>8, SMT DEF Magnitude
<1>12. q <= m /\ (q = m /\ x # 0 => d = 1)
  BY <1>1, <1>2, <1>4, <1>5, SMT
<1> QED BY <1>7, <1>9, <1>10, <1>11, <1>12 DEF Divides, Q, R, z, m, d

(* They fit where their operands fit, but for the most negative number       *)
(* divided by -1.                                                            *)
LEMMA QuotientFits ==
  ASSUME NEW h \in Nat \ {0}, NEW x \in (-h) .. (h - 1), NEW y \in (-h) .. (h - 1), y # 0,
         ~(x = -h /\ y = -1)
  PROVE  Quotient(x, y) \in (-h) .. (h - 1) /\ Remainder(x, y) \in (-h) .. (h - 1)
<1> DEFINE Q == Quotient(x, y)
           R == Remainder(x, y)
<1>1. x \in Int /\ y \in Int
  BY SMT
<1>2. /\ Q \in Int /\ R \in Int /\ Magnitude(Q) <= Magnitude(x) /\ Magnitude(R) < Magnitude(y)
      /\ Magnitude(Q) = Magnitude(x) /\ x # 0 => Magnitude(y) = 1
  BY <1>1, QuotientDivides DEF Divides
<1>3. x < 0 /\ ~(y < 0) => Q <= 0
  <2>1. Q = IF (x < 0) = (y < 0) THEN Magnitude(x) \div Magnitude(y) ELSE -(Magnitude(x) \div Magnitude(y))
    BY DEF Quotient
  <2>2. Magnitude(x) \in Nat /\ Magnitude(y) \in Nat \ {0}
    BY <1>1, SMT DEF Magnitude
  <2> DEFINE m == Magnitude(x)
             d == Magnitude(y)
  <2> HIDE DEF m, d
  <2>3. m \div d \in Int /\ m \div d >= 0
    <3>1. m \in Nat /\ d \in Nat \ {0}
      BY <2>2 DEF m, d
    <3> QED BY <3>1, SMT
  <2>4. x < 0 /\ ~(y < 0) => Q = -(m \div d)
    BY <2>1 DEF m, d
  <2> DEFINE k == m \div d
  <2> HIDE DEF k, Q
  <2>5. k \in Int /\ k >= 0 /\ (x < 0 /\ ~(y < 0) => Q = -k)
    BY <2>3, <2>4 DEF k
  <2> QED BY <2>5, SMT
<1> HIDE DEF Q, R
<1>4. R \in (-h) .. (h - 1)
  BY <1>1, <1>2, SMT DEF Magnitude
<1>5. Q \in (-h) .. (h - 1)
  BY <1>1, <1>2, <1>3, SMT DEF Magnitude
<1> QED BY <1>4, <1>5 DEF Q, R

-----------------------------------------------------------------------------
(* Multiplication and division in registers.                                 *)

(* An operation on x1 and x2, and what it writes.                           *)
Operation == [rd |-> 32, rs1 |-> 1, rs2 |-> 2, rj |-> 1, rk |-> 2]

Result(t) == t.gpr[32]

(* What an operation on a and b reads, and that it writes one word.          *)
LEMMA OperationWrites ==
  ASSUME NEW a \in Words, NEW b \in Words, NEW s, s = Hart(a, b)
  PROVE  /\ SRC1(s, Operation) = a /\ SRC2(s, Operation) = b
         /\ RJ(s, Operation) = a /\ RK(s, Operation) = b
         /\ \A v : Result(DEST(s, Operation, v)) = Word(v) /\ Result(Set(s, Operation, v)) = Word(v)
<1>1. s.gpr = [r \in {0, 1, 2, 32} |-> IF r = 1 THEN a ELSE IF r = 2 THEN b ELSE 0]
  BY DEF Hart
<1>2. s \in Harts
  BY HartType
<1>3. Operation.rd = 32 /\ Operation.rs1 = 1 /\ Operation.rs2 = 2 /\ Operation.rj = 1 /\ Operation.rk = 2
  BY DEF Operation
<1>4. s.gpr[1] = a /\ s.gpr[2] = b
  BY <1>1
<1>5. \A v : Result(DEST(s, Operation, v)) = Word(v) /\ Result(Set(s, Operation, v)) = Word(v)
  BY <1>2, <1>3 DEF DEST, Set, set_gpr, Result, Harts
<1> QED BY <1>3, <1>4, <1>5 DEF SRC1, SRC2, RJ, RK

(* What the halves of a product are.                                         *)
LEMMA ProductsAre ==
  ASSUME NEW a \in Words, NEW b \in Words, NEW s, s = Hart(a, b)
  PROVE  /\ Result(do_mul(s, Operation)) = Word(a * b)
         /\ Result(do_mulh(s, Operation)) = Word((SignedWord(a) * SignedWord(b)) \div 2 ^ XLEN)
         /\ Result(do_mulhu(s, Operation)) = Word((a * b) \div 2 ^ XLEN)
         /\ Result(do_mulw(s, Operation)) = Word(Sext(SignedLow(a, HALF) * SignedLow(b, HALF), HALF))
         /\ Result(la_mul_w(s, Operation)) = Word(Low32(SignedLow(a, HALF) * SignedLow(b, HALF)))
         /\ Result(la_mulh_w(s, Operation)) = Word((SignedLow(a, HALF) * SignedLow(b, HALF)) \div 2 ^ HALF)
<1>1. SRC1(s, Operation) = a /\ SRC2(s, Operation) = b /\ RJ(s, Operation) = a /\ RK(s, Operation) = b
  BY OperationWrites
<1>2. \A v : Result(DEST(s, Operation, v)) = Word(v) /\ Result(Set(s, Operation, v)) = Word(v)
  BY OperationWrites
<1> QED BY <1>1, <1>2, Zenon
        DEF do_mul, do_mulh, do_mulhu, do_mulw, la_mul_w, la_mulh_w, Product, HighHalf

(* What the quotients and remainders are for a divisor that is not zero.     *)
LEMMA QuotientsAre ==
  ASSUME NEW a \in Words, NEW b \in Words, b # 0, NEW s, s = Hart(a, b)
  PROVE  /\ Result(do_div(s, Operation)) = Word(Quotient(SignedWord(a), SignedWord(b)))
         /\ Result(do_rem(s, Operation)) = Word(Remainder(SignedWord(a), SignedWord(b)))
         /\ Result(do_divu(s, Operation)) = Word(a \div b)
         /\ Result(do_remu(s, Operation)) = Word(a % b)
         /\ Result(do_divw(s, Operation)) = Word(Sext(Quotient(SignedLow(a, HALF), SignedLow(b, HALF)), HALF))
         /\ Result(do_remw(s, Operation)) = Word(Remainder(SignedLow(a, HALF), SignedLow(b, HALF)))
         /\ Result(do_divuw(s, Operation)) = Word(Low32(a) \div Low32(b))
         /\ Result(do_remuw(s, Operation)) = Word(Sext(Low32(a) % Low32(b), HALF))
         /\ Result(la_div_w(s, Operation)) = Result(do_divw(s, Operation))
         /\ Result(la_mod_w(s, Operation)) = Result(do_remw(s, Operation))
         /\ Result(la_div_wu(s, Operation)) = Word(Sext(a \div b, HALF))
         /\ Result(la_mod_wu(s, Operation)) = Word(Sext(a % b, HALF))
<1>1. SRC1(s, Operation) = a /\ SRC2(s, Operation) = b /\ RJ(s, Operation) = a /\ RK(s, Operation) = b
  BY OperationWrites
<1>2. \A zero, v : /\ Result(Unless0(s, Operation, zero, v)) = Word(v)
                   /\ Result(UnlessRk0(s, Operation, zero, v)) = Word(v)
  <2> SUFFICES ASSUME NEW zero, NEW v
               PROVE  /\ Result(Unless0(s, Operation, zero, v)) = Word(v)
                      /\ Result(UnlessRk0(s, Operation, zero, v)) = Word(v)
    BY Zenon
  <2>1. Unless0(s, Operation, zero, v) = DEST(s, Operation, v)
    BY <1>1 DEF Unless0
  <2>2. UnlessRk0(s, Operation, zero, v) = Set(s, Operation, v)
    BY <1>1 DEF UnlessRk0
  <2>3. Result(DEST(s, Operation, v)) = Word(v) /\ Result(Set(s, Operation, v)) = Word(v)
    BY OperationWrites
  <2> QED BY <2>1, <2>2, <2>3
<1>a. /\ Result(do_div(s, Operation)) = Word(Quotient(SignedWord(a), SignedWord(b)))
      /\ Result(do_rem(s, Operation)) = Word(Remainder(SignedWord(a), SignedWord(b)))
  BY <1>1, <1>2, Zenon DEF do_div, do_rem
<1>b. /\ Result(do_divu(s, Operation)) = Word(a \div b)
      /\ Result(do_remu(s, Operation)) = Word(a % b)
  BY <1>1, <1>2, Zenon DEF do_divu, do_remu
<1>c. /\ Result(do_divw(s, Operation)) = Word(Sext(Quotient(SignedLow(a, HALF), SignedLow(b, HALF)), HALF))
      /\ Result(do_remw(s, Operation)) = Word(Remainder(SignedLow(a, HALF), SignedLow(b, HALF)))
  BY <1>1, <1>2, Zenon DEF do_divw, do_remw
<1>d. /\ Result(do_divuw(s, Operation)) = Word(Low32(a) \div Low32(b))
      /\ Result(do_remuw(s, Operation)) = Word(Sext(Low32(a) % Low32(b), HALF))
  BY <1>1, <1>2, Zenon DEF do_divuw, do_remuw
<1>e. /\ Result(la_div_w(s, Operation)) = Result(do_divw(s, Operation))
      /\ Result(la_mod_w(s, Operation)) = Result(do_remw(s, Operation))
  BY <1>1, <1>2, <1>c, Zenon DEF la_div_w, la_mod_w
<1>f. /\ Result(la_div_wu(s, Operation)) = Word(Sext(a \div b, HALF))
      /\ Result(la_mod_wu(s, Operation)) = Word(Sext(a % b, HALF))
  BY <1>1, <1>2, Zenon DEF la_div_wu, la_mod_wu
<1> QED BY <1>a, <1>b, <1>c, <1>d, <1>e, <1>f

(* Both halves of a product make the product.                                *)
LEMMA ProductsWhole ==
  ASSUME NEW a \in Words, NEW b \in Words, NEW s, s = Hart(a, b)
  PROVE  /\ SignedWord(Result(do_mulh(s, Operation))) * 2 ^ XLEN + Result(do_mul(s, Operation))
              = SignedWord(a) * SignedWord(b)
         /\ Result(do_mulhu(s, Operation)) * 2 ^ XLEN + Result(do_mul(s, Operation)) = a * b
         /\ Low32(Result(do_mulw(s, Operation))) = Low32(Result(do_mul(s, Operation)))
         /\ SignedWord(Result(la_mulh_w(s, Operation))) * 2 ^ HALF + Result(la_mul_w(s, Operation))
              = SignedLow(a, HALF) * SignedLow(b, HALF)
<1> DEFINE M == 2 ^ XLEN
           N == 2 ^ HALF
           h == 2 ^ (XLEN - 1)
           k == 2 ^ (HALF - 1)
           x == SignedWord(a)
           y == SignedWord(b)
           v == SignedLow(a, HALF)
           w == SignedLow(b, HALF)
<1>1. M \in Nat \ {0} /\ N \in Nat \ {0} /\ M = N * N /\ h \in Nat \ {0} /\ k \in Nat \ {0} /\ M = 2 * h /\ N = 2 * k
  BY Widths, Halves, Signs, WidthsSigned
<1>2. \A u \in Words : u \in Int /\ u \in 0 .. M - 1
  BY Widths DEF Words
<1>3. a \in Int /\ b \in Int /\ a \in 0 .. M - 1 /\ b \in 0 .. M - 1
  BY <1>2
<1>4. x \in (-h) .. (h - 1) /\ y \in (-h) .. (h - 1) /\ v \in (-k) .. (k - 1) /\ w \in (-k) .. (k - 1)
  BY <1>3, SignedType, WidthsSigned DEF SignedWord
<1>5. x \in Int /\ y \in Int /\ v \in Int /\ w \in Int
  BY <1>3, SignedType, WidthsSigned DEF SignedWord
<1>6. /\ Word(a * b) = (a * b) % M /\ Word(x * y) = (x * y) % M
  BY DEF Word
<1>7. Word(x * y) = Word(a * b)
  BY <1>3, SignedProduct
<1>8. \A u \in (-h) .. (h - 1) : SignedWord(Word(u)) = u
  BY SignedOfWord
<1>9. \A u \in (-k) .. (k - 1) : SignedWord(Word(u)) = u
  BY SignedOfWord
<1>10. \A u \in 0 .. M - 1 : Word(u) = u
  <2>1. \A u \in 0 .. M - 1 : u \in Int
    BY <1>1, SMT
  <2> QED BY <2>1, WordType DEF Words
<1>11. v * w \in Int /\ a * b \in Int /\ x * y \in Int
  BY <1>3, <1>5, SMT
<1>w. Low32(Result(do_mulw(s, Operation))) = Low32(Result(do_mul(s, Operation)))
  <2>1. Low32(v) = Low32(a) /\ Low32(w) = Low32(b)
    BY <1>3, LowOfWord
  <2> DEFINE vw == v * w
             aw == a * w
             wa == w * a
             ba == b * a
             ab == a * b
  <2>2. Low32(vw) = Low32(aw) /\ Low32(wa) = Low32(ba)
    BY <1>3, <1>5, <2>1, LowOfProduct
  <2>3. aw = wa /\ ba = ab /\ vw \in Int /\ ab \in Int
    BY <1>3, <1>5, SMT
  <2>4. Result(do_mulw(s, Operation)) = Word(Sext(vw, HALF)) /\ Result(do_mul(s, Operation)) = Word(ab)
    BY ProductsAre
  <2> HIDE DEF vw, aw, wa, ba, ab
  <2>5. Sext(vw, HALF) \in Int
    BY <1>2, <2>3, ExtendType
  <2>6. Low32(Word(Sext(vw, HALF))) = Low32(Sext(vw, HALF))
    BY <2>5, LowOfWord
  <2>7. Low32(Sext(vw, HALF)) = Low32(vw) /\ Low32(Word(ab)) = Low32(ab)
    BY <2>3, LowOfWord
  <2> QED BY <2>2, <2>3, <2>4, <2>6, <2>7
<1> HIDE DEF M, N, h, k, x, y, v, w
<1>h. SignedWord(Result(do_mulh(s, Operation))) * M + Result(do_mul(s, Operation)) = x * y
  <2> DEFINE p == x * y
             q == p \div M
             r == p % M
  <2>1. q \in (-h) .. (h - 1)
    BY <1>1, <1>4, HighFits
  <2>2. q \in Int /\ r \in 0 .. M - 1 /\ p = M * q + r
    BY <1>1, <1>11, DivMod
  <2>3. Result(do_mulh(s, Operation)) = Word(q) /\ Result(do_mul(s, Operation)) = r
    BY <1>6, <1>7, ProductsAre DEF x, y, M
  <2>4. SignedWord(Word(q)) = q
    BY <1>8, <2>1
  <2> HIDE DEF p, q, r
  <2>5. q * M + r = p
    BY <1>1, <2>2, SMT
  <2> QED BY <2>3, <2>4, <2>5 DEF p
<1>u. Result(do_mulhu(s, Operation)) * M + Result(do_mul(s, Operation)) = a * b
  <2> DEFINE p == a * b
             q == p \div M
             r == p % M
  <2>1. q \in Int /\ r \in 0 .. M - 1 /\ p = M * q + r
    BY <1>1, <1>11, DivMod
  <2>2. Result(do_mulhu(s, Operation)) = Word(q) /\ Result(do_mul(s, Operation)) = r
    BY <1>6, ProductsAre DEF M
  <2>3. p >= 0 /\ p < M * M
    <3>1. p >= 0 /\ p <= a * M /\ a * M <= (M - 1) * M /\ (M - 1) * M < M * M
      BY <1>1, <1>3, SMT
    <3> DEFINE c == a * M
               d == (M - 1) * M
               e == M * M
    <3>2. c \in Int /\ d \in Int /\ e \in Int /\ p \in Int
      BY <1>1, <1>3, SMT
    <3> HIDE DEF p, c, d, e
    <3>3. p >= 0 /\ p <= c /\ c <= d /\ d < e
      BY <3>1 DEF c, d, e
    <3>4. p >= 0 /\ p < e
      BY <3>2, <3>3, SMT
    <3> QED BY <3>4 DEF e
  <2> HIDE DEF p, q, r
  <2>4. q >= 0
    <3>1. q < 0 => M * q <= -M
      BY <1>1, <2>1, SMT
    <3> DEFINE t == M * q
    <3>2. t \in Int
      BY <1>1, <2>1, SMT
    <3>3. p = t + r /\ (q < 0 => t <= -M)
      BY <2>1, <3>1
    <3> HIDE DEF t
    <3> QED BY <1>1, <2>1, <2>3, <3>2, <3>3, SMT
  <2>5. q < M
    <3>1. q >= M => M * q >= M * M
      BY <1>1, <2>1, SMT
    <3> DEFINE t == M * q
               e == M * M
    <3>2. t \in Int /\ e \in Int
      BY <1>1, <2>1, SMT
    <3>3. p = t + r /\ (q >= M => t >= e) /\ p < e
      BY <2>1, <2>3, <3>1
    <3> HIDE DEF t, e
    <3> QED BY <1>1, <2>1, <3>2, <3>3, SMT
  <2>6. q \in 0 .. M - 1
    BY <1>1, <2>1, <2>4, <2>5, SMT
  <2>7. q * M + r = p
    BY <1>1, <2>1, SMT
  <2> QED BY <1>10, <2>2, <2>6, <2>7 DEF p
<1>l. SignedWord(Result(la_mulh_w(s, Operation))) * N + Result(la_mul_w(s, Operation)) = v * w
  <2> DEFINE p == v * w
             q == p \div N
             r == p % N
  <2>1. q \in (-k) .. (k - 1)
    BY <1>1, <1>4, HighFits
  <2>2. q \in Int /\ r \in 0 .. N - 1 /\ p = N * q + r
    BY <1>1, <1>11, DivMod
  <2>3. Result(la_mulh_w(s, Operation)) = Word(q) /\ Result(la_mul_w(s, Operation)) = Word(r)
    BY ProductsAre DEF Low32, v, w, N
  <2>4. SignedWord(Word(q)) = q
    BY <1>9, <2>1
  <2> HIDE DEF p, q, r
  <2>5. r \in 0 .. M - 1
    <3>1. N * N >= N
      BY <1>1, SMT
    <3>2. N <= M
      BY <1>1, <3>1
    <3> QED BY <1>1, <2>2, <3>2, SMT
  <2>6. q * N + r = p
    BY <1>1, <2>2, SMT
  <2> QED BY <1>10, <2>3, <2>4, <2>5, <2>6 DEF p
<1> QED BY <1>w, <1>h, <1>u, <1>l DEF M, N, x, y, v, w

(* Division of whole words and of signed halves, as the signed numbers and   *)
(* the words divide.                                                         *)
LEMMA QuotientsWhole ==
  ASSUME NEW a \in Words, NEW b \in Words, b # 0, HostDivides(a, b), NEW s, s = Hart(a, b)
  PROVE  /\ Divides(SignedWord(a), SignedWord(b),
                    SignedWord(Result(do_div(s, Operation))), SignedWord(Result(do_rem(s, Operation))))
         /\ Divides(a, b, Result(do_divu(s, Operation)), Result(do_remu(s, Operation)))
         /\ Divides(SignedLow(a, HALF), SignedLow(b, HALF),
                    SignedWord(Result(do_divw(s, Operation))), SignedWord(Result(do_remw(s, Operation))))
<1> DEFINE M == 2 ^ XLEN
           N == 2 ^ HALF
           h == 2 ^ (XLEN - 1)
           k == 2 ^ (HALF - 1)
           x == SignedWord(a)
           y == SignedWord(b)
           v == SignedLow(a, HALF)
           w == SignedLow(b, HALF)
<1>1. M \in Nat \ {0} /\ N \in Nat \ {0} /\ h \in Nat \ {0} /\ k \in Nat \ {0} /\ M = 2 * h /\ N = 2 * k
  BY Widths, Signs, WidthsSigned
<1>2. a \in Int /\ b \in Int /\ a \in 0 .. M - 1 /\ b \in 0 .. M - 1
  BY Widths DEF Words
<1>3. x \in (-h) .. (h - 1) /\ y \in (-h) .. (h - 1) /\ v \in (-k) .. (k - 1) /\ w \in (-k) .. (k - 1)
  BY <1>2, SignedType, WidthsSigned DEF SignedWord
<1>4. x \in Int /\ y \in Int /\ v \in Int /\ w \in Int
  BY <1>2, SignedType, WidthsSigned DEF SignedWord
<1>5. ~(x = -h /\ y = -1) /\ ~(v = -k /\ w = -1) /\ Low32(b) # 0
  BY Zenon DEF HostDivides, Overflows, SignedWord
<1>6. y # 0 /\ w # 0
  <2>1. w = Low32(b) \/ w = Low32(b) - N
    BY <1>2, SignedType, WidthsSigned DEF Low32
  <2>2. Low32(b) \in 0 .. N - 1
    BY <1>2, ExtendType
  <2>3. y = b % M \/ y = (b % M) - M
    BY <1>2, SignedType, WidthsSigned DEF SignedWord
  <2>4. b % M = b
    BY <1>2, WordType DEF Word
  <2> HIDE DEF M, N, w, y
  <2> DEFINE low == Low32(b)
  <2> HIDE DEF low
  <2>5. w # 0
    <3>1. (w = low \/ w = low - N) /\ low \in 0 .. N - 1 /\ low # 0
      BY <1>5, <2>1, <2>2 DEF low
    <3> QED BY <1>1, <3>1, SMT
  <2>6. y = b \/ y = b - M
    BY <2>3, <2>4
  <2>7. y # 0
    BY <1>1, <1>2, <2>6, SMT
  <2> QED BY <2>5, <2>7
<1>7. \A u \in (-h) .. (h - 1) : SignedWord(Word(u)) = u
  BY SignedOfWord
<1>8. \A u \in (-k) .. (k - 1) : SignedWord(Word(u)) = u /\ SignedLow(u, HALF) = u
  BY SignedOfWord
<1>9. \A u \in 0 .. M - 1 : Word(u) = u
  <2>1. \A u \in 0 .. M - 1 : u \in Int
    BY <1>1, SMT
  <2> QED BY <2>1, WordType DEF Words
<1>10. \A u \in (-k) .. (k - 1) : u \in Int
  BY <1>1, SMT
<1>11. \A u \in Int : Word(Word(u)) = Word(u)
  <2>1. \A u \in Words : u \in Int
    BY Widths
  <2> QED BY <2>1, WordType
<1> HIDE DEF M, N, h, k, x, y, v, w
<1>a. Divides(x, y, SignedWord(Result(do_div(s, Operation))), SignedWord(Result(do_rem(s, Operation))))
  <2> DEFINE Q == Quotient(x, y)
             R == Remainder(x, y)
  <2>1. Divides(x, y, Q, R)
    BY <1>4, <1>6, QuotientDivides
  <2>2. Q \in (-h) .. (h - 1) /\ R \in (-h) .. (h - 1)
    BY <1>1, <1>3, <1>5, <1>6, QuotientFits
  <2>3. Result(do_div(s, Operation)) = Word(Q) /\ Result(do_rem(s, Operation)) = Word(R)
    BY QuotientsAre DEF x, y
  <2> HIDE DEF Q, R
  <2>4. SignedWord(Word(Q)) = Q /\ SignedWord(Word(R)) = R
    BY <1>7, <2>2
  <2> QED BY <2>1, <2>3, <2>4
<1>b. Divides(a, b, Result(do_divu(s, Operation)), Result(do_remu(s, Operation)))
  <2> DEFINE q == a \div b
             r == a % b
  <2>1. b \in Nat \ {0}
    BY <1>1, <1>2, SMT
  <2>2. q \in Int /\ r \in 0 .. b - 1 /\ a = b * q + r
    BY <1>2, <2>1, DivMod
  <2>3. Result(do_divu(s, Operation)) = Word(q) /\ Result(do_remu(s, Operation)) = Word(r)
    BY QuotientsAre
  <2> HIDE DEF q, r
  <2>4. r \in 0 .. M - 1
    BY <1>1, <1>2, <2>2, SMT
  <2>5. q \in 0 .. M - 1
    <3>1. (q < 0 => b * q <= -b) /\ (q > a => b * q > a)
      BY <1>2, <2>1, <2>2, SMT
    <3> DEFINE t == b * q
    <3>2. t \in Int
      BY <1>2, <2>2, SMT
    <3>3. a = t + r /\ (q < 0 => t <= -b) /\ (q > a => t > a)
      BY <2>2, <3>1
    <3> HIDE DEF t
    <3> QED BY <1>1, <1>2, <2>1, <2>2, <3>2, <3>3, SMT
  <2>6. Magnitude(r) < Magnitude(b) /\ (r = 0 \/ (r < 0) = (a < 0))
    BY <1>2, <2>1, <2>2, SMT DEF Magnitude
  <2> QED BY <1>9, <2>2, <2>3, <2>4, <2>5, <2>6 DEF Divides
<1>c. Divides(v, w, SignedWord(Result(do_divw(s, Operation))), SignedWord(Result(do_remw(s, Operation))))
  <2> DEFINE Q == Quotient(v, w)
             R == Remainder(v, w)
  <2>1. Divides(v, w, Q, R)
    BY <1>4, <1>6, QuotientDivides
  <2>2. Q \in (-k) .. (k - 1) /\ R \in (-k) .. (k - 1)
    BY <1>1, <1>3, <1>5, <1>6, QuotientFits
  <2>3. Result(do_divw(s, Operation)) = Word(Sext(Q, HALF)) /\ Result(do_remw(s, Operation)) = Word(R)
    BY QuotientsAre DEF v, w
  <2> HIDE DEF Q, R
  <2>4. Sext(Q, HALF) = Word(Q)
    BY <1>8, <2>2 DEF Sext
  <2>5. Word(Word(Q)) = Word(Q)
    BY <1>10, <1>11, <2>2
  <2>6. SignedWord(Word(Q)) = Q /\ SignedWord(Word(R)) = R
    BY <1>8, <2>2
  <2> QED BY <2>1, <2>3, <2>4, <2>5, <2>6
<1> QED BY <1>a, <1>b, <1>c DEF x, y, v, w

(* Division of the low halves, on both cores.                                *)
LEMMA LowQuotientsWhole ==
  ASSUME NEW a \in Words, NEW b \in Words, b # 0, Low32(b) # 0, NEW s, s = Hart(a, b)
  PROVE  /\ Divides(Low32(a), Low32(b), Low32(Result(do_divuw(s, Operation))),
                    Low32(Result(do_remuw(s, Operation))))
         /\ Result(la_div_w(s, Operation)) = Result(do_divw(s, Operation))
         /\ Result(la_mod_w(s, Operation)) = Result(do_remw(s, Operation))
         /\ Low32(Result(la_div_wu(s, Operation)) * b + Result(la_mod_wu(s, Operation))) = Low32(a)
<1> DEFINE M == 2 ^ XLEN
           N == 2 ^ HALF
<1>1. M \in Nat \ {0} /\ N \in Nat \ {0} /\ M = N * N
  BY Widths, Halves
<1>2. a \in Int /\ b \in Int /\ a \in 0 .. M - 1 /\ b \in 0 .. M - 1
  BY Widths DEF Words
<1>3. \A u \in Int : Low32(Word(u)) = Low32(u) /\ Low32(Word(Sext(u, HALF))) = Low32(u)
  <2> SUFFICES ASSUME NEW u \in Int
               PROVE  Low32(Word(u)) = Low32(u) /\ Low32(Word(Sext(u, HALF))) = Low32(u)
    BY Zenon
  <2>1. Sext(u, HALF) \in Words
    BY ExtendType
  <2>2. Sext(u, HALF) \in Int
    <3>1. \A t \in Words : t \in Int
      BY Widths
    <3> QED BY <2>1, <3>1
  <2>3. Low32(Word(u)) = Low32(u) /\ Low32(Sext(u, HALF)) = Low32(u)
    BY LowOfWord
  <2>4. Low32(Word(Sext(u, HALF))) = Low32(Sext(u, HALF))
    BY <2>2, LowOfWord
  <2> QED BY <2>3, <2>4
<1>4. \A u \in 0 .. N - 1 : u \in Int /\ Low32(u) = u
  <2> HIDE DEF N
  <2>1. \A u \in 0 .. N - 1 : u \in Int /\ u % N = u
    BY <1>1, SMT
  <2> QED BY <2>1 DEF Low32, N
<1>a. Divides(Low32(a), Low32(b), Low32(Result(do_divuw(s, Operation))), Low32(Result(do_remuw(s, Operation))))
  <2> DEFINE c == Low32(a)
             d == Low32(b)
             q == c \div d
             r == c % d
  <2>1. c \in 0 .. N - 1 /\ d \in 0 .. N - 1 /\ d # 0
    BY <1>2, ExtendType
  <2>2. Result(do_divuw(s, Operation)) = Word(q) /\ Result(do_remuw(s, Operation)) = Word(Sext(r, HALF))
    BY QuotientsAre
  <2> HIDE DEF N, c, d
  <2>3. d \in Nat \ {0} /\ c \in Int /\ d \in Int
    BY <1>1, <2>1, SMT
  <2>4. q \in Int /\ r \in 0 .. d - 1 /\ c = d * q + r
    BY <2>3, DivMod
  <2> HIDE DEF q, r
  <2>5. r \in 0 .. N - 1
    BY <1>1, <2>1, <2>4, SMT
  <2>6. q \in 0 .. N - 1
    <3>1. (q < 0 => d * q <= -d) /\ (q > c => d * q > c)
      BY <2>1, <2>3, <2>4, SMT
    <3> DEFINE t == d * q
    <3>2. t \in Int
      BY <2>3, <2>4, SMT
    <3>3. c = t + r /\ (q < 0 => t <= -d) /\ (q > c => t > c)
      BY <2>4, <3>1
    <3> HIDE DEF t
    <3> QED BY <1>1, <2>1, <2>3, <2>4, <3>2, <3>3, SMT
  <2>7. Magnitude(r) < Magnitude(d) /\ (r = 0 \/ (r < 0) = (c < 0))
    BY <2>1, <2>3, <2>4, SMT DEF Magnitude
  <2>8. Low32(Word(q)) = q /\ Low32(Word(Sext(r, HALF))) = r
    BY <1>3, <1>4, <2>5, <2>6
  <2> QED BY <2>2, <2>4, <2>7, <2>8 DEF Divides, c, d
<1>b. /\ Result(la_div_w(s, Operation)) = Result(do_divw(s, Operation))
      /\ Result(la_mod_w(s, Operation)) = Result(do_remw(s, Operation))
  BY QuotientsAre
<1>c. Low32(Result(la_div_wu(s, Operation)) * b + Result(la_mod_wu(s, Operation))) = Low32(a)
  <2> DEFINE q == a \div b
             r == a % b
             x == Result(la_div_wu(s, Operation))
             y == Result(la_mod_wu(s, Operation))
  <2>1. b \in Nat \ {0}
    BY <1>1, <1>2, SMT
  <2>2. q \in Int /\ r \in 0 .. b - 1 /\ a = b * q + r
    BY <1>2, <2>1, DivMod
  <2>3. x = Word(Sext(q, HALF)) /\ y = Word(Sext(r, HALF))
    BY QuotientsAre
  <2> HIDE DEF q, r, x, y, M
  <2>4. r \in Int
    BY <1>2, <2>2, SMT
  <2>5. x \in Int /\ y \in Int
    <3>1. \A u \in Words : u \in Int
      BY Widths
    <3>2. Sext(q, HALF) \in Int /\ Sext(r, HALF) \in Int
      BY <2>2, <2>4, <3>1, ExtendType
    <3> QED BY <2>3, <3>1, <3>2, WordType
  <2>6. Low32(x) = Low32(q) /\ Low32(y) = Low32(r)
    BY <1>3, <2>2, <2>3, <2>4
  <2> DEFINE xb == x * b
             qb == q * b
  <2>7. Low32(xb) = Low32(qb)
    BY <1>2, <2>2, <2>5, <2>6, LowOfProduct
  <2>8. xb \in Int /\ qb \in Int /\ a = qb + r
    BY <1>2, <2>2, <2>4, <2>5, SMT
  <2> HIDE DEF xb, qb
  <2>9. Low32(xb + y) = Low32(qb + r)
    <3>1. xb % N = qb % N /\ y % N = r % N
      BY <2>6, <2>7 DEF Low32
    <3> HIDE DEF N
    <3> DEFINE f == xb \div N
               g == qb \div N
               e == y \div N
               j == r \div N
               m == xb % N
               n == y % N
    <3>2. f \in Int /\ g \in Int /\ e \in Int /\ j \in Int /\ m \in 0 .. N - 1 /\ n \in 0 .. N - 1
          /\ xb = N * f + m /\ qb = N * g + m /\ y = N * e + n /\ r = N * j + n
      BY <1>1, <2>4, <2>5, <2>8, <3>1, DivMod
    <3> HIDE DEF f, g, e, j, m, n
    <3> DEFINE i == f - g + e - j
    <3>3. N * i = N * f - N * g + N * e - N * j /\ i \in Int
          /\ N * f \in Int /\ N * g \in Int /\ N * e \in Int /\ N * j \in Int
      BY <1>1, <3>2, SMT
    <3> HIDE DEF i
    <3>4. xb + y = (qb + r) + N * i
      BY <1>1, <3>2, <3>3, SMT
    <3>5. xb + y \in Int /\ qb + r \in Int
      BY <2>4, <2>5, <2>8, SMT
    <3>6. (xb + y) % N = (qb + r) % N
      BY <1>1, <3>3, <3>4, <3>5, Congruent
    <3> QED BY <3>6 DEF Low32, N
  <2> QED BY <2>8, <2>9 DEF xb, x, y
<1> QED BY <1>a, <1>b, <1>c

(* Division by zero.                                                         *)
LEMMA ByZero ==
  ASSUME NEW a \in Words, NEW b \in Words, b = 0, NEW s, s = Hart(a, b)
  PROVE  /\ {Result(do_div(s, Operation)), Result(do_divu(s, Operation)),
             Result(do_divw(s, Operation)), Result(do_divuw(s, Operation))} = {2 ^ XLEN - 1}
         /\ {Result(do_rem(s, Operation)), Result(do_remu(s, Operation)),
             Result(do_remw(s, Operation)), Result(do_remuw(s, Operation))} = {a}
<1>1. SRC1(s, Operation) = a /\ SRC2(s, Operation) = 0
  BY OperationWrites
<1>2. \A v : Result(DEST(s, Operation, v)) = Word(v)
  BY OperationWrites
<1>3. \A zero, v : Result(Unless0(s, Operation, zero, v)) = Word(zero)
  <2> SUFFICES ASSUME NEW zero, NEW v PROVE Result(Unless0(s, Operation, zero, v)) = Word(zero)
    BY Zenon
  <2>1. Unless0(s, Operation, zero, v) = DEST(s, Operation, zero)
    BY <1>1 DEF Unless0
  <2> QED BY <1>2, <2>1
<1>4. Word(-1) = 2 ^ XLEN - 1
  <2> DEFINE M == 2 ^ XLEN
             w == M - 1
  <2>1. M \in Nat \ {0}
    BY Widths
  <2> HIDE DEF M, w
  <2>2. w \in 0 .. M - 1 /\ -1 \in Int /\ M * (-1) + w = -1
    BY <2>1, SMT DEF w
  <2>3. (-1) % M = w
    BY <2>1, <2>2, Unique
  <2> QED BY <2>3 DEF Word, M, w
<1>5. Word(a) = a
  BY Widths, WordType
<1>6. /\ Result(do_div(s, Operation)) = Word(-1) /\ Result(do_divu(s, Operation)) = Word(-1)
      /\ Result(do_divw(s, Operation)) = Word(-1) /\ Result(do_divuw(s, Operation)) = Word(-1)
  BY <1>3, Zenon DEF do_div, do_divu, do_divw, do_divuw
<1>7. /\ Result(do_rem(s, Operation)) = Word(a) /\ Result(do_remu(s, Operation)) = Word(a)
      /\ Result(do_remw(s, Operation)) = Word(a) /\ Result(do_remuw(s, Operation)) = Word(a)
  BY <1>1, <1>3, Zenon DEF do_rem, do_remu, do_remw, do_remuw
<1> QED BY <1>4, <1>5, <1>6, <1>7

(* Multiplication and division are right for all words: the two halves of a  *)
(* product make it up, quotient and remainder make up the dividend, also in  *)
(* the instructions on half words and in those of LoongArch.                 *)
THEOREM PartsAreTheWhole ==
  HartSpec => []PartsMakeTheWhole
<1>1. Picked => PartsMakeTheWhole
  <2> SUFFICES ASSUME Picked, unit = "arithmetic" PROVE PartsMakeTheWhole
    BY DEF PartsMakeTheWhole, Is
  <2> DEFINE a == input[1]
             b == input[2]
             s == Hart(a, b)
  <2>1. a \in Words /\ b \in Words
    BY DEF Picked
  <2> HIDE DEF a, b, s
  <2>2. s = Hart(a, b)
    BY DEF s
  <2>3. /\ SignedWord(Result(do_mulh(s, Operation))) * 2 ^ XLEN + Result(do_mul(s, Operation))
              = SignedWord(a) * SignedWord(b)
        /\ Result(do_mulhu(s, Operation)) * 2 ^ XLEN + Result(do_mul(s, Operation)) = a * b
        /\ Low32(Result(do_mulw(s, Operation))) = Low32(Result(do_mul(s, Operation)))
        /\ SignedWord(Result(la_mulh_w(s, Operation))) * 2 ^ HALF + Result(la_mul_w(s, Operation))
             = SignedLow(a, HALF) * SignedLow(b, HALF)
    BY <2>1, <2>2, ProductsWhole
  <2>4. b # 0 /\ HostDivides(a, b) =>
          /\ Divides(SignedWord(a), SignedWord(b),
                     SignedWord(Result(do_div(s, Operation))), SignedWord(Result(do_rem(s, Operation))))
          /\ Divides(a, b, Result(do_divu(s, Operation)), Result(do_remu(s, Operation)))
          /\ Divides(SignedLow(a, HALF), SignedLow(b, HALF),
                     SignedWord(Result(do_divw(s, Operation))), SignedWord(Result(do_remw(s, Operation))))
    BY <2>1, <2>2, QuotientsWhole
  <2>5. b # 0 /\ HostDivides(a, b) =>
          /\ Divides(Low32(a), Low32(b), Low32(Result(do_divuw(s, Operation))),
                     Low32(Result(do_remuw(s, Operation))))
          /\ Result(la_div_w(s, Operation)) = Result(do_divw(s, Operation))
          /\ Result(la_mod_w(s, Operation)) = Result(do_remw(s, Operation))
          /\ Low32(Result(la_div_wu(s, Operation)) * b + Result(la_mod_wu(s, Operation))) = Low32(a)
    BY <2>1, <2>2, LowQuotientsWhole DEF HostDivides
  <2>6. b = 0 =>
          /\ {Result(do_div(s, Operation)), Result(do_divu(s, Operation)),
              Result(do_divw(s, Operation)), Result(do_divuw(s, Operation))} = {2 ^ XLEN - 1}
          /\ {Result(do_rem(s, Operation)), Result(do_remu(s, Operation)),
              Result(do_remw(s, Operation)), Result(do_remuw(s, Operation))} = {a}
    BY <2>1, <2>2, ByZero
  <2> QED BY <2>3, <2>4, <2>5, <2>6, Zenon DEF PartsMakeTheWhole, Operation, Result, a, b, s
<1> QED BY <1>1, UnitsPick, PTL

-----------------------------------------------------------------------------
(* Conversion, comparison and classes of floating-point numbers.             *)

(* The powers of two that data and limits are made of.                       *)
LEMMA Sizes ==
  /\ 2 ^ HALF \in Nat /\ 2 ^ HALF >= 16 /\ 2 ^ XLEN \in Nat /\ 2 ^ XLEN >= 16 * 2 ^ HALF
  /\ 2 ^ (HALF + 1) = 2 * 2 ^ HALF /\ 2 ^ (XLEN + 2) = 4 * 2 ^ XLEN
<1> DEFINE N == 2 ^ HALF
           M == 2 ^ XLEN
           j == 2 ^ (HALF - 4)
<1>1. HALF >= 4 /\ HALF \in Nat /\ XLEN \in Nat /\ HALF <= XLEN
  BY Widths, SMT
<1>2. j \in Nat \ {0} /\ N = 16 * j
  <2>1. /\ HALF - 4 \in 0 .. XLEN + 1 /\ HALF - 3 \in 0 .. XLEN + 1 /\ HALF - 2 \in 0 .. XLEN + 1
        /\ HALF - 1 \in 0 .. XLEN + 1 /\ HALF - 4 \in 0 .. XLEN + 2
        /\ HALF - 4 + 1 = HALF - 3 /\ HALF - 3 + 1 = HALF - 2 /\ HALF - 2 + 1 = HALF - 1 /\ HALF - 1 + 1 = HALF
    BY <1>1, SMT
  <2> DEFINE P == 2 ^ (HALF - 3)
             Q == 2 ^ (HALF - 2)
             R == 2 ^ (HALF - 1)
  <2>2. P = 2 * j /\ Q = 2 * P /\ R = 2 * Q /\ N = 2 * R
    BY <2>1, PowerMore
  <2>3. j \in Nat \ {0}
    BY <2>1, Powers
  <2> HIDE DEF N, P, Q, R, j
  <2> QED BY <2>2, <2>3, SMT
<1>3. M = N * N
  BY Halves
<1>4. 2 ^ (HALF + 1) = 2 * N /\ 2 ^ (XLEN + 1) = 2 * M /\ 2 ^ (XLEN + 2) = 2 * 2 ^ (XLEN + 1)
  <2>1. HALF \in 0 .. XLEN + 1 /\ XLEN \in 0 .. XLEN + 1 /\ XLEN + 1 \in 0 .. XLEN + 1 /\ XLEN + 1 + 1 = XLEN + 2
    BY <1>1, SMT
  <2> QED BY <2>1, PowerMore
<1> HIDE DEF N, M, j
<1>5. N \in Nat /\ N >= 16
  BY <1>2, SMT
<1>6. N * N >= 16 * N /\ N * N \in Nat
  BY <1>5, SMT
<1>7. 2 * (2 * M) = 4 * M
  BY <1>3, <1>6, SMT
<1> QED BY <1>3, <1>4, <1>5, <1>6, <1>7 DEF N, M

(* What data there are, by kind.                                             *)
LEMMA DataAre ==
  ASSUME NEW x \in Data
  PROVE  /\ x.kind \in {"zero", "subnormal", "normal", "infinite", "quiet", "signaling"}
         /\ x.neg \in BOOLEAN /\ x.mag \in Nat /\ Twice(x) \in Int /\ Twice(x) # 2 ^ XLEN - 1
         /\ x.kind = "zero" => x.mag = 0
         /\ x.kind = "subnormal" => x.mag = 1
         /\ x.kind = "normal" => x.mag \in 2 .. 2 ^ XLEN + 1
         /\ x.kind = "infinite" => x.mag = 4 * 2 ^ XLEN
<1> DEFINE N == 2 ^ HALF
           M == 2 ^ XLEN
           k == x.kind
           m == x.mag
<1>1. N \in Nat /\ N >= 16 /\ M \in Nat /\ M >= 16 * N
  BY Sizes
<1>2. /\ x.neg \in BOOLEAN
      /\ \/ k = "zero" /\ m = 0
         \/ k = "subnormal" /\ m = 1
         \/ k = "infinite" /\ m = 2 ^ (XLEN + 2)
         \/ k = "quiet" /\ m = 0
         \/ k = "signaling" /\ m = 0
         \/ k = "normal" /\ m \in Magnitudes
  BY DEF Data, Datum
<1>3. m \in Magnitudes => m \in {3, N - 2, N - 1, N, 2 * N, M, M + 1}
  BY Sizes DEF Magnitudes
<1>4. m = 2 ^ (XLEN + 2) => m = 4 * M
  BY Sizes
<1> HIDE DEF N, M, k, m
<1>5. m \in Magnitudes => m \in 2 .. M + 1 /\ m # M - 1
  BY <1>1, <1>3, SMT
<1>6. m \in Nat /\ m # M - 1
  BY <1>1, <1>2, <1>4, <1>5, SMT
<1>7. Twice(x) = IF x.neg THEN -m ELSE m
  BY DEF Twice, m
<1>8. Twice(x) \in Int /\ Twice(x) # M - 1
  <2>1. CASE x.neg
    <3>1. Twice(x) = -m
      BY <1>7, <2>1
    <3> QED BY <1>1, <1>6, <3>1, SMT
  <2>2. CASE ~x.neg
    <3>1. Twice(x) = m
      BY <1>7, <2>2
    <3> QED BY <1>1, <1>6, <3>1, SMT
  <2> QED BY <2>1, <2>2
<1> QED BY <1>2, <1>4, <1>5, <1>6, <1>8 DEF k, m, M

(* An integer less than one away from a number.                              *)
Near(x, n) == n \in Int /\ 2 * n - 2 < Twice(x) /\ Twice(x) < 2 * n + 2

(* Truncation and rounding go to such an integer.                            *)
LEMMA RoundsNear ==
  ASSUME NEW x \in Data, NEW round \in {RNE, RTZ, RDN, RUP}
  PROVE  Near(x, Truncate(x)) /\ Near(x, llrint(x, round))
<1> DEFINE T == Twice(x)
           m == x.mag
           q == m \div 2
           r == m % 2
           f == T \div 2
           h == T % 2
<1>1. x.neg \in BOOLEAN /\ m \in Nat /\ T \in Int /\ T = IF x.neg THEN -m ELSE m
  BY DataAre DEF Twice
<1>2. Truncate(x) = IF x.neg THEN -q ELSE q
  BY DEF Truncate
<1>3. llrint(x, round) = CASE h = 0 -> f [] h # 0 /\ round = RTZ -> Truncate(x)
                          [] h # 0 /\ round = RDN -> f [] h # 0 /\ round = RUP -> f + 1
                          [] h # 0 /\ round = RNE -> f + (f % 2)
  BY Zenon DEF llrint
<1> HIDE DEF T, m
<1>4. q \in Int /\ r \in 0 .. 1 /\ m = 2 * q + r /\ f \in Int /\ h \in 0 .. 1 /\ T = 2 * f + h
  BY <1>1, SMT
<1> HIDE DEF q, r, f, h
<1>5. Truncate(x) \in Int /\ 2 * Truncate(x) - 2 < T /\ T < 2 * Truncate(x) + 2
  <2>1. CASE x.neg
    <3>1. Truncate(x) = -q /\ T = -m
      BY <1>1, <1>2, <2>1
    <3> QED BY <1>1, <1>4, <3>1, SMT
  <2>2. CASE ~x.neg
    <3>1. Truncate(x) = q /\ T = m
      BY <1>1, <1>2, <2>2
    <3> QED BY <1>1, <1>4, <3>1, SMT
  <2> QED BY <2>1, <2>2
<1>6. /\ h = 0 => llrint(x, round) = f
      /\ h # 0 => llrint(x, round) \in {Truncate(x), f, f + 1, f + (f % 2)}
  <2>1. CASE h = 0
    BY <1>3, <2>1 DEF RNE, RTZ, RDN, RUP
  <2>2. CASE h # 0
    BY <1>3, <2>2 DEF RNE, RTZ, RDN, RUP
  <2> QED BY <2>1, <2>2
<1>7. f % 2 \in 0 .. 1
  BY <1>4, SMT
<1> DEFINE n == llrint(x, round)
           t == Truncate(x)
           e == f % 2
<1> HIDE DEF n, t, e
<1>8. n \in Int /\ 2 * n - 2 < T /\ T < 2 * n + 2
  <2>1. CASE h = 0
    <3>1. n = f
      BY <1>6, <2>1 DEF n
    <3> QED BY <1>1, <1>4, <2>1, <3>1, SMT
  <2>2. CASE h # 0
    <3>1. n = t \/ n = f \/ n = f + 1 \/ n = f + e
      BY <1>6, <2>2 DEF n, t, e
    <3>2. h = 1 /\ e \in 0 .. 1
      BY <1>4, <1>7, <2>2, SMT DEF e
    <3>3. t \in Int /\ 2 * t - 2 < T /\ T < 2 * t + 2
      BY <1>5 DEF t
    <3> QED BY <1>1, <1>4, <3>1, <3>2, <3>3, SMT
  <2> QED BY <2>1, <2>2
<1> QED BY <1>5, <1>8 DEF Near, T, n

(* What a conversion should give, and that it keeps the order of x and y.    *)
NearestTo(v, min, max) ==
  IF IsNan(v) \/ Twice(v) > 2 * max THEN {max}
  ELSE IF Twice(v) < 2 * min THEN {min}
  ELSE {n \in min .. max : 2 * n - 2 < Twice(v) /\ Twice(v) < 2 * n + 2}

KeepsOrder(r, s, x, y, min, max) ==
  Twice(x) # 2 * (max + 1) =>
    /\ r \in NearestTo(x, min, max)
    /\ Less(x, y) /\ Twice(y) # 2 * (max + 1) => r <= s

(* The saturated integers near two numbers are faithful to them.             *)
LEMMA SaturateKeeps ==
  ASSUME NEW x \in Data, NEW y \in Data, NEW min \in Int, NEW max \in Int, min <= 0, 0 <= max,
         NEW limit \in {max, max + 1}, NEW m, NEW n, Near(x, m), Near(y, n),
         limit = max + 1 /\ Twice(x) = 2 * max + 1 => m = max,
         limit = max + 1 /\ Twice(y) = 2 * max + 1 => n = max
  PROVE  /\ Saturate(x, min, max, limit, m, 0) \in min .. max
         /\ KeepsOrder(Saturate(x, min, max, limit, m, 0), Saturate(y, min, max, limit, n, 0), x, y, min, max)
<1> DEFINE T == Twice(x)
           U == Twice(y)
           r == Saturate(x, min, max, limit, m, 0)
           s == Saturate(y, min, max, limit, n, 0)
<1>1. T \in Int /\ U \in Int
  BY DataAre
<1>2. /\ m \in Int /\ 2 * m - 2 < T /\ T < 2 * m + 2
      /\ n \in Int /\ 2 * n - 2 < U /\ U < 2 * n + 2
  BY DEF Near
<1>3. /\ r = IF IsNan(x) \/ T > 2 * limit THEN max
             ELSE IF T < 2 * min THEN min ELSE IF m \in min .. max THEN m ELSE 0
      /\ s = IF IsNan(y) \/ U > 2 * limit THEN max
             ELSE IF U < 2 * min THEN min ELSE IF n \in min .. max THEN n ELSE 0
  BY Zenon DEF Saturate
<1>4. limit = max \/ limit = max + 1
  OBVIOUS
<1>5. /\ limit = max + 1 /\ T = 2 * max + 1 => m = max
      /\ limit = max + 1 /\ U = 2 * max + 1 => n = max
  OBVIOUS
<1> HIDE DEF T, U, r, s
<1>6. r \in min .. max
  BY <1>2, <1>3, SMT
<1>7. T # 2 * (max + 1) =>
        \/ (IsNan(x) \/ T > 2 * max) /\ r = max
        \/ ~IsNan(x) /\ T <= 2 * max /\ T < 2 * min /\ r = min
        \/ ~IsNan(x) /\ T <= 2 * max /\ T >= 2 * min /\ r = m /\ m \in min .. max
  BY <1>1, <1>2, <1>3, <1>4, <1>5, SMT
<1>8. U # 2 * (max + 1) =>
        \/ (IsNan(y) \/ U > 2 * max) /\ s = max
        \/ ~IsNan(y) /\ U <= 2 * max /\ U < 2 * min /\ s = min
        \/ ~IsNan(y) /\ U <= 2 * max /\ U >= 2 * min /\ s = n /\ n \in min .. max
  BY <1>1, <1>2, <1>3, <1>4, <1>5, SMT
<1>9. T # 2 * (max + 1) => r \in NearestTo(x, min, max)
  <2> SUFFICES ASSUME T # 2 * (max + 1) PROVE r \in NearestTo(x, min, max)
    OBVIOUS
  <2>0. NearestTo(x, min, max) = IF IsNan(x) \/ T > 2 * max THEN {max} ELSE IF T < 2 * min THEN {min}
                                 ELSE {k \in min .. max : 2 * k - 2 < T /\ T < 2 * k + 2}
    BY DEF NearestTo, T
  <2>1. CASE (IsNan(x) \/ T > 2 * max) /\ r = max
    BY <2>0, <2>1
  <2>2. CASE ~IsNan(x) /\ T <= 2 * max /\ T < 2 * min /\ r = min
    <3>1. ~(T > 2 * max)
      BY <1>1, <2>2, SMT
    <3> QED BY <2>0, <2>2, <3>1
  <2>3. CASE ~IsNan(x) /\ T <= 2 * max /\ T >= 2 * min /\ r = m /\ m \in min .. max
    <3>1. ~(T > 2 * max) /\ ~(T < 2 * min)
      BY <1>1, <2>3, SMT
    <3> QED BY <1>2, <2>0, <2>3, <3>1
  <2> QED BY <1>7, <2>1, <2>2, <2>3
<1>10. ASSUME T # 2 * (max + 1), U # 2 * (max + 1), ~IsNan(x), ~IsNan(y), T < U
       PROVE  r <= s
  BY <1>1, <1>2, <1>7, <1>8, <1>10, SMT
<1> QED BY <1>6, <1>9, <1>10, Zenon DEF KeepsOrder, Less, T, U, r, s

(* What is picked for the floating-point unit.                               *)
FloatInputs == [x : Data, y : Data, rd : {1, 3}, frm : {RTZ, RUP, DYN}, rm : {RNE, RDN, 5}]

(* The hart that has v in f1.                                                *)
Holding(n, v) == FloatHart([n EXCEPT !.x = v])

(* What an instruction finds there and where it writes, where the mode is    *)
(* one of the modes.                                                         *)
LEMMA HoldingWrites ==
  ASSUME NEW n \in FloatInputs, ~(n.frm = DYN /\ n.rm = 5), NEW v \in Data,
         NEW s, s = Holding(n, v), NEW i, i = FloatInfo(n)
  PROVE  /\ F1(s, i) = v /\ F2(s, i) = n.y /\ i.undefined = 0
         /\ SET_FPU(s, i).round \in {RNE, RTZ, RDN, RUP}
         /\ \A w : Converted(s, i, w).gpr[i.rd] = Word(w) /\ DEST(s, i, w).gpr[i.rd] = Word(w)
<1> DEFINE e == [n EXCEPT !.x = v]
<1>1. e \in FloatInputs /\ e.x = v /\ e.y = n.y /\ e.frm = n.frm /\ e.rm = n.rm /\ FloatInfo(e) = i
  BY DEF FloatInputs, FloatInfo
<1> HIDE DEF e
<1>2. s = FloatHart(e)
  BY DEF Holding, e
<1>3. s \in FloatHarts /\ i \in FloatInfos /\ F1(s, i) = v /\ F2(s, i) = n.y
  BY <1>1, <1>2, FloatTypes DEF FloatInputs
<1>4. s.frm = n.frm /\ i.flag = n.rm /\ i.undefined = 0
  BY <1>1, <1>2 DEF FloatHart, FloatInfo
<1>5. n.frm \in {RTZ, RUP, DYN} /\ n.rm \in {RNE, RDN, 5} /\ (n.frm = DYN => n.rm \in {RNE, RDN})
  BY DEF FloatInputs
<1>6. ~NoMode(s, i)
  BY <1>4, <1>5, SMT DEF NoMode, RNE, RDN, DYN
<1>7. SET_FPU(s, i).round \in {RNE, RTZ, RDN, RUP}
  <2>1. SET_FPU(s, i).round = set_fpu_rounding_mode(IF s.frm = DYN THEN i.flag ELSE s.frm, s.round)
    BY <1>3 DEF SET_FPU, FloatHarts
  <2>2. (IF s.frm = DYN THEN i.flag ELSE s.frm) \in {RNE, RTZ, RDN, RUP}
    BY <1>4, <1>5 DEF DYN
  <2> QED BY <2>1, <2>2 DEF set_fpu_rounding_mode, RMM, RNE, RTZ, RDN, RUP
<1>8. ASSUME NEW w PROVE Converted(s, i, w).gpr[i.rd] = Word(w) /\ DEST(s, i, w).gpr[i.rd] = Word(w)
  <2>1. DEST(s, i, w).gpr[i.rd] = Word(w)
    <3> DEFINE g == s.gpr
               r == i.rd
               u == Word(w)
    <3>1. g \in [{0, 1, 2, 3, 32} -> {0}] /\ r \in {0, 1, 2, 3, 32}
      BY <1>3 DEF FloatHarts, FloatInfos
    <3>2. DEST(s, i, w).gpr = [g EXCEPT ![r] = u]
      BY <1>3 DEF DEST, FloatHarts
    <3> HIDE DEF g, r, u
    <3>3. [g EXCEPT ![r] = u][r] = u
      BY <3>1
    <3> QED BY <3>2, <3>3 DEF r, u
  <2>2. RESTORE_FPU(DEST(SET_FPU(s, i), i, w), s.round) = DEST(s, i, w)
    BY <1>3 DEF RESTORE_FPU, DEST, SET_FPU, FloatHarts
  <2> QED BY <1>6, <2>1, <2>2, Zenon DEF Converted
<1> QED BY <1>3, <1>4, <1>7, <1>8

(* What a conversion writes to the register, read back as an integer.        *)
Read(w, min, bits) == IF min < 0 THEN SignedLow(w, bits) ELSE w % 2 ^ bits

(* A value within the limits is read back as it is.                          *)
LEMMA ReadsBack ==
  /\ \A v \in INT32_MIN .. INT32_MAX : Read(Word(Low32(v)), INT32_MIN, HALF) = v
  /\ \A v \in 0 .. UINT32_MAX : Read(Word(Low32(v)), 0, HALF) = v
  /\ \A v \in INT64_MIN .. INT64_MAX : Read(Word(v), INT64_MIN, XLEN) = v
  /\ \A v \in 0 .. UINT64_MAX : Read(Word(v), 0, XLEN) = v
<1> DEFINE M == 2 ^ XLEN
           N == 2 ^ HALF
           h == 2 ^ (XLEN - 1)
           k == 2 ^ (HALF - 1)
<1>1. M \in Nat \ {0} /\ N \in Nat \ {0} /\ h \in Nat \ {0} /\ k \in Nat \ {0} /\ M = 2 * h /\ N = 2 * k
  BY Widths, Signs, WidthsSigned
<1>2. INT32_MIN = -k /\ INT32_MAX = k - 1 /\ INT64_MIN = -h /\ INT64_MAX = h - 1
  BY DEF INT32_MIN, INT32_MAX, INT64_MIN, INT64_MAX
<1>3. UINT32_MAX = N - 1 /\ UINT64_MAX = M - 1
  BY DEF UINT32_MAX, UINT64_MAX
<1>4. N <= M
  BY Sizes, SMT
<1>5. \A u \in 0 .. M - 1 : Word(u) = u
  <2>1. \A u \in 0 .. M - 1 : u \in Int
    BY <1>1, SMT
  <2> QED BY <2>1, WordType DEF Words
<1>6. \A u \in 0 .. N - 1 : u \in 0 .. M - 1 /\ u \in Int /\ u % N = u
  <2> HIDE DEF M, N
  <2> QED BY <1>1, <1>4, SMT
<1>7. \A u \in Int : Low32(u) \in 0 .. N - 1 /\ Low32(u) = u % N
  BY ExtendType DEF Low32
<1>8. \A u \in (-k) .. (k - 1) : SignedLow(u, HALF) = u
  BY SignedOfWord
<1>9. \A u \in (-h) .. (h - 1) : SignedWord(Word(u)) = u
  BY SignedOfWord
<1>10. -k < 0 /\ -h < 0 /\ ~(0 < 0)
  <2> HIDE DEF h, k
  <2> QED BY <1>1, SMT
<1>11. /\ \A u \in (-k) .. (k - 1) : u \in Int
       /\ \A u \in 0 .. M - 1 : u \in Int
  <2> HIDE DEF M, k
  <2> QED BY <1>1, SMT
<1>a. ASSUME NEW v \in INT32_MIN .. INT32_MAX PROVE Read(Word(Low32(v)), INT32_MIN, HALF) = v
  <2>1. v \in (-k) .. (k - 1) /\ v \in Int
    BY <1>2, <1>11
  <2>2. Low32(v) \in 0 .. N - 1
    BY <1>7, <2>1
  <2>3. Word(Low32(v)) = Low32(v)
    BY <1>5, <1>6, <2>2
  <2>4. Low32(v) % N = v % N
    BY <1>6, <1>7, <2>1, <2>2
  <2>5. SignedLow(Low32(v), HALF) = SignedLow(v, HALF)
    BY <2>4 DEF SignedLow
  <2> QED BY <1>2, <1>8, <1>10, <2>1, <2>3, <2>5, Zenon DEF Read
<1>b. ASSUME NEW v \in 0 .. UINT32_MAX PROVE Read(Word(Low32(v)), 0, HALF) = v
  <2>1. v \in 0 .. N - 1
    BY <1>3
  <2>2. Low32(v) = v /\ Word(v) = v /\ v % N = v
    BY <1>5, <1>6, <1>7, <2>1
  <2> QED BY <1>10, <2>2, Zenon DEF Read
<1>c. ASSUME NEW v \in INT64_MIN .. INT64_MAX PROVE Read(Word(v), INT64_MIN, XLEN) = v
  <2>1. v \in (-h) .. (h - 1)
    BY <1>2
  <2> QED BY <1>2, <1>9, <1>10, <2>1, Zenon DEF Read, SignedWord
<1>d. ASSUME NEW v \in 0 .. UINT64_MAX PROVE Read(Word(v), 0, XLEN) = v
  <2>1. v \in 0 .. M - 1
    BY <1>3
  <2>2. Word(v) = v
    BY <1>5, <2>1
  <2>3. v % M = v
    BY <2>2 DEF Word
  <2> QED BY <1>10, <2>2, <2>3, Zenon DEF Read
<1> QED BY <1>a, <1>b, <1>c, <1>d

(* What the conversions write.                                               *)
LEMMA ConversionsWrite ==
  ASSUME NEW n \in FloatInputs, ~(n.frm = DYN /\ n.rm = 5), NEW v \in Data,
         NEW s, s = Holding(n, v), NEW i, i = FloatInfo(n)
  PROVE  LET To(min, max, limit) == Saturate(v, min, max, limit, Truncate(v), 0)
         IN  /\ do_fcvt_w_s(s, i).gpr[i.rd] = Word(Low32(To(INT32_MIN, INT32_MAX, INT32_MAX + 1)))
             /\ do_fcvt_w_d(s, i).gpr[i.rd] = Word(Low32(To(INT32_MIN, INT32_MAX, INT32_MAX)))
             /\ do_fcvt_wu_s(s, i).gpr[i.rd] = Word(Low32(To(0, UINT32_MAX, UINT32_MAX + 1)))
             /\ do_fcvt_wu_d(s, i).gpr[i.rd] = Word(Low32(To(0, UINT32_MAX, UINT32_MAX)))
             /\ do_fcvt_l_s(s, i).gpr[i.rd] = Word(To(INT64_MIN, INT64_MAX, INT64_MAX + 1))
             /\ do_fcvt_l_d(s, i).gpr[i.rd]
                  = Word(Saturate(v, INT64_MIN, INT64_MAX, INT64_MAX + 1, llrint(v, SET_FPU(s, i).round), 0))
             /\ do_fcvt_lu_s(s, i).gpr[i.rd] = Word(To(0, UINT64_MAX, UINT64_MAX + 1))
             /\ do_fcvt_lu_d(s, i).gpr[i.rd] = Word(To(0, UINT64_MAX, UINT64_MAX + 1))
<1>1. F1(s, i) = v /\ i.undefined = 0
  BY HoldingWrites
<1>2. \A w : Converted(s, i, w).gpr[i.rd] = Word(w)
  BY HoldingWrites
<1>3. \A min, max, limit : ToInt(s, i, min, max, limit) = Saturate(v, min, max, limit, Truncate(v), 0)
  BY <1>1, Zenon DEF ToInt
<1>4. /\ do_fcvt_w_s(s, i) = Converted(s, i, Low32(ToInt(s, i, INT32_MIN, INT32_MAX, INT32_MAX + 1)))
      /\ do_fcvt_w_d(s, i) = Converted(s, i, Low32(ToInt(s, i, INT32_MIN, INT32_MAX, INT32_MAX)))
      /\ do_fcvt_wu_s(s, i) = Converted(s, i, Low32(ToInt(s, i, 0, UINT32_MAX, UINT32_MAX + 1)))
      /\ do_fcvt_wu_d(s, i) = Converted(s, i, Low32(ToInt(s, i, 0, UINT32_MAX, UINT32_MAX)))
  BY Zenon DEF do_fcvt_w_s, do_fcvt_w_d, do_fcvt_wu_s, do_fcvt_wu_d
<1>5. /\ do_fcvt_l_s(s, i) = Converted(s, i, ToInt(s, i, INT64_MIN, INT64_MAX, INT64_MAX + 1))
      /\ do_fcvt_lu_s(s, i) = Converted(s, i, ToInt(s, i, 0, UINT64_MAX, UINT64_MAX + 1))
      /\ do_fcvt_lu_d(s, i) = Converted(s, i, ToInt(s, i, 0, UINT64_MAX, UINT64_MAX + 1))
  BY Zenon DEF do_fcvt_l_s, do_fcvt_lu_s, do_fcvt_lu_d
<1>6. do_fcvt_l_d(s, i)
        = Converted(s, i, Saturate(v, INT64_MIN, INT64_MAX, INT64_MAX + 1, llrint(v, SET_FPU(s, i).round), 0))
  BY <1>1, Zenon DEF do_fcvt_l_d
<1>a. /\ do_fcvt_w_s(s, i).gpr[i.rd]
           = Word(Low32(Saturate(v, INT32_MIN, INT32_MAX, INT32_MAX + 1, Truncate(v), 0)))
      /\ do_fcvt_w_d(s, i).gpr[i.rd] = Word(Low32(Saturate(v, INT32_MIN, INT32_MAX, INT32_MAX, Truncate(v), 0)))
      /\ do_fcvt_wu_s(s, i).gpr[i.rd] = Word(Low32(Saturate(v, 0, UINT32_MAX, UINT32_MAX + 1, Truncate(v), 0)))
      /\ do_fcvt_wu_d(s, i).gpr[i.rd] = Word(Low32(Saturate(v, 0, UINT32_MAX, UINT32_MAX, Truncate(v), 0)))
  BY <1>2, <1>3, <1>4, Zenon
<1>b. /\ do_fcvt_l_s(s, i).gpr[i.rd] = Word(Saturate(v, INT64_MIN, INT64_MAX, INT64_MAX + 1, Truncate(v), 0))
      /\ do_fcvt_lu_s(s, i).gpr[i.rd] = Word(Saturate(v, 0, UINT64_MAX, UINT64_MAX + 1, Truncate(v), 0))
      /\ do_fcvt_lu_d(s, i).gpr[i.rd] = Word(Saturate(v, 0, UINT64_MAX, UINT64_MAX + 1, Truncate(v), 0))
  BY <1>2, <1>3, <1>5, Zenon
<1>c. do_fcvt_l_d(s, i).gpr[i.rd]
        = Word(Saturate(v, INT64_MIN, INT64_MAX, INT64_MAX + 1, llrint(v, SET_FPU(s, i).round), 0))
  BY <1>2, <1>6, Zenon
<1> QED BY <1>a, <1>b, <1>c

(* The limits of the four kinds of integers.                                 *)
LEMMA Limits ==
  /\ INT32_MIN \in Int /\ INT32_MAX \in Int /\ INT32_MIN <= 0 /\ 0 <= INT32_MAX
  /\ UINT32_MAX \in Int /\ 0 <= UINT32_MAX
  /\ INT64_MIN \in Int /\ INT64_MAX \in Int /\ INT64_MIN <= 0 /\ 0 <= INT64_MAX
  /\ UINT64_MAX \in Int /\ 0 <= UINT64_MAX /\ 2 * INT64_MAX + 1 = 2 ^ XLEN - 1
<1> DEFINE M == 2 ^ XLEN
           N == 2 ^ HALF
           h == 2 ^ (XLEN - 1)
           k == 2 ^ (HALF - 1)
<1>1. M \in Nat \ {0} /\ N \in Nat \ {0} /\ h \in Nat \ {0} /\ k \in Nat \ {0} /\ M = 2 * h
  BY Widths, Signs, WidthsSigned
<1>2. INT32_MIN = -k /\ INT32_MAX = k - 1 /\ INT64_MIN = -h /\ INT64_MAX = h - 1
  BY DEF INT32_MIN, INT32_MAX, INT64_MIN, INT64_MAX
<1>3. UINT32_MAX = N - 1 /\ UINT64_MAX = M - 1
  BY DEF UINT32_MAX, UINT64_MAX
<1> HIDE DEF M, N, h, k
<1>4. INT32_MIN \in Int /\ INT32_MAX \in Int /\ INT32_MIN <= 0 /\ 0 <= INT32_MAX
  BY <1>1, <1>2, SMT
<1>5. INT64_MIN \in Int /\ INT64_MAX \in Int /\ INT64_MIN <= 0 /\ 0 <= INT64_MAX /\ 2 * INT64_MAX + 1 = M - 1
  BY <1>1, <1>2, SMT
<1>6. UINT32_MAX \in Int /\ 0 <= UINT32_MAX /\ UINT64_MAX \in Int /\ 0 <= UINT64_MAX
  BY <1>1, <1>3, SMT
<1> QED BY <1>4, <1>5, <1>6 DEF M

(* A truncated number, saturated.                                            *)
LEMMA TruncationKeeps ==
  ASSUME NEW x \in Data, NEW y \in Data, NEW min \in Int, NEW max \in Int, min <= 0, 0 <= max,
         NEW limit \in {max, max + 1}
  PROVE  /\ Saturate(x, min, max, limit, Truncate(x), 0) \in min .. max
         /\ Saturate(y, min, max, limit, Truncate(y), 0) \in min .. max
         /\ KeepsOrder(Saturate(x, min, max, limit, Truncate(x), 0),
                       Saturate(y, min, max, limit, Truncate(y), 0), x, y, min, max)
<1>1. ASSUME NEW v \in Data, Twice(v) = 2 * max + 1 PROVE Truncate(v) = max
  <2> DEFINE m == v.mag
             q == m \div 2
  <2>1. v.neg \in BOOLEAN /\ m \in Nat /\ Twice(v) = (IF v.neg THEN -m ELSE m)
        /\ Truncate(v) = (IF v.neg THEN -q ELSE q)
    BY DataAre DEF Twice, Truncate
  <2> HIDE DEF m
  <2>2. ~v.neg /\ m = 2 * max + 1
    <3>1. CASE v.neg
      <4>1. Twice(v) = -m
        BY <2>1, <3>1
      <4> QED BY <1>1, <2>1, <4>1, SMT
    <3>2. CASE ~v.neg
      BY <1>1, <2>1, <3>2
    <3> QED BY <3>1, <3>2
  <2>3. q = max
    BY <2>1, <2>2, SMT
  <2> QED BY <2>1, <2>2, <2>3
<1>2. Near(x, Truncate(x)) /\ Near(y, Truncate(y))
  BY RoundsNear
<1>3. /\ limit = max + 1 /\ Twice(x) = 2 * max + 1 => Truncate(x) = max
      /\ limit = max + 1 /\ Twice(y) = 2 * max + 1 => Truncate(y) = max
  BY <1>1
<1> DEFINE m == Truncate(x)
           n == Truncate(y)
<1> HIDE DEF m, n
<1>4. /\ Saturate(x, min, max, limit, m, 0) \in min .. max
      /\ KeepsOrder(Saturate(x, min, max, limit, m, 0), Saturate(y, min, max, limit, n, 0), x, y, min, max)
  BY <1>2, <1>3, SaturateKeeps DEF m, n
<1>5. Saturate(y, min, max, limit, n, 0) \in min .. max
  BY <1>2, <1>3, SaturateKeeps DEF m, n
<1> QED BY <1>4, <1>5 DEF m, n

(* The conversions are faithful.                                             *)
LEMMA ConversionsKeep ==
  ASSUME NEW n \in FloatInputs, ~(n.frm = DYN /\ n.rm = 5), NEW x \in Data, NEW y \in Data,
         NEW s, s = Holding(n, x), NEW t, t = Holding(n, y), NEW i, i = FloatInfo(n)
  PROVE  /\ KeepsOrder(Read(do_fcvt_w_s(s, i).gpr[i.rd], INT32_MIN, HALF),
                       Read(do_fcvt_w_s(t, i).gpr[i.rd], INT32_MIN, HALF), x, y, INT32_MIN, INT32_MAX)
         /\ KeepsOrder(Read(do_fcvt_w_d(s, i).gpr[i.rd], INT32_MIN, HALF),
                       Read(do_fcvt_w_d(t, i).gpr[i.rd], INT32_MIN, HALF), x, y, INT32_MIN, INT32_MAX)
         /\ KeepsOrder(Read(do_fcvt_wu_s(s, i).gpr[i.rd], 0, HALF),
                       Read(do_fcvt_wu_s(t, i).gpr[i.rd], 0, HALF), x, y, 0, UINT32_MAX)
         /\ KeepsOrder(Read(do_fcvt_wu_d(s, i).gpr[i.rd], 0, HALF),
                       Read(do_fcvt_wu_d(t, i).gpr[i.rd], 0, HALF), x, y, 0, UINT32_MAX)
         /\ KeepsOrder(Read(do_fcvt_l_s(s, i).gpr[i.rd], INT64_MIN, XLEN),
                       Read(do_fcvt_l_s(t, i).gpr[i.rd], INT64_MIN, XLEN), x, y, INT64_MIN, INT64_MAX)
         /\ KeepsOrder(Read(do_fcvt_l_d(s, i).gpr[i.rd], INT64_MIN, XLEN),
                       Read(do_fcvt_l_d(t, i).gpr[i.rd], INT64_MIN, XLEN), x, y, INT64_MIN, INT64_MAX)
         /\ KeepsOrder(Read(do_fcvt_lu_s(s, i).gpr[i.rd], 0, XLEN),
                       Read(do_fcvt_lu_s(t, i).gpr[i.rd], 0, XLEN), x, y, 0, UINT64_MAX)
         /\ KeepsOrder(Read(do_fcvt_lu_d(s, i).gpr[i.rd], 0, XLEN),
                       Read(do_fcvt_lu_d(t, i).gpr[i.rd], 0, XLEN), x, y, 0, UINT64_MAX)
<1> DEFINE To(v, min, max, limit) == Saturate(v, min, max, limit, Truncate(v), 0)
           Rounded(v, u) == Saturate(v, INT64_MIN, INT64_MAX, INT64_MAX + 1, llrint(v, SET_FPU(u, i).round), 0)
<1>1. /\ do_fcvt_w_s(s, i).gpr[i.rd] = Word(Low32(To(x, INT32_MIN, INT32_MAX, INT32_MAX + 1)))
      /\ do_fcvt_w_d(s, i).gpr[i.rd] = Word(Low32(To(x, INT32_MIN, INT32_MAX, INT32_MAX)))
      /\ do_fcvt_wu_s(s, i).gpr[i.rd] = Word(Low32(To(x, 0, UINT32_MAX, UINT32_MAX + 1)))
      /\ do_fcvt_wu_d(s, i).gpr[i.rd] = Word(Low32(To(x, 0, UINT32_MAX, UINT32_MAX)))
      /\ do_fcvt_l_s(s, i).gpr[i.rd] = Word(To(x, INT64_MIN, INT64_MAX, INT64_MAX + 1))
      /\ do_fcvt_l_d(s, i).gpr[i.rd] = Word(Rounded(x, s))
      /\ do_fcvt_lu_s(s, i).gpr[i.rd] = Word(To(x, 0, UINT64_MAX, UINT64_MAX + 1))
      /\ do_fcvt_lu_d(s, i).gpr[i.rd] = Word(To(x, 0, UINT64_MAX, UINT64_MAX + 1))
  BY ConversionsWrite
<1>2. /\ do_fcvt_w_s(t, i).gpr[i.rd] = Word(Low32(To(y, INT32_MIN, INT32_MAX, INT32_MAX + 1)))
      /\ do_fcvt_w_d(t, i).gpr[i.rd] = Word(Low32(To(y, INT32_MIN, INT32_MAX, INT32_MAX)))
      /\ do_fcvt_wu_s(t, i).gpr[i.rd] = Word(Low32(To(y, 0, UINT32_MAX, UINT32_MAX + 1)))
      /\ do_fcvt_wu_d(t, i).gpr[i.rd] = Word(Low32(To(y, 0, UINT32_MAX, UINT32_MAX)))
      /\ do_fcvt_l_s(t, i).gpr[i.rd] = Word(To(y, INT64_MIN, INT64_MAX, INT64_MAX + 1))
      /\ do_fcvt_l_d(t, i).gpr[i.rd] = Word(Rounded(y, t))
      /\ do_fcvt_lu_s(t, i).gpr[i.rd] = Word(To(y, 0, UINT64_MAX, UINT64_MAX + 1))
      /\ do_fcvt_lu_d(t, i).gpr[i.rd] = Word(To(y, 0, UINT64_MAX, UINT64_MAX + 1))
  BY ConversionsWrite
<1>3. ASSUME NEW min \in Int, NEW max \in Int, min <= 0, 0 <= max, NEW limit \in {max, max + 1}
      PROVE  /\ To(x, min, max, limit) \in min .. max /\ To(y, min, max, limit) \in min .. max
             /\ KeepsOrder(To(x, min, max, limit), To(y, min, max, limit), x, y, min, max)
  BY <1>3, TruncationKeeps
<1>4. /\ Rounded(x, s) \in INT64_MIN .. INT64_MAX /\ Rounded(y, t) \in INT64_MIN .. INT64_MAX
      /\ KeepsOrder(Rounded(x, s), Rounded(y, t), x, y, INT64_MIN, INT64_MAX)
  <2> DEFINE f == SET_FPU(s, i).round
             g == SET_FPU(t, i).round
             m == llrint(x, f)
             k == llrint(y, g)
  <2>1. f \in {RNE, RTZ, RDN, RUP} /\ g \in {RNE, RTZ, RDN, RUP}
    BY HoldingWrites
  <2>2. Near(x, m) /\ Near(y, k)
    <3> HIDE DEF f, g
    <3> QED BY <2>1, RoundsNear
  <2>3. Twice(x) # 2 * INT64_MAX + 1 /\ Twice(y) # 2 * INT64_MAX + 1
    BY DataAre, Limits
  <2> HIDE DEF m, k
  <2>4. ASSUME NEW v \in Data, NEW w \in Data, NEW p, NEW q, Near(v, p), Near(w, q),
               Twice(v) # 2 * INT64_MAX + 1, Twice(w) # 2 * INT64_MAX + 1
        PROVE  /\ Saturate(v, INT64_MIN, INT64_MAX, INT64_MAX + 1, p, 0) \in INT64_MIN .. INT64_MAX
               /\ KeepsOrder(Saturate(v, INT64_MIN, INT64_MAX, INT64_MAX + 1, p, 0),
                             Saturate(w, INT64_MIN, INT64_MAX, INT64_MAX + 1, q, 0), v, w, INT64_MIN, INT64_MAX)
    <3>1. INT64_MIN \in Int /\ INT64_MAX \in Int /\ INT64_MIN <= 0 /\ 0 <= INT64_MAX
          /\ INT64_MAX + 1 \in {INT64_MAX, INT64_MAX + 1}
      BY Limits
    <3> QED BY <2>4, <3>1, SaturateKeeps
  <2>5. Rounded(x, s) = Saturate(x, INT64_MIN, INT64_MAX, INT64_MAX + 1, m, 0)
        /\ Rounded(y, t) = Saturate(y, INT64_MIN, INT64_MAX, INT64_MAX + 1, k, 0)
    BY DEF m, k
  <2> HIDE DEF Rounded
  <2> QED BY <2>2, <2>3, <2>4, <2>5
<1> HIDE DEF To, Rounded
<1>5. /\ INT32_MIN \in Int /\ INT32_MAX \in Int /\ INT32_MIN <= 0 /\ 0 <= INT32_MAX
      /\ UINT32_MAX \in Int /\ 0 <= UINT32_MAX /\ 0 \in Int /\ 0 <= 0
      /\ INT64_MIN \in Int /\ INT64_MAX \in Int /\ INT64_MIN <= 0 /\ 0 <= INT64_MAX
      /\ UINT64_MAX \in Int /\ 0 <= UINT64_MAX
  BY Limits, SMT
<1>a. /\ KeepsOrder(Read(do_fcvt_w_s(s, i).gpr[i.rd], INT32_MIN, HALF),
                    Read(do_fcvt_w_s(t, i).gpr[i.rd], INT32_MIN, HALF), x, y, INT32_MIN, INT32_MAX)
      /\ KeepsOrder(Read(do_fcvt_w_d(s, i).gpr[i.rd], INT32_MIN, HALF),
                    Read(do_fcvt_w_d(t, i).gpr[i.rd], INT32_MIN, HALF), x, y, INT32_MIN, INT32_MAX)
  <2>1. \A limit \in {INT32_MAX, INT32_MAX + 1} :
          /\ To(x, INT32_MIN, INT32_MAX, limit) \in INT32_MIN .. INT32_MAX
          /\ To(y, INT32_MIN, INT32_MAX, limit) \in INT32_MIN .. INT32_MAX
          /\ KeepsOrder(To(x, INT32_MIN, INT32_MAX, limit), To(y, INT32_MIN, INT32_MAX, limit), x, y,
                        INT32_MIN, INT32_MAX)
    BY <1>3, <1>5
  <2>2. \A v \in INT32_MIN .. INT32_MAX : Read(Word(Low32(v)), INT32_MIN, HALF) = v
    BY ReadsBack
  <2> QED BY <1>1, <1>2, <2>1, <2>2, Zenon
<1>b. /\ KeepsOrder(Read(do_fcvt_wu_s(s, i).gpr[i.rd], 0, HALF),
                    Read(do_fcvt_wu_s(t, i).gpr[i.rd], 0, HALF), x, y, 0, UINT32_MAX)
      /\ KeepsOrder(Read(do_fcvt_wu_d(s, i).gpr[i.rd], 0, HALF),
                    Read(do_fcvt_wu_d(t, i).gpr[i.rd], 0, HALF), x, y, 0, UINT32_MAX)
  <2>1. \A limit \in {UINT32_MAX, UINT32_MAX + 1} :
          /\ To(x, 0, UINT32_MAX, limit) \in 0 .. UINT32_MAX
          /\ To(y, 0, UINT32_MAX, limit) \in 0 .. UINT32_MAX
          /\ KeepsOrder(To(x, 0, UINT32_MAX, limit), To(y, 0, UINT32_MAX, limit), x, y, 0, UINT32_MAX)
    BY <1>3, <1>5
  <2>2. \A v \in 0 .. UINT32_MAX : Read(Word(Low32(v)), 0, HALF) = v
    BY ReadsBack
  <2> QED BY <1>1, <1>2, <2>1, <2>2, Zenon
<1>c. KeepsOrder(Read(do_fcvt_l_s(s, i).gpr[i.rd], INT64_MIN, XLEN),
                 Read(do_fcvt_l_s(t, i).gpr[i.rd], INT64_MIN, XLEN), x, y, INT64_MIN, INT64_MAX)
  <2>1. /\ To(x, INT64_MIN, INT64_MAX, INT64_MAX + 1) \in INT64_MIN .. INT64_MAX
        /\ To(y, INT64_MIN, INT64_MAX, INT64_MAX + 1) \in INT64_MIN .. INT64_MAX
        /\ KeepsOrder(To(x, INT64_MIN, INT64_MAX, INT64_MAX + 1), To(y, INT64_MIN, INT64_MAX, INT64_MAX + 1),
                      x, y, INT64_MIN, INT64_MAX)
    BY <1>3, <1>5
  <2>2. \A v \in INT64_MIN .. INT64_MAX : Read(Word(v), INT64_MIN, XLEN) = v
    BY ReadsBack
  <2> QED BY <1>1, <1>2, <2>1, <2>2, Zenon
<1>d. KeepsOrder(Read(do_fcvt_l_d(s, i).gpr[i.rd], INT64_MIN, XLEN),
                 Read(do_fcvt_l_d(t, i).gpr[i.rd], INT64_MIN, XLEN), x, y, INT64_MIN, INT64_MAX)
  <2>1. \A v \in INT64_MIN .. INT64_MAX : Read(Word(v), INT64_MIN, XLEN) = v
    BY ReadsBack
  <2> QED BY <1>1, <1>2, <1>4, <2>1, Zenon
<1>e. /\ KeepsOrder(Read(do_fcvt_lu_s(s, i).gpr[i.rd], 0, XLEN),
                    Read(do_fcvt_lu_s(t, i).gpr[i.rd], 0, XLEN), x, y, 0, UINT64_MAX)
      /\ KeepsOrder(Read(do_fcvt_lu_d(s, i).gpr[i.rd], 0, XLEN),
                    Read(do_fcvt_lu_d(t, i).gpr[i.rd], 0, XLEN), x, y, 0, UINT64_MAX)
  <2>1. /\ To(x, 0, UINT64_MAX, UINT64_MAX + 1) \in 0 .. UINT64_MAX
        /\ To(y, 0, UINT64_MAX, UINT64_MAX + 1) \in 0 .. UINT64_MAX
        /\ KeepsOrder(To(x, 0, UINT64_MAX, UINT64_MAX + 1), To(y, 0, UINT64_MAX, UINT64_MAX + 1),
                      x, y, 0, UINT64_MAX)
    BY <1>3, <1>5
  <2>2. \A v \in 0 .. UINT64_MAX : Read(Word(v), 0, XLEN) = v
    BY ReadsBack
  <2> QED BY <1>1, <1>2, <2>1, <2>2, Zenon
<1> QED BY <1>a, <1>b, <1>c, <1>d, <1>e

(* The class of a number grows with the number.                              *)
LEMMA ClassesGrow ==
  ASSUME NEW x \in Data, NEW y \in Data, ~IsNan(x), ~IsNan(y)
  PROVE  /\ fclass(x) \in 0 .. 7 /\ fclass(y) \in 0 .. 7
         /\ Twice(x) < Twice(y) => fclass(x) <= fclass(y)
<1> DEFINE M == 2 ^ XLEN
<1>1. M \in Nat /\ M >= 256
  BY Sizes, SMT
<1>2. ASSUME NEW v \in Data, ~IsNan(v)
      PROVE  /\ Twice(v) \in Int
             /\ \/ fclass(v) = 0 /\ Twice(v) = -(4 * M)
                \/ fclass(v) = 1 /\ Twice(v) <= -2 /\ Twice(v) >= -(M + 1)
                \/ fclass(v) = 2 /\ Twice(v) = -1
                \/ fclass(v) = 3 /\ Twice(v) = 0
                \/ fclass(v) = 4 /\ Twice(v) = 0
                \/ fclass(v) = 5 /\ Twice(v) = 1
                \/ fclass(v) = 6 /\ Twice(v) >= 2 /\ Twice(v) <= M + 1
                \/ fclass(v) = 7 /\ Twice(v) = 4 * M
  <2> DEFINE m == v.mag
             T == Twice(v)
             c == fclass(v)
  <2>1. v.kind \in {"zero", "subnormal", "normal", "infinite"}
    BY <1>2, DataAre DEF IsNan
  <2>2. /\ v.neg \in BOOLEAN /\ m \in Nat /\ T \in Int
        /\ v.kind = "zero" => m = 0
        /\ v.kind = "subnormal" => m = 1
        /\ v.kind = "normal" => m \in 2 .. M + 1
        /\ v.kind = "infinite" => m = 4 * M
    BY DataAre
  <2>3. T = IF v.neg THEN -m ELSE m
    BY DEF Twice
  <2>4. /\ v.kind = "zero" => c = IF v.neg THEN 3 ELSE 4
        /\ v.kind = "subnormal" => c = IF v.neg THEN 2 ELSE 5
        /\ v.kind = "normal" => c = IF v.neg THEN 1 ELSE 6
        /\ v.kind = "infinite" => c = IF v.neg THEN 0 ELSE 7
    <3>1. v.kind = "zero" => c = IF v.neg THEN 3 ELSE 4
      BY SMT DEF fclass, is_quiet_nan, is_signaling_nan
    <3>2. v.kind = "subnormal" => c = IF v.neg THEN 2 ELSE 5
      BY SMT DEF fclass, is_quiet_nan, is_signaling_nan
    <3>3. v.kind = "normal" => c = IF v.neg THEN 1 ELSE 6
      BY SMT DEF fclass, is_quiet_nan, is_signaling_nan
    <3>4. v.kind = "infinite" => c = IF v.neg THEN 0 ELSE 7
      BY SMT DEF fclass, is_quiet_nan, is_signaling_nan
    <3> QED BY <3>1, <3>2, <3>3, <3>4
  <2> HIDE DEF M, m, T, c
  <2>5. T + m = 0 \/ T = m
    <3>1. \A k \in Int : -k + k = 0
      BY SMT
    <3>2. m \in Int
      BY <2>2, SMT
    <3> QED BY <2>2, <2>3, <3>1, <3>2
  <2>6. CASE v.kind = "zero"
    <3>1. T = 0 /\ (c = 3 \/ c = 4)
      BY <2>2, <2>4, <2>5, <2>6, SMT
    <3> QED BY <3>1, <2>2 DEF T, c
  <2>7. CASE v.kind = "subnormal"
    <3>1. (T = -1 /\ c = 2) \/ (T = 1 /\ c = 5)
      BY <2>2, <2>3, <2>4, <2>7
    <3> QED BY <3>1, <2>2 DEF T, c
  <2>8. CASE v.kind = "normal"
    <3>1. (T = -m /\ c = 1) \/ (T = m /\ c = 6)
      BY <2>2, <2>3, <2>4, <2>8
    <3>2. m \in 2 .. M + 1
      BY <2>2, <2>8
    <3>3. (c = 1 /\ T <= -2 /\ T >= -(M + 1)) \/ (c = 6 /\ T >= 2 /\ T <= M + 1)
      BY <1>1, <2>2, <3>1, <3>2, SMT
    <3> QED BY <3>3, <2>2 DEF T, c
  <2>9. CASE v.kind = "infinite"
    <3>1. (T = -(4 * M) /\ c = 0) \/ (T = 4 * M /\ c = 7)
      BY <2>2, <2>3, <2>4, <2>9
    <3> QED BY <3>1, <2>2 DEF T, c
  <2> QED BY <2>1, <2>6, <2>7, <2>8, <2>9
<1> DEFINE T == Twice(x)
           U == Twice(y)
           c == fclass(x)
           d == fclass(y)
<1>3. /\ T \in Int
      /\ \/ c = 0 /\ T = -(4 * M)
         \/ c = 1 /\ T <= -2 /\ T >= -(M + 1)
         \/ c = 2 /\ T = -1
         \/ c = 3 /\ T = 0
         \/ c = 4 /\ T = 0
         \/ c = 5 /\ T = 1
         \/ c = 6 /\ T >= 2 /\ T <= M + 1
         \/ c = 7 /\ T = 4 * M
  BY <1>2
<1>4. /\ U \in Int
      /\ \/ d = 0 /\ U = -(4 * M)
         \/ d = 1 /\ U <= -2 /\ U >= -(M + 1)
         \/ d = 2 /\ U = -1
         \/ d = 3 /\ U = 0
         \/ d = 4 /\ U = 0
         \/ d = 5 /\ U = 1
         \/ d = 6 /\ U >= 2 /\ U <= M + 1
         \/ d = 7 /\ U = 4 * M
  BY <1>2
<1> HIDE DEF M, T, U, c, d
<1>5. c \in 0 .. 7 /\ d \in 0 .. 7
  BY <1>3, <1>4, SMT
<1>6. T < U => c <= d
  BY <1>1, <1>3, <1>4, SMT
<1> QED BY <1>5, <1>6 DEF T, U, c, d

(* What comparisons and classes write, a class being small.                  *)
LEMMA ComparisonsWrite ==
  ASSUME NEW n \in FloatInputs, ~(n.frm = DYN /\ n.rm = 5), NEW v \in Data,
         NEW s, s = Holding(n, v), NEW i, i = FloatInfo(n)
  PROVE  /\ do_feq_s(s, i).gpr[i.rd] = Flag(Equal(v, n.y)) /\ do_feq_d(s, i).gpr[i.rd] = Flag(Equal(v, n.y))
         /\ do_flt_s(s, i).gpr[i.rd] = Flag(Less(v, n.y)) /\ do_flt_d(s, i).gpr[i.rd] = Flag(Less(v, n.y))
         /\ do_fle_s(s, i).gpr[i.rd] = Flag(Less(v, n.y) \/ Equal(v, n.y))
         /\ do_fle_d(s, i).gpr[i.rd] = Flag(Less(v, n.y) \/ Equal(v, n.y))
         /\ ~IsNan(v) => do_fclass_s(s, i).gpr[i.rd] = fclass(v)
<1>1. F1(s, i) = v /\ F2(s, i) = n.y
  BY HoldingWrites
<1>2. \A w : DEST(s, i, w).gpr[i.rd] = Word(w)
  BY HoldingWrites
<1>3. \A b : Word(Flag(b)) = Flag(b)
  <2>1. Word(0) = 0 /\ Word(1) = 1
    <3>1. \A w \in Words : w \in Int
      BY Widths
    <3> QED BY <3>1, SmallWords, WordType
  <2> QED BY <2>1 DEF Flag
<1>4. ~IsNan(v) => Word(fclass(v)) = fclass(v)
  <2> DEFINE c == fclass(v)
             M == 2 ^ XLEN
  <2>1. ~IsNan(v) => c \in 0 .. 7
    BY ClassesGrow
  <2>2. M \in Nat /\ M >= 256
    BY Sizes, SMT
  <2> HIDE DEF c, M
  <2>3. c \in 0 .. 7 => c \in Int /\ c \in 0 .. M - 1
    BY <2>2, SMT
  <2>4. ~IsNan(v) => c \in Int /\ c \in Words
    BY <2>1, <2>3 DEF Words, M
  <2> QED BY <2>4, WordType DEF c
<1>a. /\ do_feq_s(s, i).gpr[i.rd] = Flag(Equal(v, n.y)) /\ do_feq_d(s, i).gpr[i.rd] = Flag(Equal(v, n.y))
      /\ do_flt_s(s, i).gpr[i.rd] = Flag(Less(v, n.y)) /\ do_flt_d(s, i).gpr[i.rd] = Flag(Less(v, n.y))
  BY <1>1, <1>2, <1>3, Zenon DEF do_feq_s, do_feq_d, do_flt_s, do_flt_d
<1>b. /\ do_fle_s(s, i).gpr[i.rd] = Flag(Less(v, n.y) \/ Equal(v, n.y))
      /\ do_fle_d(s, i).gpr[i.rd] = Flag(Less(v, n.y) \/ Equal(v, n.y))
  BY <1>1, <1>2, <1>3, Zenon DEF do_fle_s, do_fle_d
<1>c. ~IsNan(v) => do_fclass_s(s, i).gpr[i.rd] = fclass(v)
  BY <1>1, <1>2, <1>4, Zenon DEF do_fclass_s
<1> QED BY <1>a, <1>b, <1>c

(* What sign injection writes into a number.                                 *)
LEMMA InjectionWrites ==
  ASSUME NEW n \in FloatInputs, ~IsNan(n.x), NEW s, s = FloatHart(n), NEW i, i = FloatInfo(n)
  PROVE  /\ do_fsgnj_s(s, i).fpr[i.rd].v = WithSign(n.x, n.y.neg)
         /\ do_fsgnj_d(s, i).fpr[i.rd].v = WithSign(n.x, n.y.neg)
         /\ do_fsgnjn_s(s, i).fpr[i.rd].v = WithSign(n.x, ~n.y.neg)
         /\ do_fsgnjn_d(s, i).fpr[i.rd].v = WithSign(n.x, ~n.y.neg)
<1> DEFINE x == n.x
           sign == n.y.neg
<1>1. s \in FloatHarts /\ i \in FloatInfos /\ F1(s, i) = x /\ F2(s, i) = n.y
  BY FloatTypes DEF FloatInputs
<1>2. \A v : FDESTS(s, i, v).fpr[i.rd].v = v /\ FDESTD(s, i, v).fpr[i.rd].v = v
  BY <1>1 DEF FDESTS, FDESTD, FloatHarts, FloatInfos
<1>3. x \in Data /\ sign \in BOOLEAN
  BY DataAre DEF FloatInputs
<1>4. /\ WithSign(x, FALSE).kind = x.kind /\ WithSign(x, FALSE).neg = FALSE
      /\ \A b : WithSign(WithSign(x, FALSE), b) = WithSign(x, b)
  <2>1. \E k, b, m : x = [kind |-> k, neg |-> b, mag |-> m]
    <3> HIDE DEF x
    <3> QED BY <1>3 DEF Data, Datum
  <2> HIDE DEF x
  <2> QED BY <2>1 DEF WithSign
<1>5. ~IsNan(WithSign(x, FALSE))
  BY <1>4 DEF IsNan
<1>6. (FALSE # sign) = sign /\ (FALSE # ~sign) = ~sign
  BY <1>3
<1> HIDE DEF x, sign
<1>7. fsgnj(s, i) = WithSign(x, sign) /\ fsgnjn(s, i) = WithSign(x, ~sign)
  <2>1. F2(s, i).neg = sign
    BY <1>1 DEF sign
  <2> QED BY <1>1, <1>4, <1>5, <1>6, <2>1, Zenon DEF fsgnj, fsgnjn, Times, Abs
<1> QED BY <1>2, <1>7, Zenon DEF do_fsgnj_s, do_fsgnj_d, do_fsgnjn_s, do_fsgnjn_d, x, sign

(* Conversions to integers keep the order of their operands and saturate at  *)
(* the limits; comparisons are those of the values; class, minimum, maximum  *)
(* and the injection of a sign or its opposite are as ConversionsKeepOrder   *)
(* says.                                                                     *)
THEOREM ConversionsAreFaithful ==
  HartSpec => []ConversionsKeepOrder
<1>1. Picked => ConversionsKeepOrder
  <2> SUFFICES ASSUME Picked, unit = "float", ~(input.frm = DYN /\ input.rm = 5)
               PROVE  ConversionsKeepOrder
    BY Zenon DEF ConversionsKeepOrder, Is
  <2> DEFINE x == input.x
             y == input.y
             i == FloatInfo(input)
             s == Holding(input, x)
             t == Holding(input, y)
  <2>1. input \in FloatInputs
    BY DEF Picked, FloatInputs
  <2>2. x \in Data /\ y \in Data
    BY <2>1 DEF FloatInputs
  <2>3. Twice(x) \in Int /\ Twice(y) \in Int
    BY <2>2, DataAre
  <2> HIDE DEF x, y, s, t, i
  <2>4. s = Holding(input, x) /\ t = Holding(input, y) /\ i = FloatInfo(input)
    BY DEF s, t, i
  <2>5. /\ do_feq_s(s, i).gpr[i.rd] = Flag(Equal(x, y)) /\ do_feq_d(s, i).gpr[i.rd] = Flag(Equal(x, y))
        /\ do_flt_s(s, i).gpr[i.rd] = Flag(Less(x, y)) /\ do_flt_d(s, i).gpr[i.rd] = Flag(Less(x, y))
        /\ do_fle_s(s, i).gpr[i.rd] = Flag(Less(x, y) \/ Equal(x, y))
        /\ do_fle_d(s, i).gpr[i.rd] = Flag(Less(x, y) \/ Equal(x, y))
        /\ ~IsNan(x) => do_fclass_s(s, i).gpr[i.rd] = fclass(x)
    BY <2>1, <2>2, <2>4, ComparisonsWrite DEF y
  <2>6. ~IsNan(y) => do_fclass_s(t, i).gpr[i.rd] = fclass(y)
    BY <2>1, <2>2, <2>4, ComparisonsWrite
  <2> DEFINE known == ~IsNan(x) /\ ~IsNan(y)
  <2>7. /\ Equal(x, y) <=> known /\ Twice(x) = Twice(y)
        /\ Less(x, y) <=> known /\ Twice(x) < Twice(y)
        /\ Less(x, y) \/ Equal(x, y) <=> known /\ Twice(x) <= Twice(y)
    BY <2>3, SMT DEF Less, Equal
  <2>a. /\ do_feq_s(s, i).gpr[i.rd] = Flag(known /\ Twice(x) = Twice(y))
        /\ do_flt_s(s, i).gpr[i.rd] = Flag(known /\ Twice(x) < Twice(y))
        /\ do_fle_s(s, i).gpr[i.rd] = Flag(known /\ Twice(x) <= Twice(y))
        /\ do_feq_d(s, i).gpr[i.rd] = Flag(known /\ Twice(x) = Twice(y))
        /\ do_flt_d(s, i).gpr[i.rd] = Flag(known /\ Twice(x) < Twice(y))
        /\ do_fle_d(s, i).gpr[i.rd] = Flag(known /\ Twice(x) <= Twice(y))
    <3> HIDE DEF known
    <3> QED BY <2>5, <2>7, Zenon DEF Flag
  <2>b. ~IsNan(x) /\ ~IsNan(y) => (Less(x, y) => do_fclass_s(s, i).gpr[i.rd] <= do_fclass_s(t, i).gpr[i.rd])
    BY <2>2, <2>5, <2>6, ClassesGrow DEF Less
  <2>c. ~IsNan(x) /\ ~IsNan(y) => (~Equal(x, y) => {std_min(x, y), std_max(x, y)} = {x, y})
    <3> SUFFICES ASSUME ~IsNan(x), ~IsNan(y), ~Equal(x, y) PROVE {std_min(x, y), std_max(x, y)} = {x, y}
      OBVIOUS
    <3>1. (Less(x, y) /\ ~Less(y, x)) \/ (Less(y, x) /\ ~Less(x, y))
      BY <2>3, SMT DEF Less, Equal
    <3> QED BY <3>1 DEF std_min, std_max
  <2>d. ~IsNan(x) /\ ~IsNan(y) => ~Less(std_max(x, y), std_min(x, y))
    <3>1. CASE Less(x, y)
      <4>1. ~Less(y, x)
        BY <2>3, <3>1, SMT DEF Less
      <4> QED BY <3>1, <4>1 DEF std_min, std_max
    <3>2. CASE ~Less(x, y)
      <4>1. std_max(x, y) = x
        BY <3>2 DEF std_max
      <4>2. ~Less(x, x)
        BY <2>3, SMT DEF Less
      <4> QED BY <3>2, <4>1, <4>2 DEF std_min
    <3> QED BY <3>1, <3>2
  <2>e. ~IsNan(x) => /\ do_fsgnj_s(FloatHart(input), i).fpr[i.rd].v = WithSign(x, y.neg)
                     /\ do_fsgnj_d(FloatHart(input), i).fpr[i.rd].v = WithSign(x, y.neg)
                     /\ do_fsgnjn_s(FloatHart(input), i).fpr[i.rd].v = WithSign(x, ~y.neg)
                     /\ do_fsgnjn_d(FloatHart(input), i).fpr[i.rd].v = WithSign(x, ~y.neg)
    BY <2>1, <2>4, InjectionWrites DEF x, y
  <2>f. /\ KeepsOrder(Read(do_fcvt_w_s(s, i).gpr[i.rd], INT32_MIN, HALF),
                      Read(do_fcvt_w_s(t, i).gpr[i.rd], INT32_MIN, HALF), x, y, INT32_MIN, INT32_MAX)
        /\ KeepsOrder(Read(do_fcvt_w_d(s, i).gpr[i.rd], INT32_MIN, HALF),
                      Read(do_fcvt_w_d(t, i).gpr[i.rd], INT32_MIN, HALF), x, y, INT32_MIN, INT32_MAX)
        /\ KeepsOrder(Read(do_fcvt_wu_s(s, i).gpr[i.rd], 0, HALF),
                      Read(do_fcvt_wu_s(t, i).gpr[i.rd], 0, HALF), x, y, 0, UINT32_MAX)
        /\ KeepsOrder(Read(do_fcvt_wu_d(s, i).gpr[i.rd], 0, HALF),
                      Read(do_fcvt_wu_d(t, i).gpr[i.rd], 0, HALF), x, y, 0, UINT32_MAX)
        /\ KeepsOrder(Read(do_fcvt_l_s(s, i).gpr[i.rd], INT64_MIN, XLEN),
                      Read(do_fcvt_l_s(t, i).gpr[i.rd], INT64_MIN, XLEN), x, y, INT64_MIN, INT64_MAX)
        /\ KeepsOrder(Read(do_fcvt_l_d(s, i).gpr[i.rd], INT64_MIN, XLEN),
                      Read(do_fcvt_l_d(t, i).gpr[i.rd], INT64_MIN, XLEN), x, y, INT64_MIN, INT64_MAX)
        /\ KeepsOrder(Read(do_fcvt_lu_s(s, i).gpr[i.rd], 0, XLEN),
                      Read(do_fcvt_lu_s(t, i).gpr[i.rd], 0, XLEN), x, y, 0, UINT64_MAX)
        /\ KeepsOrder(Read(do_fcvt_lu_d(s, i).gpr[i.rd], 0, XLEN),
                      Read(do_fcvt_lu_d(t, i).gpr[i.rd], 0, XLEN), x, y, 0, UINT64_MAX)
    BY <2>1, <2>2, <2>4, ConversionsKeep
  <2> QED BY <2>a, <2>b, <2>c, <2>d, <2>e, <2>f, Zenon
          DEF ConversionsKeepOrder, KeepsOrder, NearestTo, Read, Holding, x, y, s, t, i
<1> QED BY <1>1, UnitsPick, PTL
=============================================================================
