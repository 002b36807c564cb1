---------------------------- MODULE VirtIOProofs ----------------------------
(***************************************************************************)
(* Proofs about VirtIO, for any queue size that divides the range of the   *)
(* indices, any disk and any requests: its types, that the device shows no *)
(* status bit the driver has not written, and that the rings implement     *)
(* BlockQueue.                                                             *)
(*                                                                         *)
(* Waiting, Taken and Answered are the chains between two indices.  They   *)
(* and the free ones never share a chain (OwnInv), so a slot is not        *)
(* written while the request in it waits, and together they are no more    *)
(* than the queue holds (RoomInv), so an index that wraps never makes a    *)
(* full ring look empty.                                                   *)
(***************************************************************************)
EXTENDS VirtIO, FiniteSetTheorems, SequenceTheorems, TLAPS

-----------------------------------------------------------------------------
(* Remainders, and indices that wrap.                                        *)

M == 2 ^ INDEX_BITS

LEMMA Sizes ==
  /\ M \in Nat \ {0} /\ NUM \in Nat \ {0} /\ NUM < M /\ M % NUM = 0
  /\ Index = 0 .. M - 1 /\ Descs = 0 .. NUM - 1
BY VirtIOAssumption DEF M, Index, Descs

LEMMA Euclid ==
  ASSUME NEW n \in Nat \ {0}, NEW x \in Nat, NEW q, q = x \div n
  PROVE  q \in Nat /\ x % n = x - n * q /\ n * q \in Nat /\ (n * q) % n = 0
<1>1. q \in Nat
  BY SMT
<1>2. x % n = x - n * q
  BY <1>1, SMT
<1>3. n * q \in Nat
  BY <1>1, SMT
<1>4. (n * q) % n = 0
  BY <1>1, SMT
<1> QED
  BY <1>1, <1>2, <1>3, <1>4

LEMMA Division ==
  ASSUME NEW n \in Nat \ {0}, NEW y \in Int, NEW r \in 0 .. n - 1
  PROVE  (n * y + r) % n = r
<1>1. \A x \in Int : x = n * y + r => x % n = r
  BY SMT
<1>2. n * y + r \in Int
  BY SMT
<1> QED BY <1>1, <1>2

LEMMA Shifted ==
  ASSUME NEW n \in Nat \ {0}, NEW m \in Nat, m % n = 0, NEW x \in Nat
  PROVE  (x - m) % n = x % n
<1>1. PICK k \in Nat : m = n * k
  BY SMT
<1> DEFINE q == x \div n
           r == x % n
<1>2. q \in Nat /\ r = x - n * q
  BY Euclid
<1>3. r \in 0 .. n - 1
  BY SMT
<1> HIDE DEF q, r
<1>4. n * (q - k) = n * q - n * k
  BY <1>1, <1>2, SMT
<1>5. n * q \in Int /\ n * k \in Int
  BY <1>1, <1>2, SMT
<1>6. x - m = n * (q - k) + r
  BY <1>1, <1>2, <1>3, <1>4, <1>5, SMT
<1>7. (n * (q - k) + r) % n = r
  <2>1. q - k \in Int
    BY <1>1, <1>2, SMT
  <2> QED BY <1>3, <2>1, Division
<1> QED BY <1>6, <1>7 DEF r

LEMMA SameRemainder ==
  ASSUME NEW n \in Nat \ {0}, NEW a \in Nat, NEW b \in Nat, a < b, b - a < n
  PROVE  a % n # b % n
<1> DEFINE q == a \div n
           m == n * q
<1>1. m \in Nat /\ m % n = 0 /\ a % n = a - m
  BY Euclid
<1> HIDE DEF m
<1>2. (b - m) % n = b % n
  BY <1>1, Shifted
<1>3. a % n \in 0 .. n - 1
  BY SMT
<1>4. b - m \in 1 .. 2 * n - 1
  BY <1>1, <1>3, SMT
<1>5. (b - m) % n = IF b - m < n THEN b - m ELSE b - m - n
  BY <1>1, <1>4, SMT
<1> QED
  BY <1>1, <1>2, <1>5, <1>3, SMT

LEMMA Wraps ==
  ASSUME NEW x \in 0 .. 2 * M - 1
  PROVE  /\ x % M = IF x < M THEN x ELSE x - M
         /\ x % M \in Index
         /\ (x % M) % NUM = x % NUM
         /\ x % NUM \in Descs
<1> HIDE DEF M
<1>1. x % M = IF x < M THEN x ELSE x - M
  BY Sizes, SMT
<1>2. (x % M) % NUM = x % NUM
  <2>1. x \in Nat /\ M \in Nat
    BY Sizes, SMT
  <2>2. (x - M) % NUM = x % NUM
    BY <2>1, Sizes, Shifted
  <2> QED BY <1>1, <2>2
<1> QED
  BY <1>1, <1>2, Sizes, SMT

(* How far one index of a ring is behind another.                            *)
Distance(first, last) == (last - first) % M

LEMMA DistanceDef ==
  ASSUME NEW first \in Index, NEW last \in Index
  PROVE  /\ Distance(first, last) = IF first <= last THEN last - first ELSE last - first + M
         /\ Distance(first, last) \in 0 .. M - 1
         /\ Distance(first, last) = 0 <=> first = last
<1> HIDE DEF M
<1> QED BY Sizes, SMT DEF Distance

LEMMA IncDef ==
  ASSUME NEW i \in Index
  PROVE  Inc(i) \in Index /\ Inc(i) = IF i + 1 < M THEN i + 1 ELSE 0
<1>1. Inc(i) = (i + 1) % M
  BY DEF Inc, M
<1> HIDE DEF M
<1> QED BY <1>1, Sizes, SMT

LEMMA DistanceGrows ==
  ASSUME NEW first \in Index, NEW last \in Index, Distance(first, last) < M - 1
  PROVE  Distance(first, Inc(last)) = Distance(first, last) + 1
<1> HIDE DEF M
<1> DEFINE next == Inc(last)
<1>1. next \in Index /\ next = IF last + 1 < M THEN last + 1 ELSE 0
  BY IncDef
<1> HIDE DEF next
<1>2. Distance(first, next) = IF first <= next THEN next - first ELSE next - first + M
  BY <1>1, DistanceDef
<1>3. Distance(first, last) = IF first <= last THEN last - first ELSE last - first + M
  BY DistanceDef
<1>4. Distance(first, next) = Distance(first, last) + 1
  BY <1>1, <1>2, <1>3, Sizes, SMT
<1> QED BY <1>4 DEF next

LEMMA DistanceShrinks ==
  ASSUME NEW first \in Index, NEW last \in Index, first # last
  PROVE  Distance(Inc(first), last) = Distance(first, last) - 1
<1> HIDE DEF M
<1> DEFINE next == Inc(first)
<1>1. next \in Index /\ next = IF first + 1 < M THEN first + 1 ELSE 0
  BY IncDef
<1> HIDE DEF next
<1>2. Distance(next, last) = IF next <= last THEN last - next ELSE last - next + M
  BY <1>1, DistanceDef
<1>3. Distance(first, last) = IF first <= last THEN last - first ELSE last - first + M
  BY DistanceDef
<1>4. Distance(next, last) = Distance(first, last) - 1
  BY <1>1, <1>2, <1>3, Sizes, SMT
<1> QED BY <1>4 DEF next

(* The slot of the i-th index after first.                                   *)
SlotOf(first, i) == ((first + i - 1) % M) % NUM

LEMMA BetweenDef ==
  ASSUME NEW first \in Index, NEW last \in Index, NEW ring \in [Descs -> Descs]
  PROVE  /\ Between(first, last, ring)
             = [i \in 1 .. Distance(first, last) |-> ring[SlotOf(first, i)]]
         /\ Between(first, last, ring) \in Seq(Descs)
         /\ Len(Between(first, last, ring)) = Distance(first, last)
         /\ \A i \in 1 .. Distance(first, last) : SlotOf(first, i) = (first + i - 1) % NUM
<1> DEFINE n == Distance(first, last)
<1>1. n \in Nat /\ n < M
  <2>1. n \in 0 .. M - 1
    BY DistanceDef
  <2> HIDE DEF n, M
  <2> QED BY <2>1, Sizes, SMT
<1>2. \A i \in 1 .. n : /\ SlotOf(first, i) \in Descs
                        /\ SlotOf(first, i) = (first + i - 1) % NUM
  <2> TAKE i \in 1 .. n
  <2>1. first + i - 1 \in 0 .. 2 * M - 1
    <3> HIDE DEF M, n
    <3> QED BY <1>1, Sizes, SMT
  <2> QED BY <2>1, Wraps DEF SlotOf
<1>3. Between(first, last, ring) = [i \in 1 .. n |-> ring[SlotOf(first, i)]]
  BY DEF Between, Distance, SlotOf, M
<1> HIDE DEF n
<1>4. Between(first, last, ring) \in Seq(Descs)
  BY <1>1, <1>2, <1>3
<1>5. Len(Between(first, last, ring)) = n
  BY <1>1, <1>3, <1>4
<1> QED
  BY <1>2, <1>3, <1>4, <1>5 DEF n

-----------------------------------------------------------------------------
(* What appending to a ring and taking from it do.                           *)

LEMMA SlotFacts ==
  ASSUME NEW first \in Index, NEW last \in Index, Distance(first, last) < NUM
  PROVE  /\ last % NUM = SlotOf(first, Distance(first, last) + 1)
         /\ \A i \in 1 .. Distance(first, last) :
              SlotOf(first, i) \in Descs /\ SlotOf(first, i) # last % NUM
<1> DEFINE n == Distance(first, last)
<1>1. n \in Nat /\ n < NUM /\ NUM < M /\ M \in Nat /\ NUM \in Nat \ {0}
  BY DistanceDef, Sizes, SMT
<1>2. n = IF first <= last THEN last - first ELSE last - first + M
  BY DistanceDef
<1>3. first \in 0 .. M - 1 /\ last \in 0 .. M - 1
  BY Sizes
<1> HIDE DEF n, M
<1>4. first + n \in 0 .. 2 * M - 1 /\ (first + n = last \/ first + n = last + M)
  BY <1>1, <1>2, <1>3, SMT
<1>5. (first + n) % M = last
  <2> DEFINE x == first + n
  <2>1. x \in 0 .. 2 * M - 1 /\ (x = last \/ x = last + M)
    BY <1>4
  <2> HIDE DEF x
  <2>2. x % M = IF x < M THEN x ELSE x - M
    BY <2>1, Wraps
  <2>3. x % M = last
    BY <2>1, <2>2, <1>1, <1>3, SMT
  <2> QED BY <2>3 DEF x
<1>6. last % NUM = (first + n) % NUM
  BY <1>4, <1>5, Wraps
<1>7. (first + (n + 1) - 1) % M = (first + n) % M
  <2>1. first + (n + 1) - 1 = first + n
    BY <1>1, <1>3, SMT
  <2> QED BY <2>1
<1>8. last % NUM = SlotOf(first, n + 1)
  BY <1>5, <1>7 DEF SlotOf
<1>9. ASSUME NEW i \in 1 .. n
      PROVE  SlotOf(first, i) \in Descs /\ SlotOf(first, i) # last % NUM
  <2>1. first + i - 1 \in 0 .. 2 * M - 1 /\ first + i - 1 \in Nat /\ first + n \in Nat
        /\ first + i - 1 < first + n /\ (first + n) - (first + i - 1) < NUM
    BY <1>1, <1>3, SMT
  <2>2. (first + i - 1) % NUM # (first + n) % NUM
    BY <1>1, <2>1, SameRemainder
  <2>3. SlotOf(first, i) = (first + i - 1) % NUM /\ (first + i - 1) % NUM \in Descs
    BY <2>1, Wraps DEF SlotOf
  <2> QED BY <1>6, <2>2, <2>3
<1> QED
  BY <1>8, <1>9 DEF n

LEMMA BetweenEmpty ==
  ASSUME NEW i \in Index, NEW ring
  PROVE  Between(i, i, ring) = <<>>
<1>1. Distance(i, i) = 0
  BY DistanceDef
<1>2. (i - i) % 2 ^ INDEX_BITS = 0
  BY <1>1 DEF Distance, M
<1> QED
  BY <1>2 DEF Between

LEMMA BetweenAppend ==
  ASSUME NEW first \in Index, NEW last \in Index, NEW ring \in [Descs -> Descs],
         NEW d \in Descs, Distance(first, last) < NUM
  PROVE  Between(first, Inc(last), [ring EXCEPT ![last % NUM] = d])
           = Append(Between(first, last, ring), d)
<1> DEFINE n == Distance(first, last)
           new == [ring EXCEPT ![last % NUM] = d]
           a == Between(first, last, ring)
           b == Between(first, Inc(last), new)
<1>1. n \in Nat /\ n < NUM /\ NUM < M /\ M \in Nat /\ NUM \in Nat \ {0} /\ n < M - 1
  <2>1. n \in Nat /\ n < NUM /\ NUM < M /\ M \in Nat /\ NUM \in Nat \ {0}
    BY DistanceDef, Sizes, SMT
  <2> HIDE DEF n, M
  <2> QED BY <2>1, SMT
<1>2. Distance(first, Inc(last)) = n + 1
  BY <1>1, DistanceGrows
<1>3. last % NUM \in Descs
  <2>1. last \in Nat
    BY Sizes, SMT
  <2> QED BY <2>1, Sizes, SMT
<1>4. new \in [Descs -> Descs] /\ new[last % NUM] = d
      /\ \A s \in Descs \ {last % NUM} : new[s] = ring[s]
  BY <1>3
<1>5. b = [i \in 1 .. n + 1 |-> new[SlotOf(first, i)]] /\ b \in Seq(Descs) /\ Len(b) = n + 1
  <2> DEFINE next == Inc(last)
  <2>1. next \in Index /\ Distance(first, next) = n + 1
    BY <1>2, IncDef
  <2> HIDE DEF new, n, next
  <2>2. Between(first, next, new) = [i \in 1 .. n + 1 |-> new[SlotOf(first, i)]]
        /\ Between(first, next, new) \in Seq(Descs) /\ Len(Between(first, next, new)) = n + 1
    BY <1>4, <2>1, BetweenDef
  <2> QED BY <2>2 DEF next
<1>6. a = [i \in 1 .. n |-> ring[SlotOf(first, i)]] /\ a \in Seq(Descs) /\ Len(a) = n
  BY BetweenDef
<1>7. \A i \in 1 .. n : SlotOf(first, i) \in Descs /\ SlotOf(first, i) # last % NUM
  BY SlotFacts
<1>8. last % NUM = SlotOf(first, n + 1)
  BY SlotFacts
<1> HIDE DEF a, b, n, new
<1>9. \A i \in 1 .. n : b[i] = a[i]
  BY <1>1, <1>4, <1>5, <1>6, <1>7
<1>10. b[n + 1] = d
  BY <1>1, <1>4, <1>5, <1>8
<1>11. /\ Append(a, d) \in Seq(Descs) /\ Len(Append(a, d)) = n + 1
       /\ \A i \in 1 .. n : Append(a, d)[i] = a[i]
       /\ Append(a, d)[n + 1] = d
  <2>1. a \in Seq(Descs) /\ Len(a) = n
    BY <1>6
  <2>2. /\ Append(a, d) \in Seq(Descs) /\ Len(Append(a, d)) = Len(a) + 1
        /\ \A i \in 1 .. Len(a) : Append(a, d)[i] = a[i]
        /\ Append(a, d)[Len(a) + 1] = d
    BY <2>1, AppendProperties
  <2> QED BY <2>1, <2>2
<1>13. \A i \in 1 .. n + 1 : b[i] = Append(a, d)[i]
  <2> TAKE i \in 1 .. n + 1
  <2>1. i \in 1 .. n \/ i = n + 1
    BY <1>1, SMT
  <2> QED BY <1>9, <1>10, <1>11, <2>1
<1>15. b = Append(a, d)
  BY <1>5, <1>11, <1>13, SeqEqual
<1> QED
  BY <1>15 DEF a, b, new

LEMMA BetweenTail ==
  ASSUME NEW first \in Index, NEW last \in Index, NEW ring \in [Descs -> Descs], first # last
  PROVE  /\ Between(first, last, ring) # <<>>
         /\ Between(first, last, ring)[1] = ring[first % NUM]
         /\ Between(Inc(first), last, ring) = Tail(Between(first, last, ring))
<1> DEFINE n == Distance(first, last)
           a == Between(first, last, ring)
           b == Between(Inc(first), last, ring)
<1>1. n \in Nat \ {0} /\ n < M /\ M \in Nat /\ first \in 0 .. M - 1
  <2>1. n \in 0 .. M - 1 /\ n # 0
    BY DistanceDef
  <2>2. M \in Nat /\ first \in 0 .. M - 1
    BY Sizes
  <2> HIDE DEF n, M
  <2> QED BY <2>1, <2>2, SMT
<1>2. Distance(Inc(first), last) = n - 1
  BY DistanceShrinks
<1>3. a = [i \in 1 .. n |-> ring[SlotOf(first, i)]] /\ a \in Seq(Descs) /\ Len(a) = n
  BY BetweenDef
<1>4. b = [i \in 1 .. n - 1 |-> ring[SlotOf(Inc(first), i)]] /\ b \in Seq(Descs) /\ Len(b) = n - 1
  BY <1>2, IncDef, BetweenDef
<1>5. SlotOf(first, 1) = first % NUM
  <2>1. first + 1 - 1 = first /\ first \in 0 .. 2 * M - 1 /\ first < M
    <3> HIDE DEF M
    <3> QED BY <1>1, SMT
  <2> QED BY <2>1, Wraps DEF SlotOf
<1>6. ASSUME NEW i \in 1 .. n - 1 PROVE SlotOf(Inc(first), i) = SlotOf(first, i + 1)
  <2> HIDE DEF M, n
  <2> DEFINE next == Inc(first)
             x == first + (i + 1) - 1
             y == next + i - 1
  <2>1. next = IF first + 1 < M THEN first + 1 ELSE 0
    BY IncDef
  <2> HIDE DEF next
  <2>2. x \in 0 .. 2 * M - 1 /\ y \in 0 .. 2 * M - 1
    BY <1>1, <2>1, SMT
  <2>3. y = x \/ (y = x - M /\ y < M /\ ~(x < M))
    BY <1>1, <2>1, SMT
  <2> HIDE DEF x, y
  <2>4. x % M = y % M
    <3>1. x % M = IF x < M THEN x ELSE x - M
      BY <2>2, Wraps
    <3>2. y % M = IF y < M THEN y ELSE y - M
      BY <2>2, Wraps
    <3> QED BY <2>3, <3>1, <3>2
  <2>5. SlotOf(next, i) = SlotOf(first, i + 1)
    BY <2>4 DEF SlotOf, x, y
  <2> QED BY <2>5 DEF next
<1> HIDE DEF a, b, n
<1>7. a # <<>> /\ a[1] = ring[first % NUM]
  BY <1>1, <1>3, <1>5
<1>8. Tail(a) \in Seq(Descs) /\ Len(Tail(a)) = n - 1 /\ \A i \in 1 .. n - 1 : Tail(a)[i] = a[i + 1]
  <2>1. Tail(a) \in Seq(Descs) /\ Len(Tail(a)) = n - 1 /\ \A i \in 1 .. Len(Tail(a)) : Tail(a)[i] = a[i + 1]
    BY <1>3, <1>7, HeadTailProperties
  <2> QED BY <2>1
<1>9. \A i \in 1 .. n - 1 : b[i] = a[i + 1]
  BY <1>1, <1>3, <1>4, <1>6
<1>11. b = Tail(a)
  BY <1>4, <1>8, <1>9, SeqEqual
<1> QED
  BY <1>7, <1>11 DEF a, b

-----------------------------------------------------------------------------
(* Sequences of chains and the requests they make.                           *)

(* The index notify_queue takes next: the one it has acted on is past.       *)
Upcoming == IF InStep("done") \/ InStep("raise") THEN Inc(lastAvailIndex) ELSE lastAvailIndex

Waiting == Between(Upcoming, avail.idx, avail.ring)
Answered == Between(lastUsed, used.idx, used.ring)

Distinct(s) == \A i, j \in DOMAIN s : i # j => s[i] # s[j]

Requested(w, c) == [i \in DOMAIN w |-> [desc |-> w[i], request |-> c[w[i]]]]
Element == [desc : Descs, request : Requests]

LEMMA SeqFacts ==
  ASSUME NEW S, NEW s \in Seq(S)
  PROVE  /\ Len(s) \in Nat /\ DOMAIN s = 1 .. Len(s)
         /\ \A i \in 1 .. Len(s) : s[i] \in S
BY LenProperties, ElementOfSeq

LEMMA AppendFacts ==
  ASSUME NEW S, NEW s \in Seq(S), NEW e \in S
  PROVE  /\ Append(s, e) \in Seq(S) /\ Len(Append(s, e)) = Len(s) + 1
         /\ Range(Append(s, e)) = Range(s) \cup {e}
         /\ (Distinct(s) /\ e \notin Range(s)) => Distinct(Append(s, e))
<1> DEFINE t == Append(s, e)
           n == Len(s)
<1>1. n \in Nat /\ DOMAIN s = 1 .. n
  BY SeqFacts
<1>2. /\ t \in Seq(S) /\ Len(t) = n + 1
      /\ \A i \in 1 .. n : t[i] = s[i]
      /\ t[n + 1] = e
  BY AppendProperties
<1>3. DOMAIN t = 1 .. n + 1
  BY <1>2, SeqFacts
<1> HIDE DEF t, n
<1>4. \A i \in 1 .. n + 1 : i \in 1 .. n \/ i = n + 1
  BY <1>1, SMT
<1>5. \A i \in 1 .. n : i \in 1 .. n + 1 /\ i # n + 1
  BY <1>1, SMT
<1>6. n + 1 \in 1 .. n + 1
  BY <1>1, SMT
<1>7. Range(t) = Range(s) \cup {e}
  BY <1>1, <1>2, <1>3, <1>4, <1>5, <1>6 DEF Range
<1>8. ASSUME Distinct(s), e \notin Range(s) PROVE Distinct(t)
  BY <1>1, <1>2, <1>3, <1>4, <1>5, <1>6, <1>8 DEF Range, Distinct
<1> QED
  BY <1>2, <1>7, <1>8 DEF t, n

LEMMA TailFacts ==
  ASSUME NEW S, NEW s \in Seq(S), s # <<>>
  PROVE  /\ Tail(s) \in Seq(S) /\ Len(Tail(s)) = Len(s) - 1 /\ Len(s) \in Nat \ {0}
         /\ Head(s) = s[1] /\ s[1] \in Range(s) /\ s[1] \in S
         /\ Range(Tail(s)) \subseteq Range(s)
         /\ Distinct(s) => Distinct(Tail(s)) /\ s[1] \notin Range(Tail(s))
<1> DEFINE t == Tail(s)
           n == Len(s)
<1>1. n \in Nat \ {0} /\ DOMAIN s = 1 .. n
  BY SeqFacts, EmptySeq
<1>2. t \in Seq(S) /\ Len(t) = n - 1 /\ \A i \in 1 .. Len(t) : t[i] = s[i + 1]
  BY HeadTailProperties
<1>3. DOMAIN t = 1 .. n - 1 /\ \A i \in 1 .. n - 1 : t[i] = s[i + 1]
  BY <1>2, SeqFacts
<1>4. Head(s) = s[1] /\ s[1] \in S
  BY <1>1
<1> HIDE DEF t, n
<1>5. /\ 1 \in 1 .. n
      /\ \A i \in 1 .. n - 1 : i + 1 \in 1 .. n /\ i + 1 # 1
      /\ \A i, j \in 1 .. n - 1 : i # j => i + 1 # j + 1
  BY <1>1, SMT
<1>6. Range(t) \subseteq Range(s) /\ s[1] \in Range(s)
  BY <1>1, <1>3, <1>5 DEF Range
<1>7. ASSUME Distinct(s) PROVE Distinct(t) /\ s[1] \notin Range(t)
  <2>1. \A i, j \in 1 .. n : i # j => s[i] # s[j]
    BY <1>1, <1>7 DEF Distinct
  <2>2. \A i \in 1 .. n - 1 : t[i] # s[1]
    BY <2>1, <1>3, <1>5
  <2>3. \A i, j \in 1 .. n - 1 : i # j => t[i] # t[j]
    <3> TAKE i, j \in 1 .. n - 1
    <3>1. i + 1 \in 1 .. n /\ j + 1 \in 1 .. n /\ t[i] = s[i + 1] /\ t[j] = s[j + 1]
      BY <1>3, <1>5
    <3> QED BY <1>5, <2>1, <3>1
  <2> QED BY <1>3, <2>2, <2>3 DEF Range, Distinct
<1> QED
  BY <1>1, <1>2, <1>4, <1>6, <1>7 DEF t, n

LEMMA RequestedType ==
  ASSUME NEW w \in Seq(Descs), NEW c \in [Descs -> Requests]
  PROVE  /\ Requested(w, c) \in Seq(Element) /\ Len(Requested(w, c)) = Len(w)
         /\ DOMAIN Requested(w, c) = 1 .. Len(w) /\ DOMAIN w = 1 .. Len(w)
         /\ \A i \in 1 .. Len(w) :
              w[i] \in Descs /\ Requested(w, c)[i] = [desc |-> w[i], request |-> c[w[i]]]
<1> DEFINE n == Len(w)
<1>1. n \in Nat /\ DOMAIN w = 1 .. n /\ \A i \in 1 .. n : w[i] \in Descs
  BY SeqFacts
<1> HIDE DEF n
<1>2. \A i \in 1 .. n : [desc |-> w[i], request |-> c[w[i]]] \in Element
  BY <1>1 DEF Element
<1>3. Requested(w, c) = [i \in 1 .. n |-> [desc |-> w[i], request |-> c[w[i]]]]
  BY <1>1 DEF Requested
<1>4. Requested(w, c) \in [1 .. n -> Element]
  BY <1>2, <1>3
<1>5. Requested(w, c) \in Seq(Element)
  BY <1>1, <1>4, SeqDef
<1>6. Len(Requested(w, c)) = n
  BY <1>1, <1>3, <1>5, LenProperties
<1> QED
  BY <1>1, <1>3, <1>5, <1>6 DEF n

LEMMA RequestedAppend ==
  ASSUME NEW w \in Seq(Descs), NEW c \in [Descs -> Requests],
         NEW d \in Descs \ Range(w), NEW r \in Requests
  PROVE  Requested(Append(w, d), [c EXCEPT ![d] = r])
           = Append(Requested(w, c), [desc |-> d, request |-> r])
<1> DEFINE new == [c EXCEPT ![d] = r]
           e == [desc |-> d, request |-> r]
           a == Requested(Append(w, d), new)
           b == Append(Requested(w, c), e)
           n == Len(w)
<1>1. e \in Element /\ new \in [Descs -> Requests] /\ n \in Nat
  BY SeqFacts DEF Element
<1>2. Append(w, d) \in Seq(Descs) /\ Len(Append(w, d)) = n + 1
      /\ (\A i \in 1 .. n : Append(w, d)[i] = w[i]) /\ Append(w, d)[n + 1] = d
  BY AppendProperties
<1>3. a \in Seq(Element) /\ Len(a) = n + 1
      /\ \A i \in 1 .. n + 1 : a[i] = [desc |-> Append(w, d)[i], request |-> new[Append(w, d)[i]]]
  <2> HIDE DEF n, new
  <2> QED BY <1>1, <1>2, RequestedType
<1>4. Requested(w, c) \in Seq(Element) /\ Len(Requested(w, c)) = n
      /\ \A i \in 1 .. n : Requested(w, c)[i] = [desc |-> w[i], request |-> c[w[i]]]
  BY RequestedType
<1>5. b \in Seq(Element) /\ Len(b) = n + 1
      /\ (\A i \in 1 .. n : b[i] = Requested(w, c)[i]) /\ b[n + 1] = e
  <2> HIDE DEF e, n
  <2>1. b \in Seq(Element) /\ Len(b) = Len(Requested(w, c)) + 1
        /\ (\A i \in 1 .. Len(Requested(w, c)) : b[i] = Requested(w, c)[i])
        /\ b[Len(Requested(w, c)) + 1] = e
    BY <1>1, <1>4, AppendProperties
  <2> QED BY <1>4, <2>1
<1>6. \A i \in 1 .. n : w[i] \in Descs /\ w[i] # d
  BY SeqFacts DEF Range
<1>7. new[d] = r /\ \A x \in Descs \ {d} : new[x] = c[x]
  OBVIOUS
<1> HIDE DEF a, b, new, n
<1>8. \A i \in 1 .. n : a[i] = b[i]
  <2> TAKE i \in 1 .. n
  <2>1. i \in 1 .. n + 1
    BY <1>1, SMT
  <2>2. a[i] = [desc |-> w[i], request |-> new[w[i]]]
    BY <1>2, <1>3, <2>1
  <2> QED BY <2>2, <1>4, <1>5, <1>6, <1>7
<1>9. a[n + 1] = b[n + 1]
  <2>1. n + 1 \in 1 .. n + 1
    BY <1>1, SMT
  <2> QED BY <2>1, <1>2, <1>3, <1>5, <1>7
<1>10. \A i \in 1 .. n + 1 : a[i] = b[i]
  <2> TAKE i \in 1 .. n + 1
  <2>1. i \in 1 .. n \/ i = n + 1
    BY <1>1, SMT
  <2> QED BY <2>1, <1>8, <1>9
<1>11. a = b
  BY <1>3, <1>5, <1>10, SeqEqual
<1> QED
  BY <1>11 DEF a, b, new

LEMMA RequestedTail ==
  ASSUME NEW w \in Seq(Descs), w # <<>>, NEW c \in [Descs -> Requests]
  PROVE  /\ Requested(w, c) # <<>>
         /\ Head(Requested(w, c)) = [desc |-> w[1], request |-> c[w[1]]]
         /\ Requested(Tail(w), c) = Tail(Requested(w, c))
<1> DEFINE n == Len(w)
           q == Requested(w, c)
           a == Requested(Tail(w), c)
<1>1. n \in Nat \ {0}
  BY SeqFacts, EmptySeq
<1>2. q \in Seq(Element) /\ Len(q) = n
      /\ \A i \in 1 .. n : q[i] = [desc |-> w[i], request |-> c[w[i]]]
  BY RequestedType
<1>3. Tail(w) \in Seq(Descs) /\ Len(Tail(w)) = n - 1
      /\ \A i \in 1 .. Len(Tail(w)) : Tail(w)[i] = w[i + 1]
  BY HeadTailProperties
<1>4. a \in Seq(Element) /\ Len(a) = n - 1
      /\ \A i \in 1 .. n - 1 : a[i] = [desc |-> w[i + 1], request |-> c[w[i + 1]]]
  <2>1. a \in Seq(Element) /\ Len(a) = Len(Tail(w))
      /\ \A i \in 1 .. Len(Tail(w)) : a[i] = [desc |-> Tail(w)[i], request |-> c[Tail(w)[i]]]
    BY <1>3, RequestedType
  <2> QED BY <1>3, <2>1
<1> HIDE DEF q, a, n
<1>5. q # <<>> /\ Head(q) = q[1] /\ 1 \in 1 .. n
  <2>1. q # <<>>
    BY <1>1, <1>2, EmptySeq
  <2> QED BY <2>1, <1>1, <1>2
<1>6. Tail(q) \in Seq(Element) /\ Len(Tail(q)) = n - 1
      /\ \A i \in 1 .. n - 1 : Tail(q)[i] = q[i + 1]
  <2>1. Tail(q) \in Seq(Element) /\ Len(Tail(q)) = Len(q) - 1
        /\ \A i \in 1 .. Len(Tail(q)) : Tail(q)[i] = q[i + 1]
    BY <1>2, <1>5, HeadTailProperties
  <2> QED BY <1>2, <2>1
<1>7. \A i \in 1 .. n - 1 : a[i] = Tail(q)[i]
  <2> TAKE i \in 1 .. n - 1
  <2>1. i + 1 \in 1 .. n
    BY <1>1, SMT
  <2> QED BY <2>1, <1>2, <1>4, <1>6
<1>8. a = Tail(q)
  BY <1>4, <1>6, <1>7, SeqEqual
<1> QED
  BY <1>2, <1>5, <1>8 DEF a, q

-----------------------------------------------------------------------------
(* The invariant.                                                            *)

Steps == {"loop", "done", "raise"}
Notifying == [availIndex : Index, step : Steps, desc : Descs]

Types ==
  /\ VirtIOTypeOK /\ interrupt \in BOOLEAN /\ handler \in BOOLEAN
  /\ notifying # <<>> => notifying \in Notifying

(* notify_queue goes no further than requests have been made available.      *)
NotifyInv ==
  notifying # <<>> =>
    Distance(Upcoming, notifying.availIndex) <= Distance(Upcoming, avail.idx)

(* The rings have room for the chains that are free.                         *)
RoomInv == Len(Waiting) + Len(Taken) + Len(Answered) + Cardinality(free) <= NUM

(* A chain is in one place.                                                  *)
OwnInv ==
  /\ Distinct(Waiting) /\ Distinct(Answered)
  /\ Range(Waiting) \cap Range(Answered) = {}
  /\ Range(Waiting) \cap Range(Taken) = {}
  /\ Range(Answered) \cap Range(Taken) = {}
  /\ (Range(Waiting) \cup Range(Answered) \cup Range(Taken)) \cap free = {}

IInv == Types /\ NotifyInv /\ RoomInv /\ OwnInv /\ StatusWasWritten

LEMMA RingTypes ==
  ASSUME VirtIOTypeOK
  PROVE  /\ avail.idx \in Index /\ used.idx \in Index
         /\ avail.ring \in [Descs -> Descs] /\ used.ring \in [Descs -> Descs]
         /\ lastAvailIndex \in Index /\ lastUsed \in Index /\ Upcoming \in Index
         /\ lastAvailIndex % NUM \in Descs /\ lastUsed % NUM \in Descs
         /\ avail.idx % NUM \in Descs /\ used.idx % NUM \in Descs
<1>1. \A i \in Index : i % NUM \in Descs
  <2> TAKE i \in Index
  <2>1. i \in Nat
    BY Sizes, SMT
  <2> QED BY <2>1, Sizes, SMT
<1>2. /\ avail.idx \in Index /\ used.idx \in Index
      /\ avail.ring \in [Descs -> Descs] /\ used.ring \in [Descs -> Descs]
      /\ lastAvailIndex \in Index /\ lastUsed \in Index
  BY DEF VirtIOTypeOK
<1>3. Upcoming \in Index
  BY <1>2, IncDef DEF Upcoming
<1> QED
  BY <1>1, <1>2, <1>3

LEMMA StateFacts ==
  ASSUME Types
  PROVE  /\ Waiting \in Seq(Descs) /\ Answered \in Seq(Descs) /\ Taken \in Seq(Descs)
         /\ Len(Waiting) = Distance(Upcoming, avail.idx)
         /\ Len(Answered) = Distance(lastUsed, used.idx)
         /\ Len(Waiting) \in Nat /\ Len(Answered) \in Nat
         /\ Len(Taken) = (IF InStep("done") THEN 1 ELSE 0)
         /\ Range(Taken) = (IF InStep("done") THEN {notifying.desc} ELSE {})
         /\ InStep("done") => notifying.desc \in Descs
         /\ IsFiniteSet(free) /\ Cardinality(free) \in Nat
<1>1. VirtIOTypeOK
  BY DEF Types
<1>2. /\ Waiting \in Seq(Descs) /\ Len(Waiting) = Distance(Upcoming, avail.idx)
      /\ Answered \in Seq(Descs) /\ Len(Answered) = Distance(lastUsed, used.idx)
  BY <1>1, RingTypes, BetweenDef DEF Waiting, Answered
<1>3. InStep("done") => notifying.desc \in Descs
  BY DEF Types, InStep, Notifying
<1>4. /\ Taken \in Seq(Descs)
      /\ Len(Taken) = (IF InStep("done") THEN 1 ELSE 0)
      /\ Range(Taken) = (IF InStep("done") THEN {notifying.desc} ELSE {})
  <2>1. \A d \in Descs : <<d>> \in Seq(Descs) /\ Len(<<d>>) = 1 /\ Range(<<d>>) = {d}
    <3> TAKE d \in Descs
    <3>1. <<d>> \in Seq(Descs) /\ Len(<<d>>) = 1 /\ DOMAIN <<d>> = {1} /\ <<d>>[1] = d
      OBVIOUS
    <3> QED BY <3>1 DEF Range
  <2>2. <<>> \in Seq(Descs) /\ Len(<<>>) = 0 /\ Range(<<>>) = {}
    <3>1. <<>> \in Seq(Descs) /\ Len(<<>>) = 0 /\ DOMAIN <<>> = {}
      BY EmptySeq, SeqFacts
    <3> QED BY <3>1 DEF Range
  <2>3. CASE InStep("done")
    BY <1>3, <2>1, <2>3 DEF Taken
  <2>4. CASE ~InStep("done")
    BY <2>2, <2>4 DEF Taken
  <2> QED BY <2>3, <2>4
<1>5. IsFiniteSet(free) /\ Cardinality(free) \in Nat
  <2>1. IsFiniteSet(Descs)
    BY Sizes, FS_Interval
  <2>2. free \subseteq Descs
    BY <1>1 DEF VirtIOTypeOK
  <2>3. IsFiniteSet(free)
    BY <2>1, <2>2, FS_Subset
  <2> QED BY <2>3, FS_CardinalityType
<1>6. Len(Waiting) \in Nat /\ Len(Answered) \in Nat
  BY <1>2, LenProperties
<1> QED
  BY <1>2, <1>3, <1>4, <1>5, <1>6

LEMMA QueueDef ==
  Queue = Requested(Waiting, chain) /\ Queue' = Requested(Waiting', chain')
BY DEF Queue, Requested, Waiting, Upcoming

LEMMA PromiseVars ==
  /\ Promise!vars = <<disk, data, Queue, Taken, Answered>>
  /\ Promise!vars' = <<disk', data', Queue', Taken', Answered'>>
BY DEF Promise!vars, Answered

-----------------------------------------------------------------------------
(* One lemma per step.                                                       *)

Good == IInv' /\ [Promise!Next]_(Promise!vars)

LEMMA SamePlaces ==
  ASSUME RoomInv, OwnInv,
         Waiting' = Waiting, Taken' = Taken, Answered' = Answered, free' = free
  PROVE  RoomInv' /\ OwnInv'
<1>1. Distinct(Waiting)' /\ Distinct(Answered)'
  BY DEF OwnInv, Distinct
<1>2. /\ Range(Waiting)' = Range(Waiting) /\ Range(Answered)' = Range(Answered)
      /\ Range(Taken)' = Range(Taken)
  BY DEF Range
<1>3. RoomInv'
  BY DEF RoomInv
<1> QED
  BY <1>1, <1>2, <1>3 DEF OwnInv

LEMMA SamePromise ==
  ASSUME Waiting' = Waiting, Taken' = Taken, Answered' = Answered,
         UNCHANGED <<disk, data, chain>>
  PROVE  UNCHANGED Promise!vars
BY QueueDef, PromiseVars DEF Requested

LEMMA SameStatus ==
  ASSUME StatusWasWritten, UNCHANGED <<state, phase, written>>
  PROVE  StatusWasWritten'
BY DEF StatusWasWritten, read_status

LEMMA DiskFacts ==
  ASSUME NEW r \in Requests, NEW old \in Values, disk \in [Sectors -> Values]
  PROVE  blk_read(r, <<old, disk>>) \in Values /\ blk_write(r, disk) \in [Sectors -> Values]
<1> DEFINE size == 2 ^ WRAP_BITS
<1>1. r.sector \in Nat /\ r.value \in Values /\ SECTORS \in Nat /\ size \in Nat \ {0}
  BY VirtIOAssumption
<1>2. r.sector % size \in Nat
  <2> HIDE DEF size
  <2> QED BY <1>1, SMT
<1>3. Start(r) \in Nat
  BY <1>2 DEF Start
<1>4. Fits(r) => Start(r) \in Sectors
  BY <1>1, <1>3, SMT DEF Fits, Sectors
<1>5. blk_read(r, <<old, disk>>) \in Values
  BY <1>4 DEF blk_read
<1>6. blk_write(r, disk) \in [Sectors -> Values]
  BY <1>1, <1>4 DEF blk_write
<1> QED
  BY <1>5, <1>6

LEMMA NotifyingFacts ==
  /\ \A a, s, d : [availIndex |-> a, step |-> s, desc |-> d] # <<>>
  /\ \A n \in Notifying, s \in Steps, d \in Descs :
       /\ [n EXCEPT !.step = s] = [availIndex |-> n.availIndex, step |-> s, desc |-> n.desc]
       /\ [n EXCEPT !.step = s, !.desc = d] = [availIndex |-> n.availIndex, step |-> s, desc |-> d]
<1>1. \A a, s, d : [availIndex |-> a, step |-> s, desc |-> d] # <<>>
  OBVIOUS
<1>2. ASSUME NEW n \in Notifying, NEW s \in Steps
      PROVE  [n EXCEPT !.step = s] = [availIndex |-> n.availIndex, step |-> s, desc |-> n.desc]
  BY DEF Notifying
<1>3. ASSUME NEW n \in Notifying, NEW s \in Steps, NEW d \in Descs
      PROVE  [n EXCEPT !.step = s, !.desc = d] = [availIndex |-> n.availIndex, step |-> s, desc |-> d]
  <2> DEFINE m == [n EXCEPT !.step = s]
  <2>1. m \in Notifying /\ m.availIndex = n.availIndex /\ m.step = s
    BY DEF Notifying
  <2>2. [n EXCEPT !.step = s, !.desc = d] = [m EXCEPT !.desc = d]
    OBVIOUS
  <2> HIDE DEF m
  <2>3. [m EXCEPT !.desc = d] = [availIndex |-> m.availIndex, step |-> m.step, desc |-> d]
    BY <2>1 DEF Notifying
  <2> QED BY <2>1, <2>2, <2>3
<1> QED
  BY <1>1, <1>2, <1>3

LEMMA NotifyBeginGood ==
  ASSUME IInv, NotifyBegin
  PROVE  Good
<1> USE DEF IInv
<1>1. /\ notifying = <<>> /\ notifying' # <<>> /\ notifying' \in Notifying
      /\ notifying'.step = "loop" /\ notifying'.availIndex = avail.idx
  <2>1. notifying' = [availIndex |-> avail.idx, step |-> "loop", desc |-> 0] /\ notifying = <<>>
    BY DEF NotifyBegin
  <2>2. avail.idx \in Index /\ 0 \in Descs
    BY RingTypes, Sizes DEF Types
  <2> QED BY <2>1, <2>2, NotifyingFacts DEF Notifying, Steps
<1>2. UNCHANGED <<deviceVars, avail, used, chain, data, disk, driverVars>>
  BY DEF NotifyBegin
<1>3. ~InStep("done") /\ ~InStep("raise") /\ ~InStep("done")' /\ ~InStep("raise")'
  BY <1>1 DEF InStep
<1>4. Upcoming' = Upcoming /\ Waiting' = Waiting /\ Taken' = Taken
      /\ Answered' = Answered /\ free' = free
  BY <1>2, <1>3 DEF Upcoming, Waiting, Taken, Answered, deviceVars, driverVars
<1>5. Types'
  BY <1>1, <1>2 DEF Types, VirtIOTypeOK, deviceVars, driverVars
<1>6. NotifyInv'
  <2>1. Distance(Upcoming, avail.idx) \in 0 .. M - 1
    BY RingTypes, DistanceDef DEF Types
  <2> QED BY <1>1, <1>2, <1>4, <2>1 DEF NotifyInv
<1>7. RoomInv' /\ OwnInv'
  BY <1>4, SamePlaces
<1>8. StatusWasWritten'
  BY <1>2, SameStatus DEF deviceVars, driverVars
<1>9. UNCHANGED Promise!vars
  BY <1>2, <1>4, SamePromise
<1> QED
  BY <1>5, <1>6, <1>7, <1>8, <1>9 DEF Good

LEMMA NotifyEndGood ==
  ASSUME IInv, NotifyEnd
  PROVE  Good
<1> USE DEF IInv
<1>1. notifying' = <<>> /\ InStep("loop")
  BY DEF NotifyEnd
<1>2. UNCHANGED <<deviceVars, avail, used, chain, data, disk, driverVars>>
  BY DEF NotifyEnd
<1>3. ~InStep("done") /\ ~InStep("raise") /\ ~InStep("done")' /\ ~InStep("raise")'
  BY <1>1 DEF InStep
<1>4. Upcoming' = Upcoming /\ Waiting' = Waiting /\ Taken' = Taken
      /\ Answered' = Answered /\ free' = free
  BY <1>2, <1>3 DEF Upcoming, Waiting, Taken, Answered, deviceVars, driverVars
<1>5. Types'
  BY <1>1, <1>2 DEF Types, VirtIOTypeOK, deviceVars, driverVars
<1>6. NotifyInv'
  BY <1>1 DEF NotifyInv
<1>7. RoomInv' /\ OwnInv'
  BY <1>4, SamePlaces
<1>8. StatusWasWritten'
  BY <1>2, SameStatus DEF deviceVars, driverVars
<1>9. UNCHANGED Promise!vars
  BY <1>2, <1>4, SamePromise
<1> QED
  BY <1>5, <1>6, <1>7, <1>8, <1>9 DEF Good

LEMMA RaiseInterruptGood ==
  ASSUME IInv, RaiseInterrupt
  PROVE  Good
<1> USE DEF IInv
<1>1. /\ notifying \in Notifying /\ InStep("raise")
      /\ notifying' # <<>> /\ notifying' \in Notifying
      /\ notifying'.step = "loop" /\ notifying'.availIndex = notifying.availIndex
  <2>1. notifying \in Notifying /\ InStep("raise") /\ notifying' = [notifying EXCEPT !.step = "loop"]
    BY DEF RaiseInterrupt, Types, InStep
  <2>2. notifying' = [availIndex |-> notifying.availIndex, step |-> "loop", desc |-> notifying.desc]
    <3>1. notifying.desc \in Descs /\ "loop" \in Steps
      BY <2>1 DEF Notifying, Steps
    <3> QED BY <2>1, <3>1, NotifyingFacts
  <2>3. notifying' # <<>>
    BY <2>2, NotifyingFacts
  <2>4. notifying.availIndex \in Index /\ notifying.desc \in Descs
    BY <2>1 DEF Notifying
  <2>5. notifying' \in Notifying
    BY <2>2, <2>4 DEF Notifying, Steps
  <2> QED BY <2>1, <2>2, <2>3, <2>5
<1>2. /\ interrupt' = TRUE /\ lastAvailIndex' = Inc(lastAvailIndex)
      /\ UNCHANGED <<state, avail, used, chain, data, disk, driverVars>>
  BY DEF RaiseInterrupt, Raise
<1>3. ~InStep("done") /\ ~InStep("done")' /\ ~InStep("raise")'
  BY <1>1 DEF InStep
<1>4. Upcoming' = Upcoming /\ Waiting' = Waiting /\ Taken' = Taken
      /\ Answered' = Answered /\ free' = free
  <2>1. UNCHANGED Upcoming
    BY <1>1, <1>2, <1>3 DEF Upcoming
  <2> QED BY <1>2, <1>3, <2>1 DEF Waiting, Taken, Answered, driverVars
<1>5. Types'
  <2>1. lastAvailIndex' \in Index
    BY <1>2, RingTypes, IncDef DEF Types
  <2> QED BY <1>1, <1>2, <2>1 DEF Types, VirtIOTypeOK, driverVars
<1>6. NotifyInv'
  <2>1. notifying # <<>>
    BY <1>1 DEF InStep
  <2> QED BY <1>1, <1>2, <1>4, <2>1 DEF NotifyInv
<1>7. RoomInv' /\ OwnInv'
  BY <1>4, SamePlaces
<1>8. StatusWasWritten'
  BY <1>2, SameStatus DEF driverVars
<1>9. UNCHANGED Promise!vars
  BY <1>2, <1>4, SamePromise
<1> QED
  BY <1>5, <1>6, <1>7, <1>8, <1>9 DEF Good

(* The interrupt is taken, or the handler returns.                           *)
LEMMA HandlerGood ==
  ASSUME IInv, TakeInterrupt \/ HandlerEnd
  PROVE  Good
<1> USE DEF IInv
<1>1. /\ UNCHANGED <<state, lastAvailIndex, avail, used, chain, data, disk,
                     notifying, phase, written, free, lastUsed>>
      /\ interrupt' \in BOOLEAN /\ handler' \in BOOLEAN
  BY DEF TakeInterrupt, HandlerEnd, deviceVars, Types
<1>2. Upcoming' = Upcoming /\ Waiting' = Waiting /\ Taken' = Taken
      /\ Answered' = Answered /\ free' = free
  BY <1>1 DEF Upcoming, Waiting, Taken, Answered, InStep
<1>3. Types'
  BY <1>1 DEF Types, VirtIOTypeOK
<1>4. NotifyInv'
  BY <1>1, <1>2 DEF NotifyInv
<1>5. RoomInv' /\ OwnInv'
  BY <1>2, SamePlaces
<1>6. StatusWasWritten'
  BY <1>1, SameStatus
<1>7. UNCHANGED Promise!vars
  BY <1>1, <1>2, SamePromise
<1> QED
  BY <1>3, <1>4, <1>5, <1>6, <1>7 DEF Good

(* The loop's turn and what notify_queue goes on with.                       *)
LEMMA LoopFacts ==
  ASSUME Types, NotifyInv, InStep("loop"), lastAvailIndex # notifying.availIndex
  PROVE  /\ Upcoming = lastAvailIndex /\ Taken = <<>>
         /\ lastAvailIndex # avail.idx
         /\ Waiting # <<>> /\ Waiting[1] = avail.ring[Slot]
         /\ Between(Inc(lastAvailIndex), avail.idx, avail.ring) = Tail(Waiting)
         /\ Distance(Inc(lastAvailIndex), notifying.availIndex)
              <= Distance(Inc(lastAvailIndex), avail.idx)
<1>1. /\ notifying # <<>> /\ notifying.step = "loop"
      /\ notifying.availIndex \in Index /\ lastAvailIndex \in Index /\ avail.idx \in Index
      /\ avail.ring \in [Descs -> Descs]
  BY RingTypes DEF Types, InStep, Notifying
<1>2. Upcoming = lastAvailIndex /\ Taken = <<>>
  BY <1>1 DEF Upcoming, Taken, InStep
<1> DEFINE there == Distance(lastAvailIndex, notifying.availIndex)
           all == Distance(lastAvailIndex, avail.idx)
<1>3. there <= all
  BY <1>1, <1>2 DEF NotifyInv
<1>4. there \in 0 .. M - 1 /\ there # 0 /\ all \in 0 .. M - 1
  BY <1>1, DistanceDef
<1>5. all # 0
  <2> HIDE DEF there, all, M
  <2> QED BY <1>3, <1>4, Sizes, SMT
<1>6. lastAvailIndex # avail.idx
  BY <1>1, <1>5, DistanceDef
<1>7. /\ Waiting # <<>> /\ Waiting[1] = avail.ring[Slot]
      /\ Between(Inc(lastAvailIndex), avail.idx, avail.ring) = Tail(Waiting)
  BY <1>1, <1>2, <1>6, BetweenTail DEF Waiting, Slot
<1>8. /\ Distance(Inc(lastAvailIndex), notifying.availIndex) = there - 1
      /\ Distance(Inc(lastAvailIndex), avail.idx) = all - 1
  BY <1>1, <1>6, DistanceShrinks
<1>9. there - 1 <= all - 1
  <2> HIDE DEF there, all, M
  <2> QED BY <1>3, <1>4, Sizes, SMT
<1> HIDE DEF there, all
<1> QED
  BY <1>2, <1>6, <1>7, <1>8, <1>9

LEMMA HandleRequestGood ==
  ASSUME IInv, HandleRequest
  PROVE  Good
<1> USE DEF IInv
<1> DEFINE d == avail.ring[Slot]
           r == chain[d]
           done == IsAnswered(r)
<1>1. /\ InStep("loop") /\ lastAvailIndex # notifying.availIndex
      /\ disk' = blk_write(r, disk)
      /\ data' = [data EXCEPT ![d] = blk_read(r, <<data[d], disk>>)]
      /\ IF done
         THEN /\ notifying' = [notifying EXCEPT !.step = "done", !.desc = d]
              /\ lastAvailIndex' = lastAvailIndex
         ELSE /\ lastAvailIndex' = Inc(lastAvailIndex)
              /\ notifying' = notifying
      /\ UNCHANGED <<state, interrupt, avail, used, chain, driverVars>>
  BY DEF HandleRequest
<1>2. /\ d \in Descs /\ r \in Requests
      /\ notifying \in Notifying /\ notifying # <<>> /\ notifying.step = "loop"
  <2>1. lastAvailIndex % NUM \in Descs /\ avail.ring \in [Descs -> Descs]
    BY RingTypes DEF Types
  <2>2. chain \in [Descs -> Requests]
    BY DEF Types, VirtIOTypeOK
  <2>3. notifying \in Notifying /\ notifying # <<>> /\ notifying.step = "loop"
    BY <1>1 DEF Types, InStep
  <2> QED BY <2>1, <2>2, <2>3 DEF Slot
<1>3. Waiting \in Seq(Descs) /\ Answered \in Seq(Descs)
  BY StateFacts
<1>4. /\ Upcoming = lastAvailIndex /\ Taken = <<>>
      /\ Waiting # <<>> /\ Waiting[1] = d
      /\ Between(Inc(lastAvailIndex), avail.idx, avail.ring) = Tail(Waiting)
      /\ Distance(Inc(lastAvailIndex), notifying.availIndex)
           <= Distance(Inc(lastAvailIndex), avail.idx)
  BY <1>1, LoopFacts
<1> HIDE DEF d, r
<1>5. /\ notifying' # <<>> /\ notifying' \in Notifying
      /\ notifying'.availIndex = notifying.availIndex
      /\ lastAvailIndex' \in Index
      /\ Upcoming' = Inc(lastAvailIndex)
      /\ Taken' = IF done THEN <<d>> ELSE <<>>
  <2>0. lastAvailIndex \in Index /\ Inc(lastAvailIndex) \in Index
    BY RingTypes, IncDef DEF Types
  <2>1. CASE done
    <3>1. "done" \in Steps
      BY DEF Steps
    <3>2. notifying' = [availIndex |-> notifying.availIndex, step |-> "done", desc |-> d]
      BY <1>1, <1>2, <2>1, <3>1, NotifyingFacts
    <3>3. notifying' # <<>>
      BY <3>2, NotifyingFacts
    <3>4. notifying.availIndex \in Index
      BY <1>2 DEF Notifying
    <3>5. notifying' \in Notifying
      BY <1>2, <3>1, <3>2, <3>4 DEF Notifying
    <3>6. notifying'.step = "done" /\ notifying'.desc = d /\ lastAvailIndex' = lastAvailIndex
          /\ notifying'.availIndex = notifying.availIndex
      BY <1>1, <2>1, <3>2
    <3> QED BY <2>0, <2>1, <3>3, <3>5, <3>6 DEF Upcoming, Taken, InStep
  <2>2. CASE ~done
    <3>1. notifying' = notifying /\ lastAvailIndex' = Inc(lastAvailIndex)
      BY <1>1, <2>2
    <3> QED BY <1>2, <2>0, <2>2, <3>1 DEF Upcoming, Taken, InStep
  <2> QED BY <2>1, <2>2
<1>6. /\ Waiting' = Tail(Waiting) /\ Answered' = Answered /\ free' = free
  BY <1>1, <1>4, <1>5 DEF Waiting, Answered, driverVars
<1>7. disk' \in [Sectors -> Values] /\ data' \in [Descs -> Values]
  <2>1. disk \in [Sectors -> Values] /\ data \in [Descs -> Values]
    BY DEF Types, VirtIOTypeOK
  <2>2. blk_write(r, disk) \in [Sectors -> Values] /\ blk_read(r, <<data[d], disk>>) \in Values
    BY <1>2, <2>1, DiskFacts
  <2> QED BY <1>1, <2>1, <2>2
<1>8. Types'
  BY <1>1, <1>5, <1>7 DEF Types, VirtIOTypeOK, driverVars
<1>9. NotifyInv'
  <2>1. avail' = avail
    BY <1>1
  <2> QED BY <1>4, <1>5, <2>1 DEF NotifyInv
<1>10. /\ Len(Tail(Waiting)) = Len(Waiting) - 1 /\ Len(Waiting) \in Nat \ {0}
       /\ Head(Waiting) = d /\ d \in Range(Waiting)
       /\ Range(Tail(Waiting)) \subseteq Range(Waiting)
       /\ Distinct(Tail(Waiting)) /\ d \notin Range(Tail(Waiting))
  BY <1>3, <1>4, TailFacts DEF OwnInv
<1>11. /\ Len(Taken) = 0 /\ Range(Taken) = {}
       /\ Len(Taken') \in {0, 1} /\ Range(Taken') \subseteq {d}
  <2>1. Len(<<>>) = 0 /\ Range(<<>>) = {}
    BY EmptySeq, SeqFacts DEF Range
  <2>2. Len(<<d>>) = 1 /\ Range(<<d>>) = {d}
    BY DEF Range
  <2> QED BY <1>4, <1>5, <2>1, <2>2
<1>12. RoomInv'
  <2>1. Len(Answered) \in Nat /\ Cardinality(free) \in Nat
    BY StateFacts
  <2>2. RoomInv' = (Len(Tail(Waiting)) + Len(Taken') + Len(Answered) + Cardinality(free) <= NUM)
    BY <1>6 DEF RoomInv
  <2>3. Len(Waiting) + Len(Taken) + Len(Answered) + Cardinality(free) <= NUM
    BY DEF RoomInv
  <2> DEFINE w == Len(Waiting)
             wNew == Len(Tail(Waiting))
             t == Len(Taken)
             tNew == Len(Taken')
             a == Len(Answered)
             f == Cardinality(free)
  <2>4. /\ w \in Nat /\ wNew = w - 1 /\ t = 0 /\ tNew \in {0, 1} /\ a \in Nat /\ f \in Nat
        /\ w + t + a + f <= NUM /\ NUM \in Nat
    BY <1>10, <1>11, <2>1, <2>3, Sizes
  <2>5. RoomInv' = (wNew + tNew + a + f <= NUM)
    BY <2>2
  <2> HIDE DEF w, wNew, t, tNew, a, f
  <2>6. wNew + tNew + a + f <= NUM
    BY <2>4, SMT
  <2> QED BY <2>5, <2>6
<1>13. OwnInv'
  <2>1. Distinct(Waiting)' /\ Distinct(Answered)'
    BY <1>6, <1>10 DEF OwnInv, Distinct
  <2>2. /\ Range(Waiting)' = Range(Tail(Waiting)) /\ Range(Answered)' = Range(Answered)
        /\ Range(Taken)' = Range(Taken')
    BY <1>6 DEF Range
  <2> QED BY <1>6, <1>10, <1>11, <2>1, <2>2 DEF OwnInv
<1>14. StatusWasWritten'
  BY <1>1, SameStatus DEF driverVars
<1>15. Promise!Take
  <2>0. chain \in [Descs -> Requests]
    BY DEF Types, VirtIOTypeOK
  <2>1. Queue # <<>> /\ Head(Queue) = [desc |-> d, request |-> r] /\ Queue' = Tail(Queue)
    <3>1. chain' = chain
      BY <1>1
    <3> QED BY <1>3, <1>4, <1>6, <2>0, <3>1, QueueDef, RequestedTail DEF r
  <2>2. Head(Queue).desc = d /\ Head(Queue).request = r
    BY <2>1
  <2> QED BY <1>1, <1>4, <1>5, <1>6, <2>1, <2>2 DEF Promise!Take, Answered
<1> QED
  BY <1>8, <1>9, <1>12, <1>13, <1>14, <1>15 DEF Good, Promise!Next

LEMMA DoneGood ==
  ASSUME IInv, virtio_handle_done
  PROVE  Good
<1> USE DEF IInv
<1> DEFINE d == notifying.desc
<1>1. /\ InStep("done")
      /\ used' = [idx |-> Inc(used.idx), ring |-> [used.ring EXCEPT ![used.idx % NUM] = d]]
      /\ notifying' = [notifying EXCEPT !.step = "raise"]
      /\ UNCHANGED <<deviceVars, avail, chain, data, disk, driverVars>>
  BY DEF virtio_handle_done
<1>2. /\ notifying \in Notifying /\ notifying # <<>> /\ notifying.step = "done" /\ d \in Descs
      /\ notifying' \in Notifying /\ notifying' # <<>> /\ notifying'.step = "raise"
      /\ notifying'.availIndex = notifying.availIndex
  <2>1. notifying \in Notifying /\ notifying # <<>> /\ notifying.step = "done"
    BY <1>1 DEF Types, InStep
  <2>2. "raise" \in Steps /\ d \in Descs /\ notifying.availIndex \in Index
    BY <2>1 DEF Steps, Notifying
  <2>3. notifying' = [availIndex |-> notifying.availIndex, step |-> "raise", desc |-> d]
    BY <1>1, <2>1, <2>2, NotifyingFacts
  <2>4. notifying' # <<>>
    BY <2>3, NotifyingFacts
  <2>5. notifying' \in Notifying
    BY <2>2, <2>3 DEF Notifying
  <2> QED BY <2>1, <2>2, <2>3, <2>4, <2>5
<1>3. /\ Waiting \in Seq(Descs) /\ Answered \in Seq(Descs)
      /\ Len(Answered) = Distance(lastUsed, used.idx)
      /\ Len(Waiting) \in Nat /\ Len(Answered) \in Nat /\ Cardinality(free) \in Nat
      /\ Len(Taken) = 1 /\ Range(Taken) = {d}
  BY <1>1, StateFacts
<1>4. /\ used.idx \in Index /\ lastUsed \in Index /\ used.ring \in [Descs -> Descs]
      /\ used.idx % NUM \in Descs /\ Inc(used.idx) \in Index
  BY RingTypes, IncDef DEF Types
<1>5. Distance(lastUsed, used.idx) < NUM
  <2>1. Len(Waiting) + Len(Taken) + Len(Answered) + Cardinality(free) <= NUM
    BY DEF RoomInv
  <2>2. Len(Answered) < NUM
    BY <1>3, <2>1, Sizes, SMT
  <2> QED BY <1>3, <2>2
<1> HIDE DEF d
<1>6. /\ Taken = <<d>> /\ Taken' = <<>>
      /\ Upcoming' = Upcoming /\ Waiting' = Waiting /\ free' = free
  <2>1. ~InStep("done")' /\ InStep("raise")'
    BY <1>2 DEF InStep
  <2>2. Upcoming' = Upcoming
    BY <1>1, <2>1 DEF Upcoming, deviceVars
  <2> QED BY <1>1, <2>1, <2>2 DEF Taken, Waiting, deviceVars, driverVars, d
<1>7. Answered' = Append(Answered, d)
  <2>1. used'.idx = Inc(used.idx) /\ used'.ring = [used.ring EXCEPT ![used.idx % NUM] = d]
        /\ lastUsed' = lastUsed
    BY <1>1 DEF driverVars, d
  <2>2. Between(lastUsed, Inc(used.idx), [used.ring EXCEPT ![used.idx % NUM] = d])
          = Append(Answered, d)
    BY <1>2, <1>4, <1>5, BetweenAppend DEF Answered
  <2> QED BY <2>1, <2>2 DEF Answered
<1>8. /\ Len(Append(Answered, d)) = Len(Answered) + 1
      /\ Range(Append(Answered, d)) = Range(Answered) \cup {d}
      /\ Distinct(Append(Answered, d))
      /\ Append(Answered, d) = Answered \o <<d>>
  <2>1. Distinct(Answered) /\ d \notin Range(Answered)
    BY <1>3 DEF OwnInv
  <2> QED BY <1>2, <1>3, <2>1, AppendFacts, AppendIsConcat
<1>9. Types'
  <2>1. used' \in [idx : Index, ring : [Descs -> Descs]]
    <3>1. [used.ring EXCEPT ![used.idx % NUM] = d] \in [Descs -> Descs]
      BY <1>2, <1>4
    <3> QED BY <1>1, <1>4, <3>1 DEF d
  <2> QED BY <1>1, <1>2, <2>1 DEF Types, VirtIOTypeOK, deviceVars, driverVars
<1>10. NotifyInv'
  <2>1. avail' = avail
    BY <1>1
  <2> QED BY <1>2, <1>6, <2>1 DEF NotifyInv
<1>11. Len(Taken') = 0 /\ Range(Taken') = {}
  BY <1>6, EmptySeq, SeqFacts DEF Range
<1>12. RoomInv'
  <2>2. RoomInv' = (Len(Waiting) + Len(Taken') + Len(Append(Answered, d)) + Cardinality(free) <= NUM)
    BY <1>6, <1>7 DEF RoomInv
  <2>3. Len(Waiting) + Len(Taken) + Len(Answered) + Cardinality(free) <= NUM
    BY DEF RoomInv
  <2> DEFINE w == Len(Waiting)
             t == Len(Taken)
             tNew == Len(Taken')
             a == Len(Answered)
             aNew == Len(Append(Answered, d))
             f == Cardinality(free)
  <2>4. /\ w \in Nat /\ t = 1 /\ tNew = 0 /\ a \in Nat /\ aNew = a + 1 /\ f \in Nat
        /\ w + t + a + f <= NUM /\ NUM \in Nat
    BY <1>3, <1>8, <1>11, <2>3, Sizes
  <2>5. RoomInv' = (w + tNew + aNew + f <= NUM)
    BY <2>2
  <2> HIDE DEF w, t, tNew, a, aNew, f
  <2>6. w + tNew + aNew + f <= NUM
    BY <2>4, SMT
  <2> QED BY <2>5, <2>6
<1>13. OwnInv'
  <2>1. Distinct(Waiting)' /\ Distinct(Answered)'
    BY <1>6, <1>7, <1>8 DEF OwnInv, Distinct
  <2>2. /\ Range(Waiting)' = Range(Waiting) /\ Range(Answered)' = Range(Append(Answered, d))
        /\ Range(Taken)' = Range(Taken')
    BY <1>6, <1>7 DEF Range
  <2> QED BY <1>3, <1>6, <1>8, <1>11, <2>1, <2>2 DEF OwnInv
<1>14. StatusWasWritten'
  BY <1>1, SameStatus DEF driverVars, deviceVars
<1>15. Promise!Answer
  <2>1. Taken # <<>>
    BY <1>6
  <2>2. Queue' = Queue
    BY <1>1, <1>6, QueueDef
  <2> QED BY <1>1, <1>6, <1>7, <1>8, <2>1, <2>2 DEF Promise!Answer, Answered
<1> QED
  BY <1>9, <1>10, <1>12, <1>13, <1>14, <1>15 DEF Good, Promise!Next

LEMMA CollectGood ==
  ASSUME IInv, Collect
  PROVE  Good
<1> USE DEF IInv
<1> DEFINE d == used.ring[lastUsed % NUM]
<1>1. /\ lastUsed # used.idx
      /\ free' = free \cup {d} /\ lastUsed' = Inc(lastUsed)
      /\ UNCHANGED <<deviceVars, avail, used, chain, data, disk, notifying, phase, written, handler>>
  BY DEF Collect
<1>2. /\ used.idx \in Index /\ lastUsed \in Index /\ used.ring \in [Descs -> Descs]
      /\ lastUsed % NUM \in Descs /\ Inc(lastUsed) \in Index
  BY RingTypes, IncDef DEF Types
<1>3. d \in Descs /\ free' \subseteq Descs
  BY <1>1, <1>2 DEF Types, VirtIOTypeOK
<1> HIDE DEF d
<1>4. Upcoming' = Upcoming /\ Waiting' = Waiting /\ Taken' = Taken
  BY <1>1 DEF Upcoming, Waiting, Taken, InStep, deviceVars
<1>5. /\ Answered # <<>> /\ Answered[1] = d /\ Answered' = Tail(Answered)
  <2>1. /\ Answered # <<>> /\ Answered[1] = d
        /\ Between(Inc(lastUsed), used.idx, used.ring) = Tail(Answered)
    BY <1>1, <1>2, BetweenTail DEF Answered, d
  <2>2. Answered' = Between(Inc(lastUsed), used.idx, used.ring)
    BY <1>1 DEF Answered
  <2> QED BY <2>1, <2>2
<1>6. /\ Waiting \in Seq(Descs) /\ Answered \in Seq(Descs) /\ Len(Taken) \in Nat
      /\ Len(Waiting) \in Nat /\ IsFiniteSet(free) /\ Cardinality(free) \in Nat
  BY StateFacts
<1>7. /\ Len(Tail(Answered)) = Len(Answered) - 1 /\ Len(Answered) \in Nat \ {0}
      /\ Range(Tail(Answered)) \subseteq Range(Answered) /\ d \in Range(Answered)
      /\ Distinct(Tail(Answered)) /\ d \notin Range(Tail(Answered))
  BY <1>5, <1>6, TailFacts DEF OwnInv
<1>8. Types'
  BY <1>1, <1>2, <1>3 DEF Types, VirtIOTypeOK, deviceVars
<1>9. NotifyInv'
  BY <1>1, <1>4 DEF NotifyInv
<1>10. RoomInv'
  <2>1. Cardinality(free \cup {d}) \in Nat /\ Cardinality(free \cup {d}) <= Cardinality(free) + 1
    <3>1. CASE d \in free
      <4>1. free \cup {d} = free
        BY <3>1
      <4> DEFINE f == Cardinality(free)
      <4>2. f \in Nat /\ Cardinality(free \cup {d}) = f
        BY <4>1, <1>6
      <4>3. f <= f + 1
        <5> HIDE DEF f
        <5> QED BY <4>2, SMT
      <4> QED BY <4>2, <4>3
    <3>2. CASE d \notin free
      <4>1. Cardinality(free \cup {d}) = Cardinality(free) + 1
        BY <1>6, <3>2, FS_AddElement
      <4> QED BY <4>1, <1>6, SMT
    <3> QED BY <3>1, <3>2
  <2>2. RoomInv' = (Len(Waiting) + Len(Taken) + Len(Tail(Answered)) + Cardinality(free \cup {d}) <= NUM)
    BY <1>1, <1>4, <1>5 DEF RoomInv
  <2>3. Len(Waiting) + Len(Taken) + Len(Answered) + Cardinality(free) <= NUM
    BY DEF RoomInv
  <2> DEFINE w == Len(Waiting)
             t == Len(Taken)
             a == Len(Answered)
             aNew == Len(Tail(Answered))
             f == Cardinality(free)
             fNew == Cardinality(free \cup {d})
  <2>4. /\ w \in Nat /\ t \in Nat /\ a \in Nat /\ aNew = a - 1 /\ f \in Nat
        /\ fNew \in Nat /\ fNew <= f + 1 /\ w + t + a + f <= NUM /\ NUM \in Nat
    BY <1>6, <1>7, <2>1, <2>3, Sizes
  <2>5. RoomInv' = (w + t + aNew + fNew <= NUM)
    BY <2>2
  <2> HIDE DEF w, t, a, aNew, f, fNew
  <2>6. w + t + aNew + fNew <= NUM
    BY <2>4, SMT
  <2> QED BY <2>5, <2>6
<1>11. OwnInv'
  <2>1. Distinct(Waiting)' /\ Distinct(Answered)'
    BY <1>4, <1>5, <1>7 DEF OwnInv, Distinct
  <2>2. /\ Range(Waiting)' = Range(Waiting) /\ Range(Answered)' = Range(Tail(Answered))
        /\ Range(Taken)' = Range(Taken)
    BY <1>4, <1>5 DEF Range
  <2>3. d \notin Range(Waiting) /\ d \notin Range(Taken)
    BY <1>7 DEF OwnInv
  <2> QED BY <1>1, <1>7, <2>1, <2>2, <2>3 DEF OwnInv
<1>12. StatusWasWritten'
  BY <1>1, SameStatus DEF deviceVars
<1>13. Promise!Collect
  <2>1. Queue' = Queue
    BY <1>1, <1>4, QueueDef
  <2> QED BY <1>1, <1>4, <1>5, <2>1 DEF Promise!Collect, Answered
<1> QED
  BY <1>8, <1>9, <1>10, <1>11, <1>12, <1>13 DEF Good, Promise!Next

LEMMA SubmitGood ==
  ASSUME IInv, NEW d \in Descs, NEW r \in Requests, Submit(d, r)
  PROVE  Good
<1> USE DEF IInv
<1>1. /\ d \in free /\ free' = free \ {d}
      /\ chain' = [chain EXCEPT ![d] = r]
      /\ avail' = [idx |-> Inc(avail.idx), ring |-> [avail.ring EXCEPT ![avail.idx % NUM] = d]]
      /\ UNCHANGED <<deviceVars, used, data, disk, notifying, phase, written, lastUsed, handler>>
  BY DEF Submit
<1>2. /\ avail.idx \in Index /\ Inc(avail.idx) \in Index /\ avail.ring \in [Descs -> Descs]
      /\ avail.idx % NUM \in Descs /\ Upcoming \in Index /\ chain \in [Descs -> Requests]
  BY RingTypes, IncDef DEF Types, VirtIOTypeOK
<1>3. /\ Waiting \in Seq(Descs) /\ Len(Waiting) = Distance(Upcoming, avail.idx)
      /\ Len(Waiting) \in Nat /\ Len(Answered) \in Nat /\ Len(Taken) \in Nat
      /\ IsFiniteSet(free) /\ Cardinality(free) \in Nat
  BY StateFacts
<1>4. Cardinality(free \ {d}) = Cardinality(free) - 1 /\ Cardinality(free \ {d}) \in Nat
  <2>1. IsFiniteSet(free \ {d}) /\ Cardinality(free \ {d}) = Cardinality(free) - 1
    BY <1>1, <1>3, FS_RemoveElement
  <2> QED BY <2>1, FS_CardinalityType
<1> DEFINE w == Len(Waiting)
           t == Len(Taken)
           a == Len(Answered)
           f == Cardinality(free)
           fNew == Cardinality(free \ {d})
<1>5. /\ w \in Nat /\ t \in Nat /\ a \in Nat /\ f \in Nat /\ fNew \in Nat
      /\ fNew = f - 1 /\ w + t + a + f <= NUM /\ NUM \in Nat
  BY <1>3, <1>4, Sizes DEF RoomInv
<1>6. Distance(Upcoming, avail.idx) < NUM
  <2>1. w < NUM
    <3> HIDE DEF w, t, a, f, fNew
    <3> QED BY <1>5, SMT
  <2> QED BY <1>3, <2>1
<1>7. Upcoming' = Upcoming /\ Taken' = Taken /\ Answered' = Answered
  BY <1>1 DEF Upcoming, Taken, Answered, InStep, deviceVars
<1>8. Waiting' = Append(Waiting, d)
  <2>1. avail'.idx = Inc(avail.idx) /\ avail'.ring = [avail.ring EXCEPT ![avail.idx % NUM] = d]
    BY <1>1
  <2>2. Between(Upcoming, Inc(avail.idx), [avail.ring EXCEPT ![avail.idx % NUM] = d])
          = Append(Waiting, d)
    BY <1>2, <1>6, BetweenAppend DEF Waiting
  <2> QED BY <1>7, <2>1, <2>2 DEF Waiting
<1>9. /\ d \notin Range(Waiting) /\ d \notin Range(Answered) /\ d \notin Range(Taken)
  BY <1>1 DEF OwnInv
<1>10. /\ Len(Append(Waiting, d)) = w + 1
       /\ Range(Append(Waiting, d)) = Range(Waiting) \cup {d}
       /\ Distinct(Append(Waiting, d))
  BY <1>3, <1>9, AppendFacts DEF OwnInv
<1>11. Types'
  <2>1. avail' \in [idx : Index, ring : [Descs -> Descs]]
    <3>1. [avail.ring EXCEPT ![avail.idx % NUM] = d] \in [Descs -> Descs]
      BY <1>2
    <3> QED BY <1>1, <1>2, <3>1
  <2>2. chain' \in [Descs -> Requests] /\ free' \subseteq Descs
    BY <1>1, <1>2 DEF Types, VirtIOTypeOK
  <2> QED BY <1>1, <2>1, <2>2 DEF Types, VirtIOTypeOK, deviceVars
<1>12. NotifyInv'
  <2> SUFFICES ASSUME notifying # <<>>
               PROVE  Distance(Upcoming, notifying.availIndex) <= Distance(Upcoming, Inc(avail.idx))
    BY <1>1, <1>7 DEF NotifyInv
  <2> DEFINE there == Distance(Upcoming, notifying.availIndex)
             all == Distance(Upcoming, avail.idx)
  <2>1. there <= all
    BY DEF NotifyInv
  <2>2. there \in 0 .. M - 1 /\ all \in 0 .. M - 1
    BY <1>2, DistanceDef DEF Types, Notifying
  <2>3. all < M - 1 /\ there <= all + 1
    <3> HIDE DEF there, all, M
    <3> QED BY <1>6, <2>1, <2>2, Sizes, SMT DEF all
  <2>4. Distance(Upcoming, Inc(avail.idx)) = all + 1
    BY <1>2, <2>3, DistanceGrows
  <2> QED BY <2>3, <2>4
<1>13. RoomInv'
  <2>1. RoomInv' = (Len(Append(Waiting, d)) + t + a + fNew <= NUM)
    BY <1>1, <1>7, <1>8 DEF RoomInv
  <2> DEFINE wNew == Len(Append(Waiting, d))
  <2>2. wNew = w + 1
    BY <1>10
  <2>3. RoomInv' = (wNew + t + a + fNew <= NUM)
    BY <2>1
  <2> HIDE DEF w, wNew, t, a, f, fNew
  <2>4. wNew + t + a + fNew <= NUM
    BY <1>5, <2>2, SMT
  <2> QED BY <2>3, <2>4
<1>14. OwnInv'
  <2>1. Distinct(Waiting)' /\ Distinct(Answered)'
    BY <1>7, <1>8, <1>10 DEF OwnInv, Distinct
  <2>2. /\ Range(Waiting)' = Range(Append(Waiting, d)) /\ Range(Answered)' = Range(Answered)
        /\ Range(Taken)' = Range(Taken)
    BY <1>7, <1>8 DEF Range
  <2> QED BY <1>1, <1>9, <1>10, <2>1, <2>2 DEF OwnInv
<1>15. StatusWasWritten'
  BY <1>1, SameStatus DEF deviceVars
<1>16. Promise!Submit
  <2>1. Queue' = Append(Queue, [desc |-> d, request |-> r])
    <3>1. Queue' = Requested(Append(Waiting, d), [chain EXCEPT ![d] = r])
      BY <1>1, <1>8, QueueDef
    <3>2. d \in Descs \ Range(Waiting)
      BY <1>9
    <3>3. Requested(Append(Waiting, d), [chain EXCEPT ![d] = r])
            = Append(Requested(Waiting, chain), [desc |-> d, request |-> r])
      BY <1>2, <1>3, <3>2, RequestedAppend
    <3> QED BY <3>1, <3>3, QueueDef
  <2> QED BY <1>1, <1>7, <2>1 DEF Promise!Submit, Answered
<1> QED
  BY <1>11, <1>12, <1>13, <1>14, <1>15, <1>16 DEF Good, Promise!Next

LEMMA RingType == Ring \in [idx : Index, ring : [Descs -> Descs]] /\ Ring.idx = 0 /\ 0 \in Index
<1>1. 0 \in Index /\ 0 \in Descs
  <2>1. 0 \in 0 .. M - 1 /\ 0 \in 0 .. NUM - 1
    <3> HIDE DEF M
    <3> QED BY Sizes, SMT
  <2> QED BY <2>1, Sizes
<1> QED
  BY <1>1 DEF Ring

(* Rings that are idle, as the driver starts with them.                      *)
Idle ==
  /\ notifying = <<>> /\ lastAvailIndex = 0 /\ lastUsed = 0
  /\ avail = Ring /\ used = Ring /\ free = Descs

LEMMA IdleGood ==
  Idle => /\ Waiting = <<>> /\ Taken = <<>> /\ Answered = <<>>
          /\ NotifyInv /\ RoomInv /\ OwnInv
<1> SUFFICES ASSUME Idle
             PROVE  /\ Waiting = <<>> /\ Taken = <<>> /\ Answered = <<>>
                    /\ NotifyInv /\ RoomInv /\ OwnInv
  OBVIOUS
<1> USE DEF Idle
<1>1. Upcoming = 0 /\ Taken = <<>>
  BY DEF Upcoming, Taken, InStep
<1>2. Waiting = <<>> /\ Answered = <<>>
  BY <1>1, RingType, BetweenEmpty DEF Waiting, Answered
<1>3. NotifyInv
  BY DEF NotifyInv
<1>4. Len(<<>>) = 0 /\ DOMAIN <<>> = {} /\ Range(<<>>) = {}
  BY EmptySeq, SeqFacts DEF Range
<1>5. Cardinality(free) = NUM
  <2>1. Cardinality(0 .. NUM - 1) = IF 0 > NUM - 1 THEN 0 ELSE (NUM - 1) - 0 + 1
    BY Sizes, FS_Interval
  <2> QED BY <2>1, Sizes, SMT
<1>6. RoomInv
  <2>1. RoomInv = (0 + 0 + 0 + NUM <= NUM)
    BY <1>1, <1>2, <1>4, <1>5 DEF RoomInv
  <2>2. 0 + 0 + 0 + NUM <= NUM
    BY Sizes, SMT
  <2> QED BY <2>1, <2>2
<1>7. OwnInv
  BY <1>1, <1>2, <1>4 DEF OwnInv, Distinct
<1> QED
  BY <1>1, <1>2, <1>3, <1>6, <1>7

LEMMA ResetGood ==
  ASSUME IInv, reset
  PROVE  Good
<1> USE DEF IInv
<1>1. /\ notifying' = <<>> /\ state' = 1 /\ lastAvailIndex' = 0
      /\ phase' = "setup" /\ written' = {}
      /\ avail' = Ring /\ used' = Ring /\ free' = Descs /\ lastUsed' = 0
      /\ UNCHANGED <<interrupt, chain, data, disk, handler>>
  BY DEF reset, ResetDevice
<1>2. /\ Waiting' = <<>> /\ Taken' = <<>> /\ Answered' = <<>>
      /\ NotifyInv' /\ RoomInv' /\ OwnInv'
  <2>1. Idle'
    BY <1>1 DEF Idle
  <2>2. (Idle => /\ Waiting = <<>> /\ Taken = <<>> /\ Answered = <<>>
                 /\ NotifyInv /\ RoomInv /\ OwnInv)'
    BY IdleGood, PTL
  <2> QED BY <2>1, <2>2
<1>3. Types'
  BY <1>1, RingType DEF Types, VirtIOTypeOK, States
<1>4. StatusWasWritten'
  BY <1>1 DEF StatusWasWritten, read_status
<1>5. Promise!Reset
  <2>1. Queue' = <<>>
    <3>1. Len(Queue') = 0 /\ Queue' \in Seq(Element)
      <4>1. <<>> \in Seq(Descs) /\ Len(<<>>) = 0
        BY EmptySeq
      <4>2. chain' \in [Descs -> Requests]
        BY <1>3 DEF Types, VirtIOTypeOK
      <4> QED BY <1>2, <4>1, <4>2, QueueDef, RequestedType
    <3> QED BY <3>1, EmptySeq
  <2> QED BY <1>1, <1>2, <2>1 DEF Promise!Reset, Answered
<1> QED
  BY <1>2, <1>3, <1>4, <1>5 DEF Good, Promise!Next

Stops(bits, from, n) ==
  /\ n \in from .. Len(States)
  /\ \A i \in from .. n - 1 : Bits[i] \in bits
  /\ n < Len(States) => Bits[n] \notin bits

LEMMA AdvancedFacts ==
  ASSUME NEW bits, state \in 1 .. Len(States)
  PROVE  /\ Advanced(bits) \in state .. Len(States)
         /\ \A i \in state .. Advanced(bits) - 1 : Bits[i] \in bits
<1>1. Len(States) = 5
  BY DEF States
<1> DEFINE Some(k) == \E n \in k .. 5 : Stops(bits, k, n)
<1>2. Some(5)
  BY <1>1 DEF Stops
<1>3. ASSUME NEW k \in 1 .. 4, Some(k + 1) PROVE Some(k)
  <2>1. CASE Bits[k] \notin bits
    <3>1. k \in k .. 5 /\ k .. k - 1 = {}
      OBVIOUS
    <3>2. Stops(bits, k, k)
      BY <1>1, <2>1, <3>1 DEF Stops
    <3> QED BY <3>1, <3>2
  <2>2. CASE Bits[k] \in bits
    <3>1. PICK n \in k + 1 .. 5 : Stops(bits, k + 1, n)
      BY <1>3
    <3>2. n \in k .. 5 /\ \A i \in k .. n - 1 : i = k \/ i \in k + 1 .. n - 1
      OBVIOUS
    <3>3. Stops(bits, k, n)
      BY <1>1, <2>2, <3>1, <3>2 DEF Stops
    <3> QED BY <3>2, <3>3
  <2> QED BY <2>1, <2>2
<1>4. Some(1) /\ Some(2) /\ Some(3) /\ Some(4)
  <2> HIDE DEF Some
  <2>1. Some(4)
    <3>1. 4 \in 1 .. 4 /\ 4 + 1 = 5
      OBVIOUS
    <3> QED BY <1>2, <1>3, <3>1
  <2>2. Some(3)
    <3>1. 3 \in 1 .. 4 /\ 3 + 1 = 4
      OBVIOUS
    <3> QED BY <2>1, <1>3, <3>1
  <2>3. Some(2)
    <3>1. 2 \in 1 .. 4 /\ 2 + 1 = 3
      OBVIOUS
    <3> QED BY <2>2, <1>3, <3>1
  <2>4. Some(1)
    <3>1. 1 \in 1 .. 4 /\ 1 + 1 = 2
      OBVIOUS
    <3> QED BY <2>3, <1>3, <3>1
  <2> QED BY <2>1, <2>2, <2>3, <2>4
<1>5. Some(state)
  <2> HIDE DEF Some
  <2>1. state = 1 \/ state = 2 \/ state = 3 \/ state = 4 \/ state = 5
    BY <1>1
  <2> QED BY <1>2, <1>4, <2>1
<1>6. Stops(bits, state, Advanced(bits))
  <2>1. \E n \in state .. Len(States) :
          /\ \A i \in state .. n - 1 : Bits[i] \in bits
          /\ n < Len(States) => Bits[n] \notin bits
    BY <1>1, <1>5 DEF Stops
  <2>2. /\ Advanced(bits) \in state .. Len(States)
        /\ \A i \in state .. Advanced(bits) - 1 : Bits[i] \in bits
        /\ Advanced(bits) < Len(States) => Bits[Advanced(bits)] \notin bits
    BY <2>1, Zenon DEF Advanced
  <2> QED BY <2>2 DEF Stops
<1> QED
  BY <1>6 DEF Stops

LEMMA WriteStatusGood ==
  ASSUME IInv, NEW bits \in SUBSET StatusBits, write_status(bits)
  PROVE  Good
<1> USE DEF IInv
<1>1. /\ phase = "setup" /\ state' = Advanced(bits) /\ written' = written \cup bits
      /\ phase' \in {"setup", "run"}
      /\ UNCHANGED <<lastAvailIndex, interrupt, avail, used, chain, data,
                     disk, notifying, free, lastUsed, handler>>
  BY DEF write_status
<1>2. state \in 1 .. Len(States) /\ Len(States) = 5
  BY DEF Types, VirtIOTypeOK, States
<1>3. state' \in state .. Len(States) /\ \A i \in state .. state' - 1 : Bits[i] \in bits
  BY <1>1, <1>2, AdvancedFacts
<1>4. state' \in 1 .. Len(States)
  BY <1>2, <1>3
<1>5. Upcoming' = Upcoming /\ Waiting' = Waiting /\ Taken' = Taken
      /\ Answered' = Answered /\ free' = free
  BY <1>1 DEF Upcoming, Waiting, Taken, Answered, InStep
<1>6. Types'
  BY <1>1, <1>4 DEF Types, VirtIOTypeOK
<1>7. NotifyInv'
  BY <1>1, <1>5 DEF NotifyInv
<1>8. RoomInv' /\ OwnInv'
  BY <1>5, SamePlaces
<1>9. StatusWasWritten'
  <2>1. \A i \in 1 .. state - 1 : Bits[i] \in written
    BY <1>1 DEF StatusWasWritten, read_status
  <2>2. \A i \in 1 .. state' - 1 : i \in 1 .. state - 1 \/ i \in state .. state' - 1
    <3> DEFINE s == state
               t == state'
    <3>1. s \in 1 .. 5 /\ t \in 1 .. 5
      BY <1>2, <1>4
    <3> HIDE DEF s, t
    <3>2. \A i \in 1 .. t - 1 : i \in 1 .. s - 1 \/ i \in s .. t - 1
      BY <3>1, SMT
    <3> QED BY <3>2 DEF s, t
  <2>3. \A i \in 1 .. state' - 1 : Bits[i] \in written'
    BY <1>1, <1>3, <2>1, <2>2
  <2> QED BY <2>3 DEF StatusWasWritten, read_status
<1>10. UNCHANGED Promise!vars
  BY <1>1, <1>5, SamePromise
<1> QED
  BY <1>6, <1>7, <1>8, <1>9, <1>10 DEF Good

LEMMA StepGood ==
  ASSUME IInv, Next
  PROVE  Good
<1>1. CASE HandleRequest
  BY <1>1, HandleRequestGood
<1>2. CASE virtio_handle_done
  BY <1>2, DoneGood
<1>3. CASE RaiseInterrupt
  BY <1>3, RaiseInterruptGood
<1>4. CASE NotifyBegin
  BY <1>4, NotifyBeginGood
<1>5. CASE NotifyEnd
  BY <1>5, NotifyEndGood
<1>6. CASE TakeInterrupt \/ HandlerEnd
  BY <1>6, HandlerGood
<1>7. CASE Collect
  BY <1>7, CollectGood
<1>8. CASE reset
  BY <1>8, ResetGood
<1>9. ASSUME NEW bits \in SUBSET StatusBits \ {{}}, write_status(bits) PROVE Good
  BY <1>9, WriteStatusGood
<1>10. ASSUME NEW d \in Descs, NEW r \in Requests, Submit(d, r) PROVE Good
  BY <1>10, SubmitGood
<1> QED
  BY <1>1, <1>2, <1>3, <1>4, <1>5, <1>6, <1>7, <1>8, <1>9, <1>10 DEF Next, Device, Handler

LEMMA StutterGood ==
  ASSUME IInv, UNCHANGED vars
  PROVE  Good
<1> USE DEF IInv, vars
<1>1. Upcoming' = Upcoming /\ Waiting' = Waiting /\ Taken' = Taken
      /\ Answered' = Answered /\ free' = free
  BY DEF Upcoming, Waiting, Taken, Answered, InStep
<1>2. Types'
  BY DEF Types, VirtIOTypeOK
<1>3. NotifyInv'
  BY <1>1 DEF NotifyInv
<1>4. RoomInv' /\ OwnInv'
  BY <1>1, SamePlaces
<1>5. StatusWasWritten'
  BY SameStatus
<1>6. UNCHANGED Promise!vars
  BY <1>1, SamePromise
<1> QED
  BY <1>2, <1>3, <1>4, <1>5, <1>6 DEF Good

LEMMA InitGood ==
  ASSUME Init
  PROVE  IInv /\ Promise!Init
<1> USE DEF Init
<1>1. /\ Waiting = <<>> /\ Taken = <<>> /\ Answered = <<>>
      /\ NotifyInv /\ RoomInv /\ OwnInv
  BY IdleGood DEF Idle
<1>2. Types
  <2>1. NoRequest \in Requests
    BY VirtIOAssumption, Zenon DEF NoRequest
  <2>2. chain \in [Descs -> Requests]
    BY <2>1
  <2>3. disk \in [Sectors -> Values] /\ data \in [Descs -> Values]
    OBVIOUS
  <2> QED BY <2>2, <2>3, RingType DEF Types, VirtIOTypeOK
<1>3. StatusWasWritten
  BY DEF StatusWasWritten
<1>4. Promise!Init
  <2>1. Queue = <<>>
    <3>1. Len(Queue) = 0 /\ Queue \in Seq(Element)
      <4>1. <<>> \in Seq(Descs) /\ Len(<<>>) = 0
        BY EmptySeq
      <4>2. chain \in [Descs -> Requests]
        BY <1>2 DEF Types, VirtIOTypeOK
      <4> QED BY <1>1, <4>1, <4>2, QueueDef, RequestedType
    <3> QED BY <3>1, EmptySeq
  <2>2. disk \in [Sectors -> Values] /\ data \in [Descs -> Values]
    BY <1>2 DEF Types, VirtIOTypeOK
  <2> QED BY <1>1, <2>1, <2>2 DEF Promise!Init, Answered
<1> QED
  BY <1>1, <1>2, <1>3, <1>4 DEF IInv

(* What notify_queue, virtio_handle_done and a driver that keeps its rules    *)
(* keep true of the rings, and write_status of the status (IInv).             *)
THEOREM InductiveInvariant == Spec => []IInv
<1>1. IInv /\ [Next]_vars => IInv'
  BY StepGood, StutterGood DEF Good
<1> QED
  BY <1>1, InitGood, PTL DEF Spec

(* Types of the registers, the rings, the buffers and the disk: an index      *)
(* stays within its width, a slot names a descriptor of the queue.          *)
THEOREM TypeCorrect == Spec => []VirtIOTypeOK
<1>1. IInv => VirtIOTypeOK
  BY DEF IInv, Types
<1> QED
  BY <1>1, InductiveInvariant, PTL

(* read_status shows only bits the driver has written since the reset,        *)
(* whatever bits it writes and in whatever order (write_status).              *)
THEOREM StatusIsTrue == Spec => []StatusWasWritten
<1>1. IInv => StatusWasWritten
  BY DEF IInv
<1> QED
  BY <1>1, InductiveInvariant, PTL

(* VirtIO implements BlockQueue: each request made available acts on the disk *)
(* once and in order and is answered under its own chain, while other harts   *)
(* submit and collect and the indices wrap.                                   *)
THEOREM Refinement == Spec => ImplementsBlockQueue
<1>1. Init => Promise!Init
  BY InitGood
<1>2. IInv /\ [Next]_vars => [Promise!Next]_(Promise!vars)
  BY StepGood, StutterGood DEF Good
<1> QED
  BY <1>1, <1>2, InductiveInvariant, PTL DEF Spec, ImplementsBlockQueue, Promise!Spec

=============================================================================
