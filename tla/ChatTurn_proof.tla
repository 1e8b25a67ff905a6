--------------------------- MODULE ChatTurn_proof ---------------------------
(* What a chat turn guarantees for any sessions, messages, texts, diffs,    *)
(* limits and clocks, however turns overlap and whatever fails, in six     *)
(* parts: the short-term rows (MInv), the durable rows and the truth of    *)
(* replies (TurnInv), folds and sums, what a provider is given (Own),      *)
(* splitting and joining, and what a channel shows (Told).                 *)
(*                                                                         *)
(* Recursion over data is reasoned about without an induction theorem: a   *)
(* set of numbers with 0 and with each successor is Nat (Induction, by its *)
(* least counterexample), a fold is a chain of its steps (Recursion,       *)
(* Chain), and a recursive function over positions exists because a step   *)
(* looks at later positions only (CutsExist).                              *)
EXTENDS ChatTurn, SequenceTheorems, FiniteSetTheorems, TLAPS

-----------------------------------------------------------------------------
(* Numbers.                                                                *)

(* A set of numbers that has 0, and with each number the next, has all.    *)
LEMMA Induction ==
    ASSUME NEW T \in SUBSET Nat, 0 \in T, \A n \in T : n + 1 \in T
    PROVE  T = Nat
<1> SUFFICES ASSUME Nat \ T # {} PROVE FALSE
  OBVIOUS
<1>1. PICK n \in Nat \ T : \A m \in Nat \ T : ~(<<m, n>> \in OpToRel(<, Nat))
  BY WFMin, NatLessThanWellFounded
<1>2. \A m \in Nat \ T : ~(m < n)
  BY <1>1 DEF OpToRel
<1>3. n \in Nat /\ n \notin T /\ n # 0
  BY <1>1
<1>4. n - 1 \in Nat /\ n - 1 < n /\ (n - 1) + 1 = n
  <2> QED BY <1>3, SMT
<1>5. n - 1 \in T
  BY <1>2, <1>4
<1>6. (n - 1) + 1 \in T
  BY <1>5
<1> QED
  BY <1>3, <1>4, <1>6

(* The greatest of some numbers up to n.                                   *)
LEMMA Greatest ==
    ASSUME NEW n \in Nat, NEW S \in SUBSET (1..n), S # {}
    PROVE  Max(S) \in S /\ \A i \in S : i <= Max(S)
<1> DEFINE T == {m \in Nat : \A R \in SUBSET (1..m) : R # {} => \E x \in R : \A i \in R : x >= i}
<1>1. 0 \in T
  <2>1. 1..0 = {}
    OBVIOUS
  <2> QED BY <2>1
<1>2. ASSUME NEW m \in T PROVE m + 1 \in T
  <2> SUFFICES ASSUME NEW R \in SUBSET (1..(m + 1)), R # {}
               PROVE  \E x \in R : \A i \in R : x >= i
    BY <1>2
  <2>1. CASE m + 1 \in R
    BY <2>1, <1>2
  <2>2. CASE m + 1 \notin R
    <3>1. R \in SUBSET (1..m)
      BY <2>2, <1>2
    <3> QED BY <3>1, <1>2
  <2> QED BY <2>1, <2>2
<1>3. T = Nat
  <2> HIDE DEF T
  <2>1. T \in SUBSET Nat
    BY DEF T
  <2> QED BY <1>1, <1>2, <2>1, Induction
<1>4. \E x \in S : \A i \in S : x >= i
  BY <1>3
<1>5. Max(S) \in S /\ \A i \in S : Max(S) >= i
  BY <1>4, Zenon DEF Max
<1> QED
  BY <1>5

(* The smaller and the larger of two numbers.                              *)
LEMMA OfTwo ==
    ASSUME NEW a \in Int, NEW b \in Int
    PROVE  /\ Min({a, b}) = IF a <= b THEN a ELSE b
           /\ Max({a, b}) = IF a >= b THEN a ELSE b
<1>1. \E x \in {a, b} : \A y \in {a, b} : x <= y
  OBVIOUS
<1>2. Min({a, b}) \in {a, b} /\ \A y \in {a, b} : Min({a, b}) <= y
  BY <1>1, Zenon DEF Min
<1>3. \E x \in {a, b} : \A y \in {a, b} : x >= y
  OBVIOUS
<1>4. Max({a, b}) \in {a, b} /\ \A y \in {a, b} : Max({a, b}) >= y
  BY <1>3, Zenon DEF Max
<1> QED
  BY <1>2, <1>4

-----------------------------------------------------------------------------
(* Rows in the order they were said.                                       *)

Row == [id : Nat, session : Sessions, role : {"user", "assistant"}, by : Messages, at : Int]

Rising(q) == \A i, j \in DOMAIN q : i < j => q[i].at < q[j].at /\ q[i].id < q[j].id

(* In a rising sequence the earlier row is the one that comes first.       *)
LEMMA EarlierIsBefore ==
    ASSUME NEW q \in Seq(Row), Rising(q), NEW i \in DOMAIN q, NEW j \in DOMAIN q
    PROVE  /\ Earlier(q[i], q[j]) <=> i < j
           /\ q[i] = q[j] => i = j
<1>1. q[i] \in Row /\ q[j] \in Row /\ i \in Nat /\ j \in Nat
  OBVIOUS
<1>2. q[i].at \in Int /\ q[j].at \in Int /\ q[i].id \in Nat /\ q[j].id \in Nat
  BY <1>1 DEF Row
<1>3. /\ i < j => q[i].at < q[j].at /\ q[i].id < q[j].id
      /\ j < i => q[j].at < q[i].at /\ q[j].id < q[i].id
  BY DEF Rising
<1>4. i < j \/ i = j \/ j < i
  BY <1>1
<1> QED
  BY <1>1, <1>2, <1>3, <1>4 DEF Earlier

(* It holds its rows once each, and before each those that are earlier.    *)
LEMMA Counted ==
    ASSUME NEW q \in Seq(Row), Rising(q), NEW m \in 0..Len(q)
    PROVE  /\ IsFiniteSet({q[j] : j \in 1..m})
           /\ Cardinality({q[j] : j \in 1..m}) = m
<1> DEFINE S == {q[j] : j \in 1..m}
           f == [j \in 1..m |-> q[j]]
<1>1. m \in Nat /\ 1..m \subseteq DOMAIN q
  OBVIOUS
<1>2. f \in [1..m -> S]
  OBVIOUS
<1>3. \A i, j \in 1..m : f[i] = f[j] => i = j
  BY <1>1, EarlierIsBefore
<1>4. \A r \in S : \E j \in 1..m : f[j] = r
  OBVIOUS
<1>5. ExistsBijection(1..m, S)
  <2> HIDE DEF f, S
  <2> QED BY <1>2, <1>3, <1>4 DEF ExistsBijection, Bijection, Injection, Surjection, IsInjective
<1> HIDE DEF S, f
<1> QED
  BY <1>1, <1>5, FS_CountingElements, FS_NatBijection DEF S

(* Its rows, put in order, are the sequence.                               *)
LEMMA InOrderOfRising ==
    ASSUME NEW q \in Seq(Row), Rising(q)
    PROVE  InOrder(ToSet(q)) = q
<1> DEFINE n == Len(q)
           S == ToSet(q)
           Before(r) == {x \in S : Earlier(x, r)}
           Nth(i) == CHOOSE r \in S : Cardinality(Before(r)) = i - 1
<1>1. n \in Nat /\ DOMAIN q = 1..n /\ S = {q[j] : j \in 1..n} /\ n \in 0..n
  BY DEF ToSet
<1>2. Cardinality(S) = n
  BY <1>1, Counted
<1>3. ASSUME NEW i \in 1..n
      PROVE  Cardinality(Before(q[i])) = i - 1
  <2>1. i - 1 \in 0..n
    BY <1>1
  <2>2. Before(q[i]) = {q[j] : j \in 1..(i - 1)}
    <3>1. \A j \in 1..n : Earlier(q[j], q[i]) <=> j < i
      BY <1>1, EarlierIsBefore
    <3>2. \A j \in 1..n : j < i <=> j \in 1..(i - 1)
      BY <1>1
    <3>3. \A j \in 1..(i - 1) : j \in 1..n
      BY <1>1
    <3> QED BY <1>1, <3>1, <3>2, <3>3
  <2> QED BY <2>1, <2>2, Counted
<1>4. ASSUME NEW i \in 1..n
      PROVE  Nth(i) = q[i]
  <2>1. q[i] \in S /\ Cardinality(Before(q[i])) = i - 1
    BY <1>1, <1>3
  <2>2. \A r \in S : Cardinality(Before(r)) = i - 1 => r = q[i]
    <3> SUFFICES ASSUME NEW j \in 1..n, Cardinality(Before(q[j])) = i - 1 PROVE j = i
      BY <1>1
    <3>1. Cardinality(Before(q[j])) = j - 1
      BY <1>3
    <3> HIDE DEF Before
    <3> QED BY <1>1, <3>1
  <2> HIDE DEF Before, S
  <2> QED BY <2>1, <2>2
<1>5. InOrder(S) = [i \in 1..Cardinality(S) |-> Nth(i)]
  BY DEF InOrder
<1>6. q = [i \in 1..n |-> q[i]]
  BY <1>1
<1> HIDE DEF Nth, S, n
<1>7. [i \in 1..n |-> Nth(i)] = [i \in 1..n |-> q[i]]
  BY <1>4
<1> QED
  BY <1>2, <1>5, <1>6, <1>7 DEF S

(* A part of a rising sequence rises.                                      *)
LEMMA PartsRise ==
    ASSUME NEW q \in Seq(Row), Rising(q), NEW a \in 1..(Len(q) + 1), NEW b \in 0..Len(q)
    PROVE  SubSeq(q, a, b) \in Seq(Row) /\ Rising(SubSeq(q, a, b))
<1>1. /\ SubSeq(q, a, b) \in Seq(Row)
      /\ Len(SubSeq(q, a, b)) = IF a <= b THEN b - a + 1 ELSE 0
      /\ \A i \in DOMAIN SubSeq(q, a, b) : SubSeq(q, a, b)[i] = q[a + i - 1]
      /\ DOMAIN SubSeq(q, a, b) = 1..Len(SubSeq(q, a, b))
  <2> QED BY SubSeqProperties
<1>2. \A i \in DOMAIN SubSeq(q, a, b) : a + i - 1 \in DOMAIN q /\ i \in Nat
  BY <1>1
<1>3. \A i, j \in DOMAIN SubSeq(q, a, b) : i < j => a + i - 1 < a + j - 1
  BY <1>2
<1> QED
  BY <1>1, <1>2, <1>3 DEF Rising

(* Every set of its rows is a rising sequence in order.                    *)
LEMMA SubsetsRise ==
    ASSUME NEW q \in Seq(Row), Rising(q), NEW S \in SUBSET ToSet(q)
    PROVE  InOrder(S) \in Seq(Row) /\ Rising(InOrder(S)) /\ ToSet(InOrder(S)) = S
<1> DEFINE T == {m \in Nat : m <= Len(q) =>
                    \A R \in SUBSET {q[j] : j \in 1..m} : \E p \in Seq(Row) : Rising(p) /\ ToSet(p) = R}
<1>0. Len(q) \in Nat /\ DOMAIN q = 1..Len(q) /\ ToSet(q) = {q[j] : j \in 1..Len(q)}
  BY DEF ToSet
<1>1. 0 \in T
  <2>1. 1..0 = {}
    OBVIOUS
  <2>2. << >> \in Seq(Row) /\ Rising(<< >>) /\ ToSet(<< >>) = {}
    BY DEF Rising, ToSet
  <2> QED BY <2>1, <2>2
<1>2. ASSUME NEW m \in T PROVE m + 1 \in T
  <2>1. m \in Nat /\ (m <= Len(q) => \A R \in SUBSET {q[j] : j \in 1..m} :
                         \E p \in Seq(Row) : Rising(p) /\ ToSet(p) = R)
    BY <1>2
  <2> SUFFICES ASSUME m + 1 <= Len(q), NEW R \in SUBSET {q[j] : j \in 1..(m + 1)}
               PROVE  \E p \in Seq(Row) : Rising(p) /\ ToSet(p) = R
    <3>1. m + 1 \in Nat
      BY <2>1
    <3> QED BY <3>1
  <2>2. m <= Len(q) /\ m + 1 \in DOMAIN q /\ 1..m \subseteq DOMAIN q
    BY <1>0, <2>1
  <2>3. R \ {q[m + 1]} \in SUBSET {q[j] : j \in 1..m}
    <3>1. \A j \in 1..(m + 1) : j \in 1..m \/ j = m + 1
      BY <2>1
    <3> QED BY <3>1
  <2>4. PICK p \in Seq(Row) : Rising(p) /\ ToSet(p) = R \ {q[m + 1]}
    <3> HIDE DEF T
    <3> QED BY <2>1, <2>2, <2>3
  <2>5. CASE q[m + 1] \notin R
    BY <2>4, <2>5
  <2>6. CASE q[m + 1] \in R
    <3> DEFINE l == Append(p, q[m + 1])
    <3>1. /\ q[m + 1] \in Row /\ l \in Seq(Row) /\ Len(l) = Len(p) + 1 /\ Len(p) \in Nat
          /\ DOMAIN p = 1..Len(p) /\ DOMAIN l = 1..(Len(p) + 1)
          /\ \A i \in DOMAIN p : l[i] = p[i]
          /\ l[Len(p) + 1] = q[m + 1]
      BY <2>2
    <3> HIDE DEF l
    <3>2. ToSet(l) = R
      <4>1. ToSet(l) = {l[i] : i \in DOMAIN p} \cup {l[Len(p) + 1]}
        BY <3>1 DEF ToSet
      <4>2. {l[i] : i \in DOMAIN p} = ToSet(p)
        BY <3>1 DEF ToSet
      <4> QED BY <2>4, <2>6, <3>1, <4>1, <4>2
    <3>3. \A i \in DOMAIN p : p[i].at < q[m + 1].at /\ p[i].id < q[m + 1].id
      <4> TAKE i \in DOMAIN p
      <4>1. p[i] \in {q[j] : j \in 1..m}
        BY <2>3, <2>4 DEF ToSet
      <4>2. PICK j \in 1..m : p[i] = q[j]
        BY <4>1
      <4>3. j \in DOMAIN q /\ j < m + 1
        BY <2>1, <2>2
      <4> QED BY <2>2, <4>2, <4>3 DEF Rising
    <3>4. Rising(l)
      <4> SUFFICES ASSUME NEW i \in DOMAIN l, NEW j \in DOMAIN l, i < j
                   PROVE  l[i].at < l[j].at /\ l[i].id < l[j].id
        BY DEF Rising
      <4>1. i \in DOMAIN p
        BY <3>1
      <4>2. j \in DOMAIN p \/ j = Len(p) + 1
        BY <3>1
      <4> QED BY <2>4, <3>1, <3>3, <4>1, <4>2 DEF Rising
    <3> QED BY <3>1, <3>2, <3>4
  <2> QED BY <2>5, <2>6
<1>3. T = Nat
  <2> HIDE DEF T
  <2>1. T \in SUBSET Nat
    BY DEF T
  <2> QED BY <1>1, <1>2, <2>1, Induction
<1>4. PICK p \in Seq(Row) : Rising(p) /\ ToSet(p) = S
  <2>1. Len(q) \in T /\ Len(q) <= Len(q)
    <3> HIDE DEF T
    <3> QED BY <1>0, <1>3
  <2> QED BY <1>0, <2>1
<1>5. InOrder(S) = p
  BY <1>4, InOrderOfRising
<1> QED
  BY <1>4, <1>5

(* What a sequence has after its first k elements.                         *)
From(q, k) == SubSeq(q, k + 1, Len(q))

(* What is left is a sequence of the same elements, in the same order.     *)
LEMMA FromProperties ==
    ASSUME NEW S, NEW q \in Seq(S), NEW k \in 0..Len(q)
    PROVE  /\ From(q, k) \in Seq(S)
           /\ Len(From(q, k)) = Len(q) - k
           /\ \A i \in 1..(Len(q) - k) : From(q, k)[i] = q[k + i]
<1>1. Len(q) \in Nat /\ k \in Nat /\ k <= Len(q)
  OBVIOUS
<1>2. k + 1 \in Int /\ Len(q) \in Int /\ \A i \in (k + 1)..Len(q) : q[i] \in S
  BY <1>1
<1>3. /\ From(q, k) \in Seq(S)
      /\ Len(From(q, k)) = IF k + 1 <= Len(q) THEN Len(q) - (k + 1) + 1 ELSE 0
      /\ \A i \in 1..(Len(q) - (k + 1) + 1) : From(q, k)[i] = q[(k + 1) + i - 1]
  BY <1>2, SubSeqProperties DEF From
<1>4. Len(q) - (k + 1) + 1 = Len(q) - k /\ (~(k + 1 <= Len(q)) => Len(q) - k = 0)
  BY <1>1
<1>5. \A i \in 1..(Len(q) - k) : (k + 1) + i - 1 = k + i
  BY <1>1
<1> QED
  BY <1>3, <1>4, <1>5

(* The newest of a last part is a last part again.                         *)
LEMMA NewestOfLast ==
    ASSUME NEW S, NEW q \in Seq(S), NEW k \in 0..Len(q), NEW n \in Nat
    PROVE  Newest(From(q, k), n) = From(q, IF Len(q) - k <= n THEN k ELSE Len(q) - n)
<1> DEFINE L == Len(q)
           part == From(q, k)
           h == IF L - k <= n THEN k ELSE L - n
           a == IF L - k <= n THEN 1 ELSE (L - k) - n + 1
<1>1. L \in Nat /\ k \in Nat /\ k <= L
  OBVIOUS
<1>2. part \in Seq(S) /\ Len(part) = L - k /\ \A i \in 1..(L - k) : part[i] = q[k + i]
  BY FromProperties
<1>3. h \in 0..L /\ a \in 1..(L - k + 1) /\ L - h = (L - k) - a + 1 /\ h = k + a - 1 /\ a \in Int
  <2> HIDE DEF L
  <2>1. CASE L - k <= n
    BY <1>1, <2>1
  <2>2. CASE ~(L - k <= n)
    BY <1>1, <2>2
  <2> QED BY <2>1, <2>2
<1>4. Max({1, Len(part) - n + 1}) = a
  <2>1. 1 \in Int /\ Len(part) - n + 1 \in Int
    BY <1>1, <1>2
  <2>2. Max({1, Len(part) - n + 1}) = IF 1 >= Len(part) - n + 1 THEN 1 ELSE Len(part) - n + 1
    BY <2>1, OfTwo
  <2> QED BY <1>1, <1>2, <2>2
<1>5. Newest(part, n) = SubSeq(part, a, L - k)
  BY <1>2, <1>4 DEF Newest
<1> HIDE DEF a, h
<1>6. \A i \in a..(L - k) : part[i] \in S
  <2>1. \A i \in a..(L - k) : i \in 1..Len(part)
    BY <1>1, <1>2, <1>3
  <2> HIDE DEF part
  <2> QED BY <1>2, <2>1
<1>7. /\ SubSeq(part, a, L - k) \in Seq(S)
      /\ Len(SubSeq(part, a, L - k)) = IF a <= L - k THEN (L - k) - a + 1 ELSE 0
      /\ \A i \in 1..((L - k) - a + 1) : SubSeq(part, a, L - k)[i] = part[a + i - 1]
  <2>1. L - k \in Int
    BY <1>1
  <2> HIDE DEF part, L
  <2> QED BY <1>3, <1>6, <2>1, SubSeqProperties
<1>8. Len(SubSeq(part, a, L - k)) = L - h
  BY <1>1, <1>3, <1>7
<1>9. From(q, h) \in Seq(S) /\ Len(From(q, h)) = L - h /\ \A i \in 1..(L - h) : From(q, h)[i] = q[h + i]
  BY <1>3, FromProperties
<1>10. \A i \in 1..(L - h) : SubSeq(part, a, L - k)[i] = From(q, h)[i]
  <2> TAKE i \in 1..(L - h)
  <2>1. i \in 1..((L - k) - a + 1) /\ a + i - 1 \in 1..(L - k) /\ k + (a + i - 1) = h + i
    BY <1>1, <1>3
  <2> HIDE DEF part, L
  <2> QED BY <1>2, <1>7, <1>9, <2>1
<1>11. SubSeq(part, a, L - k) = From(q, h)
  <2> HIDE DEF part, L
  <2> QED BY <1>7, <1>8, <1>9, <1>10, SeqEqual
<1> QED
  BY <1>5, <1>11 DEF h, a

(* A last part of a rising sequence rises.                                 *)
LEMMA LastRises ==
    ASSUME NEW q \in Seq(Row), Rising(q), NEW k \in 0..Len(q)
    PROVE  From(q, k) \in Seq(Row) /\ Rising(From(q, k))
<1>1. k + 1 \in 1..(Len(q) + 1) /\ Len(q) \in 0..Len(q)
  OBVIOUS
<1> QED
  BY <1>1, PartsRise DEF From

-----------------------------------------------------------------------------
(* What the store holds of what was said.                                  *)

Enough(n) == IF MaxShortTerm <= n THEN MaxShortTerm ELSE n

HeldFrom(mem, s, k) ==
    /\ k \in 0..Len(mem.said[s])
    /\ Len(mem.said[s]) - k >= Enough(Len(mem.said[s]))
    /\ {r \in mem.rows : r.session = s} = ToSet(From(mem.said[s], k))

SaidWell(mem, s) ==
    /\ mem.said[s] \in Seq(Row)
    /\ Rising(mem.said[s])
    /\ \A i \in DOMAIN mem.said[s] : mem.said[s][i].session = s /\ mem.said[s][i].id <= mem.id

Held(mem) ==
    /\ mem.id \in Nat
    /\ mem.said \in [Sessions -> Seq(Row)]
    /\ \A s \in Sessions : SaidWell(mem, s) /\ \E k \in Nat : HeldFrom(mem, s, k)

(* The rows found are the last part of what was said.                      *)
LEMMA RowsFound ==
    ASSUME NEW mem, Held(mem), NEW s \in Sessions, NEW k \in Nat, HeldFrom(mem, s, k)
    PROVE  FindByScope(mem.rows, s) = From(mem.said[s], k)
<1>1. /\ mem.said[s] \in Seq(Row) /\ Rising(mem.said[s]) /\ k \in 0..Len(mem.said[s])
      /\ {r \in mem.rows : r.session = s} = ToSet(From(mem.said[s], k))
  BY DEF Held, HeldFrom, SaidWell
<1>2. From(mem.said[s], k) \in Seq(Row) /\ Rising(From(mem.said[s], k))
  BY <1>1, LastRises
<1> QED
  BY <1>1, <1>2, InOrderOfRising DEF FindByScope

(* A new row is later than all that the session has said: what is held     *)
(* ends with the last row said, and the new one is later than that.        *)
LEMMA LaterThanAll ==
    ASSUME NEW mem, Held(mem), NEW s \in Sessions, NEW clock \in Clocks
    PROVE  /\ NextTimestamp(FindByScope(mem.rows, s), clock) \in Int
           /\ \A i \in DOMAIN mem.said[s] :
                 mem.said[s][i].at < NextTimestamp(FindByScope(mem.rows, s), clock)
<1> DEFINE q == mem.said[s]
           rows == FindByScope(mem.rows, s)
           S == {clock} \cup {rows[i].at + 1 : i \in DOMAIN rows}
<1>1. q \in Seq(Row) /\ Rising(q) /\ Len(q) \in Nat /\ DOMAIN q = 1..Len(q)
  BY DEF Held, SaidWell
<1>2. PICK k \in Nat : HeldFrom(mem, s, k)
  BY DEF Held
<1>3. rows = From(q, k) /\ k \in 0..Len(q) /\ Len(q) - k >= Enough(Len(q))
  BY <1>2, RowsFound DEF HeldFrom
<1>4. /\ rows \in Seq(Row) /\ Len(rows) = Len(q) - k /\ DOMAIN rows = 1..(Len(q) - k)
      /\ \A i \in 1..(Len(q) - k) : rows[i] = q[k + i]
  <2> HIDE DEF q, rows
  <2>1. /\ From(q, k) \in Seq(Row) /\ Len(From(q, k)) = Len(q) - k
        /\ \A i \in 1..(Len(q) - k) : From(q, k)[i] = q[k + i]
    BY <1>1, <1>3, FromProperties
  <2>2. rows \in Seq(Row) /\ Len(rows) = Len(q) - k
    BY <1>3, <2>1
  <2>3. DOMAIN rows = 1..Len(rows)
    BY <2>2
  <2> QED BY <1>3, <2>1, <2>2, <2>3
<1> HIDE DEF q, rows
<1>5. clock \in Int
  BY MemoryAssumption
<1>6. \A i \in DOMAIN q : q[i] \in Row /\ q[i].at \in Int
  <2>1. \A i \in DOMAIN q : q[i] \in Row
    BY <1>1
  <2> QED BY <2>1 DEF Row
<1>7. \A i \in DOMAIN rows : k + i \in DOMAIN q /\ rows[i] = q[k + i]
  BY <1>1, <1>3, <1>4
<1>8. S \subseteq Int
  BY <1>5, <1>6, <1>7
<1>9. \E x \in S : \A y \in S : x >= y
  <2>1. CASE Len(q) - k = 0
    <3>1. S = {clock}
      BY <1>4, <2>1
    <3> QED BY <1>5, <3>1
  <2>2. CASE Len(q) - k > 0
    <3> DEFINE last == q[Len(q)].at + 1
    <3>1. Len(q) - k \in DOMAIN rows /\ k + (Len(q) - k) = Len(q) /\ Len(q) \in DOMAIN q
      BY <1>1, <1>3, <1>4, <2>2
    <3>2. last \in S /\ last \in Int
      BY <1>6, <1>7, <3>1
    <3>3. \A i \in DOMAIN rows : rows[i].at + 1 <= last
      <4> TAKE i \in DOMAIN rows
      <4>1. rows[i] = q[k + i] /\ k + i \in DOMAIN q /\ (k + i = Len(q) \/ k + i < Len(q))
        BY <1>1, <1>3, <1>4, <1>7
      <4>2. q[k + i].at <= q[Len(q)].at
        BY <1>1, <1>6, <3>1, <4>1 DEF Rising
      <4> QED BY <1>6, <3>1, <4>1, <4>2
    <3> HIDE DEF last
    <3>4. CASE clock >= last
      <4>1. \A i \in DOMAIN rows : rows[i].at \in Int
        BY <1>6, <1>7
      <4>2. clock \in S /\ \A y \in S : clock >= y
        BY <1>5, <3>2, <3>3, <3>4, <4>1
      <4> QED BY <4>2
    <3>5. CASE clock < last
      <4>1. \A i \in DOMAIN rows : rows[i].at \in Int
        BY <1>6, <1>7
      <4>2. \A y \in S : last >= y
        BY <1>5, <3>2, <3>3, <3>5, <4>1
      <4> QED BY <3>2, <4>2
    <3>6. clock >= last \/ clock < last
      BY <1>5, <3>2
    <3> HIDE DEF S
    <3> QED BY <3>4, <3>5, <3>6
  <2>3. Len(q) - k = 0 \/ Len(q) - k > 0
    <3>1. k \in 0..Len(q)
      BY <1>3
    <3>2. Len(q) \in Nat
      BY <1>1
    <3> QED BY <3>1, <3>2
  <2> HIDE DEF S
  <2> QED BY <2>1, <2>2, <2>3
<1>10. Max(S) \in S /\ \A y \in S : Max(S) >= y
  BY <1>9, Zenon DEF Max
<1>11. NextTimestamp(rows, clock) = Max(S)
  BY DEF NextTimestamp
<1>12. ASSUME NEW i \in DOMAIN q
       PROVE  q[i].at < Max(S)
  <2>1. Len(q) \in DOMAIN q /\ (i = Len(q) \/ i < Len(q)) /\ Len(q) >= 1
    BY <1>1
  <2>2. Len(q) - k >= 1
    <3>1. Enough(Len(q)) >= 1
      BY <1>1, <2>1, MemoryAssumption DEF Enough
    <3>2. Enough(Len(q)) \in Int
      BY <1>1, MemoryAssumption DEF Enough
    <3> QED BY <1>1, <1>3, <3>1, <3>2
  <2>3. Len(q) - k \in DOMAIN rows /\ k + (Len(q) - k) = Len(q)
    BY <1>1, <1>3, <1>4, <2>2
  <2>4. q[Len(q)].at + 1 \in S
    BY <1>7, <2>3
  <2>5. q[i].at <= q[Len(q)].at
    BY <1>1, <1>6, <2>1 DEF Rising
  <2> HIDE DEF S
  <2>6. Max(S) \in Int /\ q[i].at \in Int /\ q[Len(q)].at \in Int
    BY <1>6, <1>8, <1>10, <2>1
  <2>7. Max(S) >= q[Len(q)].at + 1
    BY <1>10, <2>4
  <2> QED BY <2>5, <2>6, <2>7
<1> HIDE DEF S
<1> QED
  BY <1>8, <1>10, <1>11, <1>12 DEF q, rows

(* A row more said.                                                        *)
LEMMA SaidMore ==
    ASSUME NEW q \in Seq(Row), Rising(q), NEW row \in Row,
           \A i \in DOMAIN q : q[i].at < row.at /\ q[i].id < row.id
    PROVE  Append(q, row) \in Seq(Row) /\ Rising(Append(q, row))
<1> DEFINE l == Append(q, row)
<1>1. /\ Len(q) \in Nat /\ l \in Seq(Row) /\ DOMAIN q = 1..Len(q) /\ DOMAIN l = 1..(Len(q) + 1)
      /\ \A i \in DOMAIN q : l[i] = q[i]
      /\ l[Len(q) + 1] = row
  OBVIOUS
<1> HIDE DEF l
<1>2. ASSUME NEW i \in DOMAIN l, NEW j \in DOMAIN l, i < j
      PROVE  l[i].at < l[j].at /\ l[i].id < l[j].id
  <2>1. i \in DOMAIN q
    BY <1>1, <1>2
  <2>2. j \in DOMAIN q \/ j = Len(q) + 1
    BY <1>1
  <2> QED BY <1>1, <1>2, <2>1, <2>2 DEF Rising
<1> QED
  BY <1>1, <1>2 DEF Rising, l

OneRowMore(mem, new, s, role, by) ==
    \E row \in Row : /\ row.id = new.id /\ row.role = role /\ row.by = by
                     /\ new.said = [mem.said EXCEPT ![s] = Append(@, row)]

(* What a recording leaves: one row more said, and of what the session has *)
(* said the last part.                                                     *)
LEMMA RecordedHeld ==
    ASSUME NEW mem, Held(mem), NEW s \in Sessions, NEW role \in {"user", "assistant"},
           NEW by \in Messages, NEW clock \in Clocks, NEW keep \in Int, keep >= MaxShortTerm,
           NEW new, new = Recorded(mem, s, role, by, clock, keep)
    PROVE  /\ Held(new) /\ new.id = mem.id + 1
           /\ OneRowMore(mem, new, s, role, by)
<1> DEFINE q == mem.said[s]
           rows == FindByScope(mem.rows, s)
           at == NextTimestamp(rows, clock)
           row == [id |-> mem.id + 1, session |-> s, role |-> role, by |-> by, at |-> at]
           l == Append(q, row)
           kept == Pruned(InOrder(ToSet(rows) \cup {row}), keep)
<1>1. q \in Seq(Row) /\ Rising(q) /\ Len(q) \in Nat /\ DOMAIN q = 1..Len(q)
  BY DEF Held, SaidWell
<1>2. PICK k \in Nat : HeldFrom(mem, s, k)
  BY DEF Held
<1>3. rows = From(q, k) /\ k \in 0..Len(q) /\ Len(q) - k >= Enough(Len(q))
  BY <1>2, RowsFound DEF HeldFrom
<1>4. at \in Int /\ \A i \in DOMAIN q : q[i].at < at
  BY LaterThanAll
<1>5. mem.id \in Nat /\ mem.said \in [Sessions -> Seq(Row)]
      /\ \A i \in DOMAIN q : q[i].session = s /\ q[i].id <= mem.id
  BY DEF Held, SaidWell
<1>6. new = [rows |-> {r \in mem.rows : r.session # s} \cup ToSet(kept), id |-> mem.id + 1,
             said |-> [mem.said EXCEPT ![s] = l]]
  BY DEF Recorded
<1> HIDE DEF at, rows, q
<1>7. row \in Row /\ row.at = at /\ row.id = mem.id + 1 /\ row.session = s
      /\ row.role = role /\ row.by = by
  <2>1. mem.id + 1 \in Nat
    BY <1>5
  <2> QED BY <1>4, <2>1 DEF Row
<1> HIDE DEF row
<1>8. l \in Seq(Row) /\ Rising(l)
  <2>1. \A i \in DOMAIN q : q[i] \in Row
    BY <1>1
  <2>2. \A i \in DOMAIN q : q[i].id \in Nat
    BY <2>1 DEF Row
  <2>3. \A i \in DOMAIN q : q[i].at < row.at /\ q[i].id < row.id
    BY <1>4, <1>5, <1>7, <2>2
  <2> QED BY <1>1, <1>7, <2>3, SaidMore
<1>9. /\ Len(l) = Len(q) + 1 /\ l[Len(q) + 1] = row /\ \A i \in 1..Len(q) : l[i] = q[i]
      /\ DOMAIN l = 1..(Len(q) + 1)
  BY <1>1, <1>7
<1> HIDE DEF l
<1>10. k \in 0..Len(l)
  BY <1>1, <1>3, <1>9
<1>11. /\ From(q, k) \in Seq(Row) /\ Len(From(q, k)) = Len(q) - k
       /\ \A i \in 1..(Len(q) - k) : From(q, k)[i] = q[k + i]
  BY <1>1, <1>3, FromProperties
<1>12. /\ From(l, k) \in Seq(Row) /\ Len(From(l, k)) = Len(q) + 1 - k
       /\ \A i \in 1..(Len(q) + 1 - k) : From(l, k)[i] = l[k + i]
  <2>1. /\ From(l, k) \in Seq(Row) /\ Len(From(l, k)) = Len(l) - k
        /\ \A i \in 1..(Len(l) - k) : From(l, k)[i] = l[k + i]
    BY <1>8, <1>10, FromProperties
  <2>2. Len(l) - k = Len(q) + 1 - k
    BY <1>9
  <2> QED BY <2>1, <2>2
<1>13. ToSet(From(l, k)) = ToSet(From(q, k)) \cup {row}
  <2>1. DOMAIN From(q, k) = 1..(Len(q) - k) /\ DOMAIN From(l, k) = 1..(Len(q) + 1 - k)
    BY <1>11, <1>12
  <2>2. /\ \A i \in 1..(Len(q) - k) : i \in 1..(Len(q) + 1 - k) /\ From(l, k)[i] = From(q, k)[i]
        /\ Len(q) + 1 - k \in 1..(Len(q) + 1 - k)
        /\ From(l, k)[Len(q) + 1 - k] = row
    <3>1. /\ \A i \in 1..(Len(q) - k) : i \in 1..(Len(q) + 1 - k) /\ k + i \in 1..Len(q)
          /\ Len(q) + 1 - k \in 1..(Len(q) + 1 - k)
          /\ k + (Len(q) + 1 - k) = Len(q) + 1
      BY <1>1, <1>3
    <3> QED BY <1>9, <1>11, <1>12, <3>1
  <2>3. \A i \in 1..(Len(q) + 1 - k) : i \in 1..(Len(q) - k) \/ i = Len(q) + 1 - k
    BY <1>1, <1>3
  <2>4. ToSet(From(q, k)) = {From(q, k)[i] : i \in 1..(Len(q) - k)}
    BY <2>1 DEF ToSet
  <2>5. ToSet(From(l, k)) = {From(l, k)[i] : i \in 1..(Len(q) + 1 - k)}
    BY <2>1 DEF ToSet
  <2> QED BY <2>2, <2>3, <2>4, <2>5
<1>14. InOrder(ToSet(rows) \cup {row}) = From(l, k)
  <2>1. From(l, k) \in Seq(Row) /\ Rising(From(l, k))
    BY <1>8, <1>10, LastRises
  <2> QED BY <1>3, <1>13, <2>1, InOrderOfRising
<1> DEFINE h == IF Len(l) - k <= keep THEN k ELSE Len(l) - keep
<1>15. keep \in Nat /\ MaxShortTerm \in Nat
  BY MemoryAssumption
<1>16. kept = From(l, h)
  <2>1. Newest(From(l, k), keep) = From(l, IF Len(l) - k <= keep THEN k ELSE Len(l) - keep)
    BY <1>8, <1>10, <1>15, NewestOfLast
  <2> QED BY <1>14, <2>1 DEF Pruned
<1> HIDE DEF kept
<1>17. h \in 0..Len(l) /\ h \in Nat /\ Len(l) - h >= Enough(Len(l))
  <2>1. Len(l) \in Nat /\ Len(l) = Len(q) + 1
    BY <1>1, <1>9
  <2>2. CASE Len(l) - k <= keep
    <3>1. h = k
      BY <2>2
    <3> HIDE DEF h
    <3> QED BY <1>1, <1>3, <1>15, <2>1, <3>1 DEF Enough
  <2>3. CASE ~(Len(l) - k <= keep)
    <3>1. h = Len(l) - keep
      BY <2>3
    <3> HIDE DEF h
    <3> QED BY <1>1, <1>3, <1>15, <2>1, <2>3, <3>1 DEF Enough
  <2> QED BY <2>2, <2>3
<1> HIDE DEF h
<1>18. From(l, h) \in Seq(Row) /\ \A i \in 1..(Len(l) - h) : From(l, h)[i] = l[h + i]
  BY <1>8, <1>17, FromProperties
<1>19. \A i \in DOMAIN l : l[i].session = s /\ l[i].id <= mem.id + 1
  <2>1. \A i \in DOMAIN l : i \in 1..Len(q) \/ i = Len(q) + 1
    BY <1>1, <1>9
  <2>2. \A i \in 1..Len(q) : q[i].id \in Nat
    <3>1. \A i \in 1..Len(q) : q[i] \in Row
      BY <1>1
    <3> QED BY <3>1 DEF Row
  <2>3. \A i \in 1..Len(q) : l[i].session = s /\ l[i].id <= mem.id + 1
    BY <1>1, <1>5, <1>9, <2>2
  <2>4. mem.id + 1 <= mem.id + 1
    BY <1>5
  <2> QED BY <1>7, <1>9, <2>1, <2>3, <2>4
<1>20. \A r \in ToSet(kept) : r.session = s
  <2>1. ToSet(kept) \subseteq ToSet(l)
    <3>1. /\ DOMAIN From(l, h) = 1..(Len(l) - h)
          /\ \A i \in 1..(Len(l) - h) : h + i \in DOMAIN l
      <4>1. Len(From(l, h)) = Len(l) - h
        BY <1>8, <1>17, FromProperties
      <4>2. \A i \in 1..(Len(l) - h) : h + i \in DOMAIN l
        BY <1>1, <1>9, <1>17
      <4> QED BY <1>18, <4>1, <4>2
    <3> QED BY <1>16, <1>18, <3>1 DEF ToSet
  <2> QED BY <1>19, <2>1 DEF ToSet
<1>21. /\ new.id = mem.id + 1 /\ new.said = [mem.said EXCEPT ![s] = l]
       /\ new.rows = {r \in mem.rows : r.session # s} \cup ToSet(kept)
  BY <1>6
<1>22. new.said \in [Sessions -> Seq(Row)] /\ new.said[s] = l
       /\ \A t \in Sessions : t # s => new.said[t] = mem.said[t]
  BY <1>5, <1>8, <1>21
<1>23. ASSUME NEW t \in Sessions
       PROVE  SaidWell(new, t) /\ \E n \in Nat : HeldFrom(new, t, n)
  <2>1. CASE t = s
    <3>1. SaidWell(new, s)
      BY <1>8, <1>19, <1>21, <1>22 DEF SaidWell
    <3>2. {r \in new.rows : r.session = s} = ToSet(kept)
      BY <1>20, <1>21
    <3>3. HeldFrom(new, s, h)
      BY <1>16, <1>17, <1>22, <3>2 DEF HeldFrom
    <3> QED BY <1>17, <2>1, <3>1, <3>3
  <2>2. CASE t # s
    <3>1. new.said[t] = mem.said[t] /\ SaidWell(mem, t)
      BY <1>22, <2>2 DEF Held
    <3>2. SaidWell(new, t)
      <4>1. \A i \in DOMAIN mem.said[t] : mem.said[t][i].id \in Nat
        <5>1. \A i \in DOMAIN mem.said[t] : mem.said[t][i] \in Row
          BY <3>1 DEF SaidWell
        <5> QED BY <5>1 DEF Row
      <4>2. \A i \in DOMAIN mem.said[t] : mem.said[t][i].id <= mem.id + 1
        BY <1>5, <3>1, <4>1 DEF SaidWell
      <4> QED BY <1>21, <3>1, <4>2 DEF SaidWell
    <3>3. {r \in new.rows : r.session = t} = {r \in mem.rows : r.session = t}
      BY <1>20, <1>21, <2>2
    <3>4. PICK n \in Nat : HeldFrom(mem, t, n)
      BY DEF Held
    <3>5. HeldFrom(new, t, n)
      BY <3>1, <3>3, <3>4 DEF HeldFrom
    <3> QED BY <3>2, <3>5
  <2> QED BY <2>1, <2>2
<1>24. Held(new)
  <2>1. new.id \in Nat
    BY <1>5, <1>21
  <2> QED BY <1>22, <1>23, <2>1 DEF Held
<1> QED
  <2>1. new.said = [mem.said EXCEPT ![s] = Append(mem.said[s], row)]
    BY <1>21 DEF l, q
  <2>2. row.id = new.id
    BY <1>7, <1>21
  <2>3. OneRowMore(mem, new, s, role, by)
    BY <1>7, <2>1, <2>2 DEF OneRowMore
  <2> QED BY <1>21, <1>24, <2>3


-----------------------------------------------------------------------------
(* Steps on the store.                                                     *)

MInv == Held(Memory)

SaidOn(old, new) ==
    \A s \in Sessions : \A i \in DOMAIN old.said[s] :
        i \in DOMAIN new.said[s] /\ new.said[s][i] = old.said[s][i]

Grown(old, new) == Held(new) /\ old.id <= new.id /\ SaidOn(old, new)

Grows == MInv' /\ rowid <= rowid' /\ SaidOn(Memory, Memory')

(* A message belongs to a session.                                        *)
LEMMA SessionKnown == \A m \in Messages : SessionFor(m) \in Sessions
  BY TurnAssumption DEF SessionFor, Channels

(* Recording adds to what was said.                                        *)
LEMMA RecordedGrows ==
    ASSUME NEW mem, Held(mem), NEW s \in Sessions, NEW role \in {"user", "assistant"},
           NEW by \in Messages, NEW clock \in Clocks, NEW keep \in Int, keep >= MaxShortTerm,
           NEW new, new = Recorded(mem, s, role, by, clock, keep)
    PROVE  Grown(mem, new)
<1>1. PICK row \in Row : new.said = [mem.said EXCEPT ![s] = Append(@, row)]
  <2>1. OneRowMore(mem, new, s, role, by)
    BY RecordedHeld
  <2> QED BY <2>1 DEF OneRowMore
<1>2. Held(new) /\ new.id = mem.id + 1 /\ mem.id \in Nat /\ mem.said \in [Sessions -> Seq(Row)]
  BY RecordedHeld DEF Held
<1>3. ASSUME NEW t \in Sessions, NEW i \in DOMAIN mem.said[t]
      PROVE  i \in DOMAIN new.said[t] /\ new.said[t][i] = mem.said[t][i]
  <2>1. mem.said[t] \in Seq(Row)
    BY <1>2
  <2>2. new.said[t] = IF t = s THEN Append(mem.said[t], row) ELSE mem.said[t]
    BY <1>1, <1>2
  <2> QED BY <2>1, <2>2
<1> QED
  BY <1>2, <1>3 DEF Grown, SaidOn

(* What grows twice has grown.                                             *)
LEMMA GrownTwice ==
    ASSUME NEW a, NEW b, NEW c, Grown(a, b), Grown(b, c), a.id \in Nat
    PROVE  Grown(a, c)
<1>1. a.id <= c.id
  BY DEF Grown, Held
<1> QED
  BY <1>1 DEF Grown, SaidOn

(* The rows a message and its reply leave.                                 *)
LEMMA SavedGrows ==
    ASSUME MInv, NEW m \in Messages, NEW clock \in Clocks, NEW keep \in Int, keep >= MaxShortTerm
    PROVE  /\ Grown(Memory, UserSaved(m, clock, keep))
           /\ Grown(Memory, AnswerSaved(Memory, m, clock, keep))
           /\ Grown(Memory, BothSaved(m, clock, keep))
<1>1. PICK mem : mem = Memory
  OBVIOUS
<1>2. Held(mem) /\ mem.id \in Nat
  BY <1>1, Zenon DEF MInv, Held
<1>3. MaxShortTerm \in Int /\ MaxShortTerm >= MaxShortTerm
  BY MemoryAssumption
<1>4. SessionFor(m) \in Sessions
  BY SessionKnown
<1>5. PICK s \in Sessions : s = SessionFor(m)
  BY <1>4
<1>6. PICK u : u = Recorded(mem, s, "user", m, clock, keep)
  OBVIOUS
<1>7. PICK a : a = Recorded(mem, s, "assistant", m, clock, keep)
  OBVIOUS
<1>8. PICK v : v = Recorded(mem, s, "user", m, clock, MaxShortTerm)
  OBVIOUS
<1>9. PICK b : b = Recorded(v, s, "assistant", m, clock, keep)
  OBVIOUS
<1>10. Grown(mem, u)
  BY <1>2, <1>6, RecordedGrows
<1>11. Grown(mem, a)
  BY <1>2, <1>7, RecordedGrows
<1>12. Grown(mem, v) /\ Held(v)
  BY <1>2, <1>3, <1>8, RecordedGrows DEF Grown
<1>13. Grown(v, b)
  BY <1>9, <1>12, RecordedGrows
<1>14. Grown(mem, b)
  BY <1>2, <1>12, <1>13, GrownTwice
<1>15. u = UserSaved(m, clock, keep)
  BY <1>1, <1>5, <1>6, Zenon DEF UserSaved
<1>16. a = AnswerSaved(Memory, m, clock, keep)
  BY <1>1, <1>5, <1>7, Zenon DEF AnswerSaved
<1>17. b = BothSaved(m, clock, keep)
  BY <1>1, <1>5, <1>8, <1>9, Zenon DEF BothSaved, AnswerSaved, UserSaved
<1> QED
  BY <1>1, <1>10, <1>11, <1>14, <1>15, <1>16, <1>17, Zenon

(* A step that stores what has grown keeps the store well.                 *)
LEMMA RemembersGrows ==
    ASSUME MInv, NEW mem, Grown(Memory, mem), Remembers(mem)
    PROVE  Grows
<1>1. memories' = mem.rows /\ rowid' = mem.id /\ said' = mem.said
  BY DEF Remembers
<1>2. /\ Memory'.rows = mem.rows /\ Memory'.id = mem.id /\ Memory'.said = mem.said
      /\ Memory.id = rowid
  BY <1>1 DEF Memory
<1>3. PICK new : new = Memory'
  OBVIOUS
<1>4. Held(new)
  <2>1. new.rows = mem.rows /\ new.id = mem.id /\ new.said = mem.said
    BY <1>2, <1>3
  <2> QED BY <2>1, Zenon DEF Grown, Held, HeldFrom, SaidWell
<1>5. Held(Memory)'
  BY <1>3, <1>4, Zenon
<1>6. SaidOn(Memory, Memory')
  BY <1>2, Zenon DEF Grown, SaidOn
<1>7. rowid <= rowid'
  BY <1>1, <1>2 DEF Grown
<1> QED
  BY <1>5, <1>6, <1>7 DEF Grows, MInv

(* So does a step that leaves the rows alone.                              *)
LEMMA NothingGrows ==
    ASSUME MInv, UNCHANGED <<memories, said>>, rowid' \in Nat, rowid <= rowid'
    PROVE  Grows
<1>1. Memory.rows = Memory'.rows /\ Memory.said = Memory'.said /\ Memory.id = rowid /\ Memory'.id = rowid'
  BY DEF Memory
<1>2. PICK old, new : old = Memory /\ new = Memory'
  OBVIOUS
<1>3. Held(old) /\ old.rows = new.rows /\ old.said = new.said /\ old.id <= new.id /\ new.id \in Nat
  BY <1>1, <1>2 DEF MInv
<1>4. ASSUME NEW s \in Sessions
      PROVE  SaidWell(new, s) /\ \E k \in Nat : HeldFrom(new, s, k)
  <2>1. old.said[s] \in Seq(Row) /\ old.id \in Nat
    BY <1>3 DEF Held
  <2>2. \A i \in DOMAIN old.said[s] : old.said[s][i].id \in Nat
    <3>1. \A i \in DOMAIN old.said[s] : old.said[s][i] \in Row
      BY <2>1
    <3> QED BY <3>1 DEF Row
  <2>3. \A i \in DOMAIN old.said[s] : old.said[s][i].session = s /\ old.said[s][i].id <= old.id
    BY <1>3 DEF Held, SaidWell
  <2>4. \A i \in DOMAIN old.said[s] : old.said[s][i].id <= new.id
    BY <1>3, <2>1, <2>2, <2>3
  <2>5. SaidWell(new, s)
    BY <1>3, <2>3, <2>4 DEF Held, SaidWell
  <2>6. \E k \in Nat : HeldFrom(new, s, k)
    BY <1>3, Zenon DEF Held, HeldFrom
  <2> QED BY <2>5, <2>6
<1>5. Held(new)
  BY <1>3, <1>4 DEF Held
<1>6. MInv'
  BY <1>2, <1>5, Zenon DEF MInv
<1>7. SaidOn(Memory, Memory')
  BY <1>1 DEF SaidOn
<1> QED
  BY <1>6, <1>7 DEF Grows

(* So does a step that stores the rows of a message, of a reply or both.   *)
LEMMA SavingGrows ==
    ASSUME MInv, NEW m \in Messages, NEW clock \in Clocks, NEW keep \in Int, keep >= MaxShortTerm
    PROVE  /\ Remembers(Memory) => Grows
           /\ Remembers(UserSaved(m, clock, keep)) => Grows
           /\ Remembers(AnswerSaved(Memory, m, clock, keep)) => Grows
           /\ Remembers(BothSaved(m, clock, keep)) => Grows
<1>1. PICK u, a, b : /\ u = UserSaved(m, clock, keep) /\ a = AnswerSaved(Memory, m, clock, keep)
                     /\ b = BothSaved(m, clock, keep)
  OBVIOUS
<1>2. Grown(Memory, u) /\ Grown(Memory, a) /\ Grown(Memory, b)
  BY <1>1, SavedGrows
<1>3. Remembers(u) => Grows
  BY <1>2, RemembersGrows
<1>4. Remembers(a) => Grows
  BY <1>2, RemembersGrows
<1>5. Remembers(b) => Grows
  BY <1>2, RemembersGrows
<1>6. Remembers(Memory) => Grows
  <2> SUFFICES ASSUME Remembers(Memory) PROVE Grows
    OBVIOUS
  <2>1. memories' = memories /\ rowid' = rowid /\ said' = said
    BY DEF Remembers, Memory
  <2>2. rowid \in Nat
    BY DEF MInv, Held, Memory
  <2> QED BY <2>1, <2>2, NothingGrows
<1> QED
  BY <1>1, <1>3, <1>4, <1>5, <1>6, Zenon


(* So does an error that escapes, whatever had been saved by then.         *)
LEMMA EscapesGrows ==
    ASSUME MInv, NEW m \in Messages, NEW t, NEW after, Escapes(m, t, after)
    PROVE  Grows
<1>1. PICK clock \in Clocks, keep \in Keeps :
         \/ Remembers(Memory)
         \/ Remembers(UserSaved(m, clock, keep))
         \/ Remembers(BothSaved(m, clock, keep))
  BY DEF Escapes
<1>2. keep \in Int /\ keep >= MaxShortTerm
  BY MemoryAssumption DEF Keeps
<1> QED
  BY <1>1, <1>2, SavingGrows

(* A write to the durable rows takes at most one number.                   *)
LEMMA PromoteNumbers ==
    ASSUME rowid \in Nat, NEW c, NEW fails, Promote(c, fails)
    PROVE  rowid' \in Nat /\ rowid <= rowid'
<1>1. rowid' = rowid \/ rowid' = rowid + 1
  BY DEF Promote
<1> QED
  BY <1>1

(* Every step keeps the store well and adds to what was said.              *)
LEMMA MemoryStep ==
    ASSUME MInv, [Next]_vars
    PROVE  Grows
<1>0. rowid \in Nat /\ MaxShortTerm \in Int /\ MaxShortTerm >= MaxShortTerm
  BY MemoryAssumption DEF MInv, Held, Memory
<1>1. ASSUME UNCHANGED memoryVars
      PROVE  Grows
  <2>1. UNCHANGED <<memories, said>> /\ rowid' \in Nat /\ rowid <= rowid'
    BY <1>0, <1>1 DEF memoryVars
  <2> QED BY <2>1, NothingGrows
<1>2. ASSUME NEW m \in Messages, MessageCreate(m) \/ TypingShown(m) \/ NoAnswer(m) \/ Deliver(m) \/ Over(m)
      PROVE  Grows
  <2>1. UNCHANGED memoryVars
    BY <1>2, Zenon DEF MessageCreate, TypingShown, NoAnswer, Deliver, Over, memoryVars
  <2> QED BY <1>1, <2>1
<1>3. ASSUME NEW m \in Messages, HandleFails(m)
      PROVE  Grows
  <2>1. PICK t, after : Escapes(m, t, after)
    BY <1>3, Zenon DEF HandleFails
  <2> QED BY <2>1, EscapesGrows
<1>4. ASSUME NEW m \in Messages, HandleLocal(m) \/ HandleRegister(m)
      PROVE  Grows
  <2>1. PICK clock \in Clocks : Remembers(BothSaved(m, clock, MaxShortTerm))
    BY <1>4, Zenon DEF HandleLocal, HandleRegister
  <2> QED BY <1>0, <2>1, SavingGrows
<1>5. ASSUME NEW m \in Messages, HandleRemember(m)
      PROVE  Grows
  <2>1. \/ \E clock \in Clocks : Remembers(BothSaved(m, clock, MaxShortTerm))
        \/ \E t, after : Escapes(m, t, after)
    BY <1>5, Zenon DEF HandleRemember
  <2>2. ASSUME NEW clock \in Clocks, Remembers(BothSaved(m, clock, MaxShortTerm))
        PROVE  Grows
    BY <1>0, <2>2, SavingGrows
  <2> QED BY <2>1, <2>2, EscapesGrows
<1>6. ASSUME NEW m \in Messages, HandleWork(m)
      PROVE  Grows
  <2>1. PICK clock \in Clocks : Remembers(UserSaved(m, clock, MaxShortTerm))
    BY <1>6, Zenon DEF HandleWork
  <2> QED BY <1>0, <2>1, SavingGrows
<1>7. ASSUME NEW m \in Messages, Answer(m)
      PROVE  Grows
  <2>1. PICK clock \in Clocks, keep \in Keeps :
           \/ Remembers(AnswerSaved(Memory, m, clock, MaxShortTerm))
           \/ Remembers(AnswerSaved(Memory, m, clock, keep))
           \/ Remembers(Memory)
    BY <1>7, Zenon DEF Answer
  <2>2. keep \in Int /\ keep >= MaxShortTerm
    BY MemoryAssumption DEF Keeps
  <2> QED BY <1>0, <2>1, <2>2, SavingGrows
<1>8. ASSUME NEW ch \in Channels, Tick(ch)
      PROVE  Grows
  <2>1. UNCHANGED memoryVars
    BY <1>8 DEF Tick
  <2> QED BY <1>1, <2>1
<1>9. ASSUME MemoryWrites
      PROVE  Grows
  <2>1. \/ \E c, fails : Write(c, fails)
        \/ \E id, scope : Forget(id, scope)
    BY <1>9, Zenon DEF MemoryWrites
  <2>2. ASSUME NEW c, NEW fails, Write(c, fails)
        PROVE  Grows
    <3>1. UNCHANGED <<memories, said>> /\ Promote(c, fails)
      BY <2>2 DEF Write
    <3>2. rowid' \in Nat /\ rowid <= rowid'
      BY <1>0, <3>1, PromoteNumbers
    <3> QED BY <3>1, <3>2, NothingGrows
  <2>3. ASSUME NEW id, NEW scope, Forget(id, scope)
        PROVE  Grows
    <3>1. UNCHANGED <<memories, said>> /\ rowid' \in Nat /\ rowid <= rowid'
      BY <1>0, <2>3 DEF Forget
    <3> QED BY <3>1, NothingGrows
  <2> QED BY <2>1, <2>2, <2>3
<1>10. CASE UNCHANGED vars
  BY <1>1, <1>10 DEF vars
<1> QED
  BY <1>2, <1>3, <1>4, <1>5, <1>6, <1>7, <1>8, <1>9, <1>10, Zenon DEF Next, Handle

(* At the start nothing has been said.                                     *)
LEMMA MemoryStart == Init => MInv
<1> SUFFICES ASSUME Init PROVE MInv
  OBVIOUS
<1>1. memories = {} /\ rowid = 0 /\ said = [s \in Sessions |-> << >>]
  BY DEF Init, MemoryInit
<1>2. PICK mem : mem = Memory
  OBVIOUS
<1>3. mem.rows = {} /\ mem.id = 0 /\ mem.said = [s \in Sessions |-> << >>]
  BY <1>1, <1>2 DEF Memory
<1>4. ASSUME NEW s \in Sessions
      PROVE  SaidWell(mem, s) /\ \E k \in Nat : HeldFrom(mem, s, k)
  <2>1. mem.said[s] = << >> /\ << >> \in Seq(Row) /\ Len(<< >>) = 0 /\ DOMAIN << >> = {}
    BY <1>3
  <2>2. SaidWell(mem, s)
    BY <2>1 DEF SaidWell, Rising
  <2>3. From(<< >>, 0) = << >>
    BY DEF From
  <2>4. {r \in mem.rows : r.session = s} = ToSet(<< >>)
    BY <1>3 DEF ToSet
  <2>5. Enough(0) = 0
    BY MemoryAssumption DEF Enough
  <2>6. HeldFrom(mem, s, 0)
    BY <2>1, <2>3, <2>4, <2>5 DEF HeldFrom
  <2> QED BY <2>2, <2>6
<1>5. mem.said \in [Sessions -> Seq(Row)]
  BY <1>3
<1>6. Held(mem)
  BY <1>3, <1>4, <1>5 DEF Held
<1> QED
  BY <1>2, <1>6, Zenon DEF MInv

(* A last part is a suffix.                                                *)
LEMMA LastIsSuffix ==
    ASSUME NEW S, NEW q \in Seq(S), NEW k \in 0..Len(q)
    PROVE  IsSuffix(From(q, k), q)
<1> DEFINE part == From(q, k)
           n == Len(q) - k
           a == Reverse(part)
           b == Reverse(q)
<1>1. Len(q) \in Nat /\ n \in Nat /\ n <= Len(q) /\ k \in Nat
  OBVIOUS
<1>2. part \in Seq(S) /\ Len(part) = n /\ \A i \in 1..n : part[i] = q[k + i]
  BY FromProperties
<1> HIDE DEF part
<1>3. a = [i \in 1..n |-> part[n - i + 1]] /\ b = [i \in 1..Len(q) |-> q[Len(q) - i + 1]]
  BY <1>2 DEF Reverse
<1>4. \A i \in 1..n : a[i] = b[i]
  <2> TAKE i \in 1..n
  <2>1. n - i + 1 \in 1..n /\ k + (n - i + 1) = Len(q) - i + 1 /\ i \in 1..Len(q)
    BY <1>1
  <2> HIDE DEF n, a, b
  <2> QED BY <1>2, <1>3, <2>1
<1>5. a \in Seq(S) /\ Len(a) = n
  <2>1. \A i \in 1..n : part[n - i + 1] \in S
    <3>1. \A i \in 1..n : n - i + 1 \in 1..n
      BY <1>1
    <3> QED BY <1>2, <3>1
  <2> HIDE DEF n
  <2> QED BY <1>1, <1>3, <2>1
<1>6. b \in Seq(S) /\ Len(b) = Len(q)
  <2>1. \A i \in 1..Len(q) : q[Len(q) - i + 1] \in S
    <3>1. \A i \in 1..Len(q) : Len(q) - i + 1 \in 1..Len(q)
      BY <1>1
    <3> QED BY <3>1
  <2> QED BY <1>1, <1>3, <2>1
<1> HIDE DEF a, b, n
<1>7. \A i \in 1..n : a[i] \in S /\ b[i] \in S
  BY <1>1, <1>4, <1>5
<1>8. 1 \in Int /\ n \in Int
  BY <1>1
<1>9. /\ SubSeq(a, 1, n) \in Seq(S) /\ Len(SubSeq(a, 1, n)) = IF 1 <= n THEN n - 1 + 1 ELSE 0
      /\ \A i \in 1..(n - 1 + 1) : SubSeq(a, 1, n)[i] = a[1 + i - 1]
  BY <1>7, <1>8, SubSeqProperties
<1>10. /\ SubSeq(b, 1, n) \in Seq(S) /\ Len(SubSeq(b, 1, n)) = IF 1 <= n THEN n - 1 + 1 ELSE 0
       /\ \A i \in 1..(n - 1 + 1) : SubSeq(b, 1, n)[i] = b[1 + i - 1]
  BY <1>7, <1>8, SubSeqProperties
<1>11. \A i \in 1..Len(SubSeq(a, 1, n)) : SubSeq(a, 1, n)[i] = SubSeq(b, 1, n)[i]
  <2> TAKE i \in 1..Len(SubSeq(a, 1, n))
  <2>1. i \in 1..n /\ i \in 1..(n - 1 + 1) /\ 1 + i - 1 = i
    BY <1>1, <1>9
  <2> QED BY <1>4, <1>9, <1>10, <2>1
<1>12. SubSeq(a, 1, n) = SubSeq(b, 1, n)
  BY <1>9, <1>10, <1>11, SeqEqual
<1> QED
  BY <1>1, <1>5, <1>6, <1>12 DEF IsSuffix, IsPrefix, a, b, part

(* What the store holds is the end of what was said.                       *)
LEMMA HeldIsNewest == MInv => NewestInOrder
<1> SUFFICES ASSUME MInv, NEW s \in Sessions
             PROVE  LET rows == FindByScope(memories, s)
                    IN  /\ IsSuffix(rows, said[s])
                        /\ Len(rows) >= Min({MaxShortTerm, Len(said[s])})
  BY DEF NewestInOrder
<1>1. PICK mem : mem = Memory
  OBVIOUS
<1>2. Held(mem) /\ mem.rows = memories /\ mem.said = said
  BY <1>1 DEF MInv, Memory
<1>3. PICK k \in Nat : HeldFrom(mem, s, k)
  BY <1>2 DEF Held
<1>4. said[s] \in Seq(Row) /\ Len(said[s]) \in Nat /\ k \in 0..Len(said[s])
      /\ Len(said[s]) - k >= Enough(Len(said[s]))
  BY <1>2, <1>3 DEF Held, HeldFrom
<1>5. FindByScope(memories, s) = From(said[s], k)
  <2>1. FindByScope(mem.rows, s) = From(mem.said[s], k)
    BY <1>2, <1>3, RowsFound
  <2> QED BY <1>2, <2>1
<1>6. Len(From(said[s], k)) = Len(said[s]) - k
  BY <1>4, FromProperties
<1>7. Enough(Len(said[s])) = Min({MaxShortTerm, Len(said[s])})
  <2>1. MaxShortTerm \in Int /\ Len(said[s]) \in Int
    BY <1>4, MemoryAssumption
  <2> QED BY <2>1, OfTwo DEF Enough
<1>8. IsSuffix(From(said[s], k), said[s])
  BY <1>4, LastIsSuffix
<1> QED
  BY <1>4, <1>5, <1>6, <1>7, <1>8

(* The store holds the newest part of all that was said, in the order it   *)
(* was said and with unique ids: MemoryManager.saveShortTerm, whatever the *)
(* clock shows, wherever the pruning stops and however the turns           *)
(* interleave, for any limit.                                              *)
THEOREM MemoryHolds == Spec => []MInv
<1>1. MInv /\ [Next]_vars => MInv'
  BY MemoryStep DEF Grows
<1> QED
  BY <1>1, MemoryStart, PTL DEF Spec

(* Spec => []NewestInOrder: what findByScope returns is a suffix of the    *)
(* conversation, no shorter than the limit allows.                         *)
THEOREM NewestAlwaysInOrder == Spec => []NewestInOrder
  BY MemoryHolds, HeldIsNewest, PTL


-----------------------------------------------------------------------------
(* The durable rows.                                                       *)

DurableRow(r) ==
    /\ r = [id |-> r.id, session |-> r.session, actor |-> r.actor, fact |-> r.fact,
            supersedes |-> r.supersedes, supersededBy |-> r.supersededBy]
    /\ r.id \in Nat \ {0}

DurableWell == IsFiniteSet(durable) /\ \A r \in durable : DurableRow(r)

(* Marking a row as superseded leaves it a row.                            *)
LEMMA Marked ==
    ASSUME NEW r, DurableRow(r), NEW n
    PROVE  DurableRow([r EXCEPT !.supersededBy = n])
<1>1. PICK id, session, actor, fact, supersedes, by :
         r = [id |-> id, session |-> session, actor |-> actor, fact |-> fact,
              supersedes |-> supersedes, supersededBy |-> by]
  BY DEF DurableRow
<1>2. [r EXCEPT !.supersededBy = n] =
         [id |-> id, session |-> session, actor |-> actor, fact |-> fact,
          supersedes |-> supersedes, supersededBy |-> n]
  BY <1>1
<1>3. r.id = id
  BY <1>1
<1> QED
  BY <1>2, <1>3 DEF DurableRow

(* A write keeps the rows well, and one that supersedes nothing keeps them *)
(* all: no row has the number 0.                                           *)
LEMMA WrittenWell ==
    ASSUME DurableWell, rowid \in Nat, NEW c, NEW fails
    PROVE  /\ IsFiniteSet(Written(c, fails)) /\ \A r \in Written(c, fails) : DurableRow(r)
           /\ c.supersedes = NoRow => durable \subseteq Written(c, fails)
           /\ c.supersedes = NoRow /\ fails = "none" => NewVersion(c) \in Written(c, fails)
<1> DEFINE with == durable \cup {NewVersion(c)}
           mark(r) == IF r.id = c.supersedes THEN [r EXCEPT !.supersededBy = rowid + 1] ELSE r
           marked == {mark(r) : r \in with}
<1>1. IsFiniteSet(with)
  BY FS_AddElement DEF DurableWell
<1>2. DurableRow(NewVersion(c))
  <2>1. rowid + 1 \in Nat \ {0}
    OBVIOUS
  <2> QED BY <2>1 DEF NewVersion, DurableRow
<1>3. \A r \in with : DurableRow(r)
  BY <1>2 DEF DurableWell
<1> HIDE DEF with
<1>4. IsFiniteSet(marked)
  <2> DEFINE f == [r \in with |-> mark(r)]
  <2>1. f \in Surjection(with, marked)
    BY DEF Surjection
  <2> HIDE DEF f, marked
  <2> QED BY <1>1, <2>1, FS_Surjection
<1>5. \A r \in marked : DurableRow(r)
  <2> SUFFICES ASSUME NEW r \in with PROVE DurableRow(mark(r))
    OBVIOUS
  <2> QED BY <1>3, Marked
<1>6. c.supersedes = NoRow => with \subseteq marked
  <2> SUFFICES ASSUME c.supersedes = NoRow, NEW r \in with PROVE r \in marked
    OBVIOUS
  <2>1. r.id \in Nat \ {0}
    BY <1>3 DEF DurableRow
  <2>2. mark(r) = r
    BY <2>1 DEF NoRow
  <2>3. mark(r) \in marked
    OBVIOUS
  <2> QED BY <2>2, <2>3
<1>7. Written(c, fails) = CASE fails \in {"save", "mark"} -> durable
                            [] fails = "rollback" -> with
                            [] OTHER -> marked
  BY DEF Written, with
<1> HIDE DEF marked
<1>8. durable \subseteq with /\ NewVersion(c) \in with
  BY DEF with
<1>9. CASE fails \in {"save", "mark"}
  <2>1. Written(c, fails) = durable /\ fails # "none"
    BY <1>7, <1>9
  <2> QED BY <2>1 DEF DurableWell
<1>10. CASE fails = "rollback"
  <2>1. Written(c, fails) = with /\ fails # "none"
    BY <1>7, <1>10
  <2> QED BY <1>1, <1>3, <1>8, <2>1
<1>11. CASE fails \notin {"save", "mark", "rollback"}
  <2>1. Written(c, fails) = marked
    BY <1>7, <1>11
  <2> QED BY <1>4, <1>5, <1>6, <1>8, <2>1
<1> QED
  BY <1>9, <1>10, <1>11

(* Every step keeps the durable rows well, and once a message has come no  *)
(* row of them is changed.                                                 *)
LEMMA DurableStep ==
    ASSUME MInv, DurableWell, [Next]_vars
    PROVE  /\ DurableWell'
           /\ durable \subseteq durable' \/ MemoryWrites
<1>0. rowid \in Nat
  BY DEF MInv, Held, Memory
<1>1. CASE UNCHANGED durable
  BY <1>1 DEF DurableWell
<1>2. ASSUME NEW m \in Messages, HandleRemember(m)
      PROVE  DurableWell' /\ durable \subseteq durable'
  <2>1. PICK fails \in {"none", "save"} :
           durable' = IF Decision(CandidateOf(m)) = "PROMOTED" THEN Written(CandidateOf(m), fails) ELSE durable
    BY <1>2, Zenon DEF HandleRemember
  <2>2. PICK c : c = CandidateOf(m)
    OBVIOUS
  <2>3. c.supersedes = NoRow
    BY <2>2 DEF CandidateOf
  <2>4. /\ IsFiniteSet(Written(c, fails)) /\ \A r \in Written(c, fails) : DurableRow(r)
        /\ durable \subseteq Written(c, fails)
    BY <1>0, <2>3, WrittenWell
  <2>5. durable' = durable \/ durable' = Written(c, fails)
    BY <2>1, <2>2
  <2>6. CASE durable' = Written(c, fails)
    BY <2>4, <2>6 DEF DurableWell
  <2> QED BY <1>1, <2>5, <2>6
<1>3. ASSUME MemoryWrites
      PROVE  DurableWell'
  <2>1. \/ \E c, fails : Promote(c, fails)
        \/ \E id, scope : Forget(id, scope)
    BY <1>3, Zenon DEF MemoryWrites, Write
  <2>2. ASSUME NEW c, NEW fails, Promote(c, fails)
        PROVE  DurableWell'
    <3>1. durable' = durable \/ durable' = Written(c, fails)
      BY <2>2, Zenon DEF Promote
    <3>2. IsFiniteSet(Written(c, fails)) /\ \A r \in Written(c, fails) : DurableRow(r)
      BY <1>0, WrittenWell
    <3>3. CASE durable' = Written(c, fails)
      BY <3>2, <3>3 DEF DurableWell
    <3> QED BY <1>1, <3>1, <3>3
  <2>3. ASSUME NEW id, NEW scope, Forget(id, scope)
        PROVE  DurableWell'
    <3>1. durable' \in SUBSET durable
      BY <2>3 DEF Forget
    <3>2. IsFiniteSet(durable')
      BY <3>1, FS_Subset DEF DurableWell
    <3> QED BY <3>1, <3>2 DEF DurableWell
  <2> QED BY <2>1, <2>2, <2>3
<1>4. ASSUME NEW m \in Messages, HandleFails(m) \/ HandleLocal(m) \/ HandleRegister(m)
      PROVE  UNCHANGED durable
  BY <1>4, Zenon DEF HandleFails, HandleLocal, HandleRegister
<1>5. ASSUME NEW m \in Messages, HandleWork(m) \/ Answer(m)
      PROVE  UNCHANGED durable
  <2>1. UNCHANGED <<durable, projects>>
    BY <1>5, Zenon DEF HandleWork, Answer
  <2> QED BY <2>1
<1>6. ASSUME NEW m \in Messages, MessageCreate(m) \/ TypingShown(m) \/ NoAnswer(m) \/ Deliver(m) \/ Over(m)
      PROVE  UNCHANGED durable
  <2>1. UNCHANGED memoryVars
    BY <1>6, Zenon DEF MessageCreate, TypingShown, NoAnswer, Deliver, Over, memoryVars
  <2> QED BY <2>1 DEF memoryVars
<1>7. ASSUME NEW ch \in Channels, Tick(ch)
      PROVE  UNCHANGED durable
  BY <1>7 DEF Tick, memoryVars
<1>8. CASE UNCHANGED vars
  BY <1>1, <1>8 DEF vars, memoryVars
<1> QED
  BY <1>1, <1>2, <1>3, <1>4, <1>5, <1>6, <1>7, <1>8, Zenon DEF Next, Handle


-----------------------------------------------------------------------------
(* Turns.                                                                  *)

Shape(t) ==
    t = [at |-> t.at, asks |-> t.asks, context |-> t.context, before |-> t.before,
         run |-> t.run, task |-> t.task, outcome |-> t.outcome]

(* What a turn has before it returns.                                      *)
Staged(t) ==
    /\ t.at \in {"unsent", "typing", "handling", "over"} =>
          t.outcome = None /\ t.task = None /\ t.context = None
    /\ t.at = "answering" => t.outcome = None /\ t.task = "RUNNING"

TurnsWell ==
    /\ turns = [m \in Messages |-> turns[m]]
    /\ \A m \in Messages : Shape(turns[m]) /\ Staged(turns[m])

(* What a reply says of the records, for one message.                      *)
TruthOf(t, m, told, facts) ==
    /\ t.outcome = "answer" <=> t.task = "COMPLETED"
    /\ t.outcome = "answer" =>
          t.run = "SUCCEEDED" /\ \E i \in DOMAIN told[SessionFor(m)] :
              told[SessionFor(m)][i].by = m /\ told[SessionFor(m)][i].role = "assistant"
    /\ t.outcome \in {"error", "terminal"} =>
          t.run = "FAILED" /\ t.task \in {"FAILED", "NEEDS_REVIEW"}
    /\ t.outcome = "stored" =>
          \E r \in facts : r.fact = t.asks.fact /\ r.actor = AuthorOf[m] /\ r.session = SessionFor(m)

TruthIs == \A m \in Messages : TruthOf(turns[m], m, said, durable)

(* It is what the run checks.                                              *)
LEMMA TruthIsTrueReplies == TruthIs <=> TrueReplies
  BY Zenon DEF TruthIs, TruthOf, TrueReplies

(* Nothing is said before a turn returns.                                  *)
LEMMA NothingSaidYet ==
    ASSUME NEW t, NEW m, NEW told, NEW facts, t.outcome = None, t.task = None \/ t.task = "RUNNING"
    PROVE  TruthOf(t, m, told, facts)
<1>1. None \notin {"answer", "error", "terminal", "stored", "COMPLETED"}
  BY TurnAssumption
<1> QED
  BY <1>1 DEF TruthOf

(* What was true stays true when more is said and more is stored.          *)
LEMMA TruthStays ==
    ASSUME NEW m \in Messages, TruthOf(turns[m], m, said, durable), turns'[m] = turns[m],
           SaidOn(Memory, Memory'), durable \subseteq durable'
    PROVE  TruthOf(turns'[m], m, said', durable')
<1>1. \A i \in DOMAIN said[SessionFor(m)] :
         i \in DOMAIN said'[SessionFor(m)] /\ said'[SessionFor(m)][i] = said[SessionFor(m)][i]
  BY SessionKnown DEF SaidOn, Memory
<1> QED
  BY <1>1 DEF TruthOf

(* A step that sets one turn.                                              *)
LEMMA OneTurn ==
    ASSUME TurnsWell, NEW m \in Messages, NEW t, Shape(t), Staged(t), Turns(m, t)
    PROVE  /\ TurnsWell' /\ turns'[m] = t
           /\ \A n \in Messages \ {m} : turns'[n] = turns[n]
<1>1. turns' = [turns EXCEPT ![m] = t] /\ DOMAIN turns = Messages
  BY DEF Turns, TurnsWell
<1>2. turns'[m] = t /\ \A n \in Messages \ {m} : turns'[n] = turns[n]
  BY <1>1
<1>3. turns' = [n \in Messages |-> turns'[n]]
  BY <1>1 DEF TurnsWell
<1>4. \A n \in Messages : Shape(turns'[n]) /\ Staged(turns'[n])
  <2> TAKE n \in Messages
  <2>1. CASE n = m
    BY <1>2, <2>1
  <2>2. CASE n # m
    BY <1>2, <2>2 DEF TurnsWell
  <2> QED BY <2>1, <2>2
<1> QED
  BY <1>2, <1>3, <1>4 DEF TurnsWell

(* The turn a return leaves.                                               *)
LEMMA Returned ==
    ASSUME TurnsWell, NEW m \in Messages, NEW t, Shape(t), NEW outcome, Returns(m, t, outcome)
    PROVE  /\ TurnsWell'
           /\ turns'[m] = [at |-> "replied", asks |-> t.asks, context |-> None, before |-> << >>,
                           run |-> t.run, task |-> t.task, outcome |-> outcome]
           /\ \A n \in Messages \ {m} : turns'[n] = turns[n]
<1> DEFINE r == [at |-> "replied", asks |-> t.asks, context |-> None, before |-> << >>,
                 run |-> t.run, task |-> t.task, outcome |-> outcome]
<1>1. PICK at, asks, context, before, run, task, was :
         t = [at |-> at, asks |-> asks, context |-> context, before |-> before,
              run |-> run, task |-> task, outcome |-> was]
  BY DEF Shape
<1>2. [t EXCEPT !.at = "replied", !.outcome = outcome, !.context = None, !.before = << >>] = r
  <2>1. t.asks = asks /\ t.run = run /\ t.task = task
    BY <1>1
  <2> DEFINE e == [t EXCEPT !.at = "replied", !.outcome = outcome, !.context = None, !.before = << >>]
             F == {"at", "asks", "context", "before", "run", "task", "outcome"}
  <2>2. DOMAIN t = F
    BY <1>1
  <2>3. e = [f \in F |-> e[f]]
    BY <2>2
  <2>4. /\ e["at"] = "replied" /\ e["outcome"] = outcome /\ e["context"] = None /\ e["before"] = << >>
        /\ e["asks"] = t["asks"] /\ e["run"] = t["run"] /\ e["task"] = t["task"]
    BY <2>2
  <2> HIDE DEF e
  <2>5. e = r
    BY <2>3, <2>4
  <2> QED BY <2>5 DEF e
<1>3. Turns(m, r)
  BY <1>2 DEF Returns
<1>4. Shape(r) /\ Staged(r)
  BY DEF Shape, Staged
<1> HIDE DEF r
<1>5. TurnsWell' /\ turns'[m] = r /\ \A n \in Messages \ {m} : turns'[n] = turns[n]
  BY <1>3, <1>4, OneTurn
<1> QED
  BY <1>5 DEF r


Fields == {"at", "asks", "context", "before", "run", "task", "outcome"}

(* A record with the fields of a turn is a turn, and the other way round.  *)
LEMMA Shaped ==
    ASSUME NEW t
    PROVE  Shape(t) <=> t = [f \in Fields |-> t[f]]
<1>1. ASSUME Shape(t) PROVE t = [f \in Fields |-> t[f]]
  <2>1. PICK at, asks, context, before, run, task, was :
           t = [at |-> at, asks |-> asks, context |-> context, before |-> before,
                run |-> run, task |-> task, outcome |-> was]
    BY <1>1 DEF Shape
  <2> QED BY <2>1 DEF Fields
<1>2. ASSUME t = [f \in Fields |-> t[f]] PROVE Shape(t)
  <2>1. PICK u : u = t
    OBVIOUS
  <2>2. u = [f \in Fields |-> u[f]]
    BY <1>2, <2>1, Zenon
  <2>3. Shape(u)
    BY <2>2 DEF Shape, Fields
  <2> QED BY <2>1, <2>3, Zenon
<1> QED
  BY <1>1, <1>2

(* A step that sets one turn to one of which its reply is true keeps all   *)
(* replies true.                                                           *)
LEMMA OneTruth ==
    ASSUME TruthIs, NEW m \in Messages, SaidOn(Memory, Memory'), durable \subseteq durable',
           \A n \in Messages \ {m} : turns'[n] = turns[n],
           TruthOf(turns'[m], m, said', durable')
    PROVE  TruthIs'
<1>1. ASSUME NEW n \in Messages \ {m}
      PROVE  TruthOf(turns'[n], n, said', durable')
  BY <1>1, TruthStays DEF TruthIs
<1> QED
  BY <1>1, Zenon DEF TruthIs

(* So it is with a step that returns a reply.                              *)
LEMMA ReturnsTrue ==
    ASSUME TurnsWell, TruthIs, SaidOn(Memory, Memory'), durable \subseteq durable',
           NEW m \in Messages, NEW t, Shape(t), NEW outcome, Returns(m, t, outcome),
           TruthOf([at |-> "replied", asks |-> t.asks, context |-> None, before |-> << >>,
                    run |-> t.run, task |-> t.task, outcome |-> outcome], m, said', durable')
    PROVE  TurnsWell' /\ TruthIs'
<1>1. /\ TurnsWell'
      /\ turns'[m] = [at |-> "replied", asks |-> t.asks, context |-> None, before |-> << >>,
                      run |-> t.run, task |-> t.task, outcome |-> outcome]
      /\ \A n \in Messages \ {m} : turns'[n] = turns[n]
  BY Returned
<1>2. TruthOf(turns'[m], m, said', durable')
  BY <1>1, Zenon
<1> QED
  BY <1>1, <1>2, OneTruth

(* A reply that claims nothing is true of a task that is not done.         *)
LEMMA ClaimsNothing ==
    ASSUME TurnsWell, TruthIs, SaidOn(Memory, Memory'), durable \subseteq durable',
           NEW m \in Messages, NEW t, Shape(t), t.task # "COMPLETED",
           NEW outcome \in {"sanitized", "local", "notStored"}, Returns(m, t, outcome)
    PROVE  TurnsWell' /\ TruthIs'
<1>1. TruthOf([at |-> "replied", asks |-> t.asks, context |-> None, before |-> << >>,
               run |-> t.run, task |-> t.task, outcome |-> outcome], m, said', durable')
  BY DEF TruthOf
<1> QED
  BY <1>1, ReturnsTrue

(* A failure told is a failure stored.                                     *)
LEMMA TellsFailure ==
    ASSUME TurnsWell, TruthIs, SaidOn(Memory, Memory'), durable \subseteq durable',
           NEW m \in Messages, NEW t, Shape(t), t.task \in {"FAILED", "NEEDS_REVIEW"}, t.run = "FAILED",
           NEW outcome \in {"error", "terminal"}, Returns(m, t, outcome)
    PROVE  TurnsWell' /\ TruthIs'
<1>1. TruthOf([at |-> "replied", asks |-> t.asks, context |-> None, before |-> << >>,
               run |-> t.run, task |-> t.task, outcome |-> outcome], m, said', durable')
  BY DEF TruthOf
<1> QED
  BY <1>1, ReturnsTrue

(* An error in the work, caught or not, is told in words that are true.    *)
LEMMA CaughtTrue ==
    ASSUME TurnsWell, TruthIs, SaidOn(Memory, Memory'), durable \subseteq durable',
           NEW m \in Messages, NEW t, Shape(t), t.task = "RUNNING", Caught(m, t)
    PROVE  TurnsWell' /\ TruthIs'
<1>0. t = [f \in Fields |-> t[f]]
  BY Shaped
<1>1. CASE Returns(m, [t EXCEPT !.run = "FAILED", !.task = "FAILED"], "error")
  <2> DEFINE e == [t EXCEPT !.run = "FAILED", !.task = "FAILED"]
  <2>1. e = [f \in Fields |-> e[f]] /\ e.run = "FAILED" /\ e.task = "FAILED"
    BY <1>0 DEF Fields
  <2>2. Returns(m, e, "error")
    BY <1>1
  <2> HIDE DEF e
  <2>3. Shape(e)
    BY <2>1, Shaped
  <2> QED BY <2>1, <2>2, <2>3, TellsFailure
<1>2. ASSUME NEW run, Returns(m, [t EXCEPT !.run = run], "sanitized")
      PROVE  TurnsWell' /\ TruthIs'
  <2> DEFINE e == [t EXCEPT !.run = run]
  <2>1. e = [f \in Fields |-> e[f]] /\ e.task = "RUNNING"
    BY <1>0 DEF Fields
  <2>2. Returns(m, e, "sanitized")
    BY <1>2
  <2> HIDE DEF e
  <2>3. Shape(e)
    BY <2>1, Shaped
  <2> QED BY <2>1, <2>2, <2>3, ClaimsNothing
<1> QED
  BY <1>1, <1>2, Zenon DEF Caught

(* A turn that goes on without a reply.                                    *)
LEMMA GoesOn ==
    ASSUME TurnsWell, TruthIs, SaidOn(Memory, Memory'), durable \subseteq durable',
           NEW m \in Messages, NEW t, Shape(t), Staged(t), Turns(m, t),
           t.at \in {"unsent", "typing", "handling", "answering", "over"}
    PROVE  TurnsWell' /\ TruthIs'
<1>1. TurnsWell' /\ turns'[m] = t /\ \A n \in Messages \ {m} : turns'[n] = turns[n]
  BY OneTurn
<1>2. t.outcome = None /\ (t.task = None \/ t.task = "RUNNING")
  BY DEF Staged
<1>3. TruthOf(turns'[m], m, said', durable')
  BY <1>1, <1>2, NothingSaidYet
<1> QED
  BY <1>1, <1>3, OneTruth


(* Once the answer is stored, the session remembers it.                    *)
LEMMA AnswerStored ==
    ASSUME MInv, NEW m \in Messages, NEW clock \in Clocks,
           Remembers(AnswerSaved(Memory, m, clock, MaxShortTerm))
    PROVE  \E i \in DOMAIN said'[SessionFor(m)] :
               said'[SessionFor(m)][i].by = m /\ said'[SessionFor(m)][i].role = "assistant"
<1>1. PICK mem : mem = Memory
  OBVIOUS
<1>2. Held(mem)
  BY <1>1, Zenon DEF MInv
<1>3. PICK s \in Sessions : s = SessionFor(m)
  BY SessionKnown
<1>4. MaxShortTerm \in Int /\ MaxShortTerm >= MaxShortTerm
  BY MemoryAssumption
<1>5. PICK new : new = Recorded(mem, s, "assistant", m, clock, MaxShortTerm)
  OBVIOUS
<1>6. OneRowMore(mem, new, s, "assistant", m)
  BY <1>2, <1>4, <1>5, RecordedHeld
<1>7. PICK row \in Row : /\ row.role = "assistant" /\ row.by = m
                         /\ new.said = [mem.said EXCEPT ![s] = Append(@, row)]
  BY <1>6 DEF OneRowMore
<1>8. new = AnswerSaved(Memory, m, clock, MaxShortTerm)
  BY <1>1, <1>3, <1>5, Zenon DEF AnswerSaved
<1>9. said' = new.said
  BY <1>8, Zenon DEF Remembers
<1>10. mem.said \in [Sessions -> Seq(Row)]
  BY <1>2 DEF Held
<1>11. said'[s] = Append(mem.said[s], row) /\ mem.said[s] \in Seq(Row)
  BY <1>7, <1>9, <1>10
<1>12. /\ Len(mem.said[s]) + 1 \in DOMAIN Append(mem.said[s], row)
       /\ Append(mem.said[s], row)[Len(mem.said[s]) + 1] = row
  BY <1>11
<1> QED
  BY <1>3, <1>7, <1>11, <1>12

(* Every step keeps the turns well and the replies true.                   *)
LEMMA TurnStep ==
    ASSUME MInv, DurableWell, TurnsWell, TruthIs, [Next]_vars
    PROVE  TurnsWell' /\ TruthIs'
<1>1. SaidOn(Memory, Memory') /\ (durable \subseteq durable' \/ MemoryWrites) /\ DurableWell'
  BY MemoryStep, DurableStep DEF Grows
<1>2. ASSUME UNCHANGED turns, durable \subseteq durable'
      PROVE  TurnsWell' /\ TruthIs'
  <2>1. TurnsWell'
    BY <1>2 DEF TurnsWell
  <2>2. ASSUME NEW n \in Messages PROVE TruthOf(turns'[n], n, said', durable')
    BY <1>1, <1>2, <2>2, TruthStays DEF TruthIs
  <2> QED BY <2>1, <2>2, Zenon DEF TruthIs
<1>3. ASSUME MemoryWrites
      PROVE  TurnsWell' /\ TruthIs'
  <2>1. UNCHANGED turns /\ \A n \in Messages : turns[n].at = "unsent"
    BY <1>3 DEF MemoryWrites
  <2>2. TurnsWell'
    BY <2>1 DEF TurnsWell
  <2>3. ASSUME NEW n \in Messages PROVE TruthOf(turns'[n], n, said', durable')
    <3>1. turns'[n].outcome = None /\ turns'[n].task = None
      BY <2>1 DEF TurnsWell, Staged
    <3> QED BY <3>1, NothingSaidYet
  <2> QED BY <2>2, <2>3, Zenon DEF TruthIs
<1>4. ASSUME NEW m \in Messages, durable \subseteq durable',
             \/ MessageCreate(m) \/ TypingShown(m) \/ HandleFails(m) \/ HandleLocal(m) \/ HandleRegister(m)
             \/ HandleRemember(m) \/ HandleWork(m) \/ Answer(m) \/ NoAnswer(m) \/ Deliver(m) \/ Over(m)
      PROVE  TurnsWell' /\ TruthIs'
  <2>1. Shape(turns[m]) /\ Staged(turns[m]) /\ turns[m] = [f \in Fields |-> turns[m][f]]
    BY Shaped DEF TurnsWell
  <2>2. Handling(m) => turns[m].outcome = None /\ turns[m].task = None /\ turns[m].context = None
                       /\ turns[m].task # "COMPLETED"
    BY <2>1, TurnAssumption DEF Handling, Staged
  <2>3. CASE MessageCreate(m)
    <3> DEFINE e == [turns[m] EXCEPT !.at = "typing"]
    <3>1. turns[m].at = "unsent" /\ Turns(m, e)
      BY <2>3 DEF MessageCreate
    <3>2. /\ e = [f \in Fields |-> e[f]] /\ e.at = "typing" /\ e.outcome = turns[m].outcome
          /\ e.task = turns[m].task /\ e.context = turns[m].context
      BY <2>1 DEF Fields
    <3>3. PICK t : t = e
      OBVIOUS
    <3> HIDE DEF e
    <3>4. Shape(t) /\ Staged(t) /\ Turns(m, t) /\ t.at = "typing"
      BY <2>1, <3>1, <3>2, <3>3, Shaped DEF Staged
    <3> QED BY <1>1, <1>4, <3>4, GoesOn
  <2>4. CASE TypingShown(m)
    <3> DEFINE e == [turns[m] EXCEPT !.at = "handling"]
    <3>1. turns[m].at = "typing" /\ Turns(m, e)
      BY <2>4 DEF TypingShown
    <3>2. /\ e = [f \in Fields |-> e[f]] /\ e.at = "handling" /\ e.outcome = turns[m].outcome
          /\ e.task = turns[m].task /\ e.context = turns[m].context
      BY <2>1 DEF Fields
    <3>3. PICK t : t = e
      OBVIOUS
    <3> HIDE DEF e
    <3>4. Shape(t) /\ Staged(t) /\ Turns(m, t) /\ t.at = "handling"
      BY <2>1, <3>1, <3>2, <3>3, Shaped DEF Staged
    <3> QED BY <1>1, <1>4, <3>4, GoesOn
  <2>5. CASE HandleFails(m)
    <3>1. Handling(m)
      BY <2>5 DEF HandleFails
    <3>2. \/ Returns(m, turns[m], "sanitized")
          \/ \E status \in {"PENDING", "PLANNING", "RUNNING"} :
                Returns(m, [turns[m] EXCEPT !.task = status], "sanitized")
      BY <2>5, Zenon DEF HandleFails, Escapes
    <3>3. PICK t : t = turns[m]
      OBVIOUS
    <3>4. CASE Returns(m, turns[m], "sanitized")
      <4>1. Shape(t) /\ t.task # "COMPLETED" /\ Returns(m, t, "sanitized")
        BY <2>1, <2>2, <3>1, <3>3, <3>4
      <4> QED BY <1>1, <1>4, <4>1, ClaimsNothing
    <3>5. ASSUME NEW status \in {"PENDING", "PLANNING", "RUNNING"},
                 Returns(m, [turns[m] EXCEPT !.task = status], "sanitized")
          PROVE  TurnsWell' /\ TruthIs'
      <4> DEFINE e == [t EXCEPT !.task = status]
      <4>1. e = [f \in Fields |-> e[f]] /\ e.task = status /\ Returns(m, e, "sanitized")
        BY <2>1, <3>3, <3>5 DEF Fields
      <4> HIDE DEF e
      <4>2. Shape(e) /\ e.task # "COMPLETED"
        BY <4>1, Shaped
      <4> QED BY <1>1, <1>4, <4>1, <4>2, ClaimsNothing
    <3> QED BY <3>2, <3>4, <3>5
  <2>6. CASE HandleLocal(m) \/ HandleRegister(m)
    <3>1. Handling(m) /\ Returns(m, turns[m], "local")
      BY <2>6 DEF HandleLocal, HandleRegister, Local, Asks
    <3>2. PICK t : t = turns[m]
      OBVIOUS
    <3>3. Shape(t) /\ t.task # "COMPLETED" /\ Returns(m, t, "local")
      BY <2>1, <2>2, <3>1, <3>2
    <3> QED BY <1>1, <1>4, <3>3, ClaimsNothing
  <2>7. CASE HandleRemember(m)
    <3>1. PICK t : t = turns[m]
      OBVIOUS
    <3>2. Shape(t) /\ t.task # "COMPLETED" /\ t.task = None
      BY <2>1, <2>2, <2>7, <3>1 DEF HandleRemember, Asks
    <3>3. PICK fails \in {"none", "save"} :
             /\ durable' = IF Decision(CandidateOf(m)) = "PROMOTED" THEN Written(CandidateOf(m), fails) ELSE durable
             /\ \/ Returns(m, turns[m], IF SaysStored(m, fails) THEN "stored" ELSE "notStored")
                \/ Escapes(m, turns[m], {"reply"})
      BY <2>7, Zenon DEF HandleRemember
    <3>4. CASE Returns(m, turns[m], "sanitized")
      <4>1. Returns(m, t, "sanitized")
        BY <3>1, <3>4
      <4> QED BY <1>1, <1>4, <3>2, <4>1, ClaimsNothing
    <3>5. CASE Returns(m, turns[m], "notStored")
      <4>1. Returns(m, t, "notStored")
        BY <3>1, <3>5
      <4> QED BY <1>1, <1>4, <3>2, <4>1, ClaimsNothing
    <3>6. ASSUME SaysStored(m, fails), Returns(m, turns[m], "stored")
          PROVE  TurnsWell' /\ TruthIs'
      <4>1. PICK c : c = CandidateOf(m)
        OBVIOUS
      <4>2. /\ c.session = SessionFor(m) /\ c.actor = AuthorOf[m] /\ c.fact = t.asks.fact
            /\ c.supersedes = NoRow
        BY <3>1, <4>1 DEF CandidateOf
      <4>3. Decision(c) # "REJECTED" /\ fails = "none"
        BY <3>6, <4>1 DEF SaysStored
      <4>4. \E r \in durable' : r.fact = c.fact /\ r.actor = c.actor /\ r.session = c.session
        <5>1. Decision(c) = "PROMOTED" \/ (Decision(c) = "DUPLICATE" /\ DuplicateOf(c) # {})
          BY <4>2, <4>3 DEF Decision
        <5>2. CASE Decision(c) = "PROMOTED"
          <6>1. durable' = Written(c, fails)
            BY <3>3, <4>1, <5>2
          <6>2. rowid \in Nat
            BY DEF MInv, Held, Memory
          <6>3. NewVersion(c) \in Written(c, fails)
            BY <4>2, <4>3, <6>2, WrittenWell
          <6> QED BY <6>1, <6>3 DEF NewVersion
        <5>3. CASE Decision(c) = "DUPLICATE" /\ DuplicateOf(c) # {}
          <6>1. PICK r \in durable : SameScope(r, c) /\ r.fact = c.fact
            BY <5>3 DEF DuplicateOf
          <6> QED BY <1>4, <6>1 DEF SameScope
        <5> QED BY <5>1, <5>2, <5>3
      <4>5. TruthOf([at |-> "replied", asks |-> t.asks, context |-> None, before |-> << >>,
                     run |-> t.run, task |-> t.task, outcome |-> "stored"], m, said', durable')
        <5>1. \E r \in durable' : r.fact = t.asks.fact /\ r.actor = AuthorOf[m] /\ r.session = SessionFor(m)
          BY <4>2, <4>4
        <5> QED BY <3>2, <5>1 DEF TruthOf
      <4>6. Returns(m, t, "stored")
        BY <3>1, <3>6
      <4> QED BY <1>1, <1>4, <3>2, <4>5, <4>6, ReturnsTrue
    <3> QED
      <4>1. Escapes(m, turns[m], {"reply"}) => Returns(m, turns[m], "sanitized")
        BY Zenon DEF Escapes
      <4> QED BY <3>3, <3>4, <3>5, <3>6, <4>1
  <2>8. CASE HandleWork(m)
    <3> DEFINE w == [turns[m] EXCEPT !.run = "STARTED", !.task = "RUNNING", !.before = said[SessionFor(m)]]
    <3>1. Handling(m)
      BY <2>8 DEF HandleWork, Works, Asks
    <3>2. PICK t : t = w
      OBVIOUS
    <3>3. t = [f \in Fields |-> t[f]] /\ t.run = "STARTED" /\ t.task = "RUNNING" /\ t.outcome = None
      BY <2>1, <2>2, <3>1, <3>2 DEF Fields
    <3>4. \/ \E context : Turns(m, [w EXCEPT !.at = "answering", !.context = context])
          \/ Caught(m, w)
      BY <2>8, Zenon DEF HandleWork
    <3> HIDE DEF w
    <3>5. CASE Caught(m, w)
      <4>1. Shape(t) /\ t.task = "RUNNING" /\ Caught(m, t)
        BY <3>2, <3>3, <3>5, Shaped
      <4> QED BY <1>1, <1>4, <4>1, CaughtTrue
    <3>6. ASSUME NEW context, Turns(m, [w EXCEPT !.at = "answering", !.context = context])
          PROVE  TurnsWell' /\ TruthIs'
      <4> DEFINE e == [t EXCEPT !.at = "answering", !.context = context]
      <4>1. /\ e = [f \in Fields |-> e[f]] /\ e.at = "answering" /\ e.task = "RUNNING"
            /\ e.outcome = None /\ Turns(m, e)
        BY <3>2, <3>3, <3>6 DEF Fields
      <4> HIDE DEF e
      <4>2. Shape(e) /\ Staged(e)
        BY <4>1, Shaped DEF Staged
      <4> QED BY <1>1, <1>4, <4>1, <4>2, GoesOn
    <3> QED BY <3>4, <3>5, <3>6
  <2>9. CASE Answer(m)
    <3> DEFINE a == [turns[m] EXCEPT !.run = "SUCCEEDED"]
    <3>1. turns[m].at = "answering"
      BY <2>9 DEF Answer
    <3>2. PICK t : t = a
      OBVIOUS
    <3>3. t = [f \in Fields |-> t[f]] /\ t.run = "SUCCEEDED" /\ t.task = "RUNNING" /\ Shape(t)
      BY <2>1, <3>1, <3>2, Shaped DEF Fields, Staged
    <3>4. PICK clock \in Clocks :
             \/ /\ Remembers(AnswerSaved(Memory, m, clock, MaxShortTerm))
                /\ Returns(m, [a EXCEPT !.task = "COMPLETED"], "answer")
             \/ Caught(m, a)
      <4>1. PICK u \in Accepted(turns[m]), clock \in Clocks :
               \/ /\ Remembers(AnswerSaved(Memory, m, clock, MaxShortTerm))
                  /\ Returns(m, [u EXCEPT !.task = "COMPLETED"], "answer")
               \/ Caught(m, u)
        BY <2>9, Zenon DEF Answer
      <4>2. u = a
        BY <4>1 DEF Accepted
      <4> QED BY <4>1, <4>2
    <3> HIDE DEF a
    <3>5. CASE Caught(m, a)
      <4>1. Caught(m, t)
        BY <3>2, <3>5
      <4> QED BY <1>1, <1>4, <3>3, <4>1, CaughtTrue
    <3>6. ASSUME Remembers(AnswerSaved(Memory, m, clock, MaxShortTerm)),
                 Returns(m, [a EXCEPT !.task = "COMPLETED"], "answer")
          PROVE  TurnsWell' /\ TruthIs'
      <4> DEFINE e == [t EXCEPT !.task = "COMPLETED"]
      <4>1. /\ e = [f \in Fields |-> e[f]] /\ e.task = "COMPLETED" /\ e.run = "SUCCEEDED"
            /\ Returns(m, e, "answer")
        BY <3>2, <3>3, <3>6 DEF Fields
      <4> HIDE DEF e
      <4>2. Shape(e)
        BY <4>1, Shaped
      <4>3. \E i \in DOMAIN said'[SessionFor(m)] :
               said'[SessionFor(m)][i].by = m /\ said'[SessionFor(m)][i].role = "assistant"
        BY <3>6, AnswerStored
      <4>4. TruthOf([at |-> "replied", asks |-> e.asks, context |-> None, before |-> << >>,
                     run |-> e.run, task |-> e.task, outcome |-> "answer"], m, said', durable')
        BY <4>1, <4>3 DEF TruthOf
      <4> QED BY <1>1, <1>4, <4>1, <4>2, <4>4, ReturnsTrue
    <3> QED BY <3>4, <3>5, <3>6
  <2>10. CASE NoAnswer(m)
    <3>1. turns[m].at = "answering"
      BY <2>10 DEF NoAnswer
    <3>2. PICK t : t = turns[m]
      OBVIOUS
    <3>3. Shape(t) /\ t.task = "RUNNING" /\ t = [f \in Fields |-> t[f]]
      BY <2>1, <3>1, <3>2 DEF Staged
    <3>4. \/ Caught(m, turns[m])
          \/ \E status \in {"FAILED", "NEEDS_REVIEW"} :
                Returns(m, [turns[m] EXCEPT !.run = "FAILED", !.task = status], "terminal")
      BY <2>10, Zenon DEF NoAnswer
    <3>5. CASE Caught(m, turns[m])
      <4>1. Caught(m, t)
        BY <3>2, <3>5
      <4> QED BY <1>1, <1>4, <3>3, <4>1, CaughtTrue
    <3>6. ASSUME NEW status \in {"FAILED", "NEEDS_REVIEW"},
                 Returns(m, [turns[m] EXCEPT !.run = "FAILED", !.task = status], "terminal")
          PROVE  TurnsWell' /\ TruthIs'
      <4> DEFINE e == [t EXCEPT !.run = "FAILED", !.task = status]
      <4>1. /\ e = [f \in Fields |-> e[f]] /\ e.run = "FAILED" /\ e.task = status
            /\ Returns(m, e, "terminal")
        BY <3>2, <3>3, <3>6 DEF Fields
      <4> HIDE DEF e
      <4>2. Shape(e)
        BY <4>1, Shaped
      <4> QED BY <1>1, <1>4, <4>1, <4>2, TellsFailure
    <3> QED BY <3>4, <3>5, <3>6
  <2>11. CASE Deliver(m)
    BY <1>2, <1>4, <2>11 DEF Deliver
  <2>12. CASE Over(m)
    <3> DEFINE e == [NewTurn(None) EXCEPT !.at = "over"]
    <3>1. Turns(m, e)
      BY <2>12 DEF Over
    <3>2. /\ e = [f \in Fields |-> e[f]] /\ e.at = "over" /\ e.outcome = None /\ e.task = None
          /\ e.context = None
      BY DEF Fields, NewTurn
    <3> HIDE DEF e
    <3>3. Shape(e) /\ Staged(e)
      BY <3>2, Shaped DEF Staged
    <3> QED BY <1>1, <1>4, <3>1, <3>2, <3>3, GoesOn
  <2> QED
    BY <1>4, <2>3, <2>4, <2>5, <2>6, <2>7, <2>8, <2>9, <2>10, <2>11, <2>12
<1>5. ASSUME NEW ch \in Channels, Tick(ch), durable \subseteq durable'
      PROVE  TurnsWell' /\ TruthIs'
  BY <1>2, <1>5 DEF Tick
<1>6. CASE UNCHANGED vars
  <2>1. UNCHANGED turns /\ durable \subseteq durable'
    BY <1>6 DEF vars, memoryVars
  <2> QED BY <1>2, <2>1
<1> QED
  BY <1>1, <1>3, <1>4, <1>5, <1>6, Zenon DEF Next, Handle


(* At the start nothing is stored and nothing asked.                       *)
LEMMA TurnStart == Init => DurableWell /\ TurnsWell /\ TruthIs
<1> SUFFICES ASSUME Init PROVE DurableWell /\ TurnsWell /\ TruthIs
  OBVIOUS
<1>1. DurableWell
  BY FS_EmptySet DEF Init, MemoryInit, DurableWell
<1>2. PICK inbox \in Inboxes : turns = [m \in Messages |-> NewTurn(inbox[m])]
  BY DEF Init
<1>3. TurnsWell
  <2>1. turns = [m \in Messages |-> turns[m]]
    BY <1>2
  <2>2. ASSUME NEW m \in Messages PROVE Shape(turns[m]) /\ Staged(turns[m])
    BY <1>2 DEF NewTurn, Shape, Staged
  <2> QED BY <2>1, <2>2 DEF TurnsWell
<1>4. ASSUME NEW m \in Messages PROVE TruthOf(turns[m], m, said, durable)
  <2>1. turns[m].outcome = None /\ turns[m].task = None
    BY <1>2 DEF NewTurn
  <2> QED BY <2>1, NothingSaidYet
<1> QED
  BY <1>1, <1>3, <1>4 DEF TruthIs

(* Spec => []TurnInv, what TrueReplies rests on: the store and the durable rows are well, and *)
(* of every turn the replies are true and nothing is said before it        *)
(* returns (ConversationRuntime.handleWorkTurn, handleInner).              *)
TurnInv == MInv /\ DurableWell /\ TurnsWell /\ TruthIs

THEOREM TurnsAlways == Spec => []TurnInv
<1>1. Init => TurnInv
  BY MemoryStart, TurnStart DEF TurnInv
<1>2. TurnInv /\ [Next]_vars => TurnInv'
  BY MemoryStep, DurableStep, TurnStep DEF TurnInv, Grows
<1> QED
  BY <1>1, <1>2, PTL DEF Spec

(* Spec => []TrueReplies: what the user is told of a turn is what the      *)
(* records say, whatever storage call fails and whoever records between,   *)
(* for any messages, sessions, limits and clocks.                          *)
THEOREM RepliesAreTrue == Spec => []TrueReplies
<1>1. TurnInv => TrueReplies
  BY TruthIsTrueReplies DEF TurnInv
<1> QED
  BY <1>1, TurnsAlways, PTL

-----------------------------------------------------------------------------
(* Folds.                                                                  *)

(* A recursion over the sets of positions, from the greatest down.         *)
Recursive(f, n, base, step) ==
    \A S \in SUBSET (1..n) :
        f[S] = IF S = {} THEN base ELSE step[<<Max(S), f[S \ {Max(S)}]>>]

(* It has a solution.                                                      *)
LEMMA Recursion ==
    ASSUME NEW n \in Nat, NEW T, NEW base \in T, NEW step \in [(1..n) \X T -> T]
    PROVE  \E f \in [SUBSET (1..n) -> T] : Recursive(f, n, base, step)
<1> DEFINE Solves(f, m) == Recursive(f, m, base, step)
           Solvable == {m \in Nat : m <= n => \E f \in [SUBSET (1..m) -> T] : Solves(f, m)}
<1>1. 0 \in Solvable
  <2> DEFINE f == [S \in SUBSET (1..0) |-> base]
  <2>1. f \in [SUBSET (1..0) -> T]
    OBVIOUS
  <2>2. \A S \in SUBSET (1..0) : S = {}
    OBVIOUS
  <2>3. Solves(f, 0)
    BY <2>2 DEF Recursive
  <2> QED BY <2>1, <2>3
<1>2. ASSUME NEW m \in Solvable PROVE m + 1 \in Solvable
  <2>0. m \in Nat /\ (m <= n => \E f \in [SUBSET (1..m) -> T] : Solves(f, m))
    BY <1>2
  <2> SUFFICES ASSUME m + 1 <= n
               PROVE  \E f \in [SUBSET (1..(m + 1)) -> T] : Solves(f, m + 1)
    <3>1. m + 1 \in Nat
      BY <2>0
    <3> HIDE DEF Solves
    <3> QED BY <3>1
  <2>00. m <= n
    BY <2>0, SMT
  <2>1. PICK g \in [SUBSET (1..m) -> T] : Solves(g, m)
    <3> HIDE DEF Solves
    <3> QED BY <2>0, <2>00
  <2> DEFINE f == [S \in SUBSET (1..(m + 1)) |->
                      IF m + 1 \in S THEN step[<<m + 1, g[S \ {m + 1}]>>] ELSE g[S]]
  <2>2. \A S \in SUBSET (1..(m + 1)) : S \ {m + 1} \in SUBSET (1..m)
    BY <2>0
  <2>3. \A S \in SUBSET (1..(m + 1)) : m + 1 \notin S => S \in SUBSET (1..m)
    BY <2>0
  <2>4. f \in [SUBSET (1..(m + 1)) -> T]
    <3>1. m + 1 \in 1..n
      BY <2>0
    <3> QED BY <2>2, <2>3, <3>1
  <2>5. ASSUME NEW S \in SUBSET (1..(m + 1))
        PROVE  f[S] = IF S = {} THEN base ELSE step[<<Max(S), f[S \ {Max(S)}]>>]
    <3>0. S # {} => Max(S) \in S /\ \A i \in S : i <= Max(S)
      <4>1. m + 1 \in Nat
        BY <2>0
      <4> QED BY Greatest, <4>1
    <3>1. CASE m + 1 \in S
      <4>1. Max(S) = m + 1
        <5>1. Max(S) \in 1..(m + 1) /\ m + 1 <= Max(S)
          BY <3>0, <3>1
        <5> QED BY <5>1, <2>0
      <4>2. f[S \ {m + 1}] = g[S \ {m + 1}]
        BY <2>2
      <4>3. f[S] = step[<<m + 1, g[S \ {m + 1}]>>]
        BY <3>1
      <4> QED BY <3>1, <4>1, <4>2, <4>3
    <3>2. CASE m + 1 \notin S
      <4>1. S \in SUBSET (1..m) /\ f[S] = g[S]
        BY <2>3, <3>2
      <4>2. f[S \ {Max(S)}] = g[S \ {Max(S)}]
        BY <2>3, <3>2
      <4> QED BY <4>1, <4>2, <2>1 DEF Recursive
    <3> QED BY <3>1, <3>2
  <2>6. Solves(f, m + 1)
    BY <2>5 DEF Recursive
  <2> QED BY <2>4, <2>6
<1>3. Solvable = Nat
  <2> HIDE DEF Solvable
  <2>1. Solvable \in SUBSET Nat
    BY DEF Solvable
  <2> QED BY <1>1, <1>2, <2>1, Induction
<1> QED
  <2>1. n \in Solvable
    BY <1>3
  <2>2. n <= n
    OBVIOUS
  <2>3. \E f \in [SUBSET (1..n) -> T] : Solves(f, n)
    <3> HIDE DEF Solves
    <3> QED BY <2>1, <2>2
  <2> QED BY <2>3

Chained(n, T, base, step, last) ==
    \E acc \in [0..n -> T] :
        /\ acc[0] = base
        /\ \A i \in 1..n : acc[i] = step[<<i, acc[i - 1]>>]
        /\ acc[n] = last

(* A function that takes each set of positions to the step of the set      *)
(* without its greatest goes through the positions in order.               *)
LEMMA Chain ==
    ASSUME NEW n \in Nat, NEW T, NEW base \in T, NEW step \in [(1..n) \X T -> T], NEW g,
           g[{}] = base,
           \A S \in SUBSET (1..n) : S # {} /\ g[S \ {Max(S)}] \in T =>
               g[S] = step[<<Max(S), g[S \ {Max(S)}]>>]
    PROVE  Chained(n, T, base, step, g[1..n])
<1> DEFINE acc == [m \in 0..n |-> g[1..m]]
           Goes(m) == acc[m] \in T /\ (m > 0 => acc[m] = step[<<m, acc[m - 1]>>])
           Good == {m \in Nat : m <= n => Goes(m)}
<1>1. acc[0] = base
  <2>1. 1..0 = {} /\ 0 \in 0..n
    OBVIOUS
  <2> QED BY <2>1
<1>2. 0 \in Good
  <2>1. Goes(0)
    <3> HIDE DEF acc
    <3> QED BY <1>1
  <2> HIDE DEF Goes
  <2> QED BY <2>1
<1>3. ASSUME NEW m \in Good PROVE m + 1 \in Good
  <2>0. m \in Nat /\ (m <= n => Goes(m))
    <3> HIDE DEF Goes
    <3> QED BY <1>3
  <2>1. m \in Nat /\ (m <= n => acc[m] \in T)
    <3> HIDE DEF acc
    <3> QED BY <2>0
  <2> SUFFICES ASSUME m + 1 <= n
               PROVE  acc[m + 1] \in T /\ acc[m + 1] = step[<<m + 1, acc[m]>>]
    <3>1. m + 1 \in Nat /\ (m + 1) - 1 = m
      BY <2>1
    <3>2. ASSUME m + 1 <= n PROVE Goes(m + 1)
      <4>1. acc[m + 1] \in T /\ acc[m + 1] = step[<<m + 1, acc[m]>>]
        BY <3>2
      <4> HIDE DEF acc
      <4> QED BY <3>1, <4>1
    <3> HIDE DEF Goes
    <3> QED BY <3>1, <3>2
  <2>2. m <= n /\ m \in 0..n /\ m + 1 \in 0..n /\ m + 1 \in 1..n /\ m + 1 \in Nat
    BY <2>1
  <2>3. 1..(m + 1) \in SUBSET (1..n) /\ 1..(m + 1) # {}
    <3>1. m + 1 \in 1..(m + 1)
      BY <2>2
    <3>2. \A i \in 1..(m + 1) : i \in 1..n
      BY <2>2
    <3> QED BY <3>1, <3>2
  <2>4. Max(1..(m + 1)) = m + 1
    <3>1. m + 1 \in 1..(m + 1)
      BY <2>2
    <3>2. Max(1..(m + 1)) \in 1..(m + 1) /\ m + 1 <= Max(1..(m + 1))
      BY <2>2, <3>1, Greatest
    <3> QED BY <2>2, <3>2
  <2>5. (1..(m + 1)) \ {m + 1} = 1..m
    BY <2>1
  <2>6. acc[m] = g[1..m] /\ acc[m + 1] = g[1..(m + 1)] /\ acc[m] \in T
    BY <2>1, <2>2
  <2> HIDE DEF acc
  <2>7. acc[m + 1] = step[<<m + 1, acc[m]>>]
    BY <2>3, <2>4, <2>5, <2>6
  <2>8. step[<<m + 1, acc[m]>>] \in T
    BY <2>2, <2>6
  <2> QED BY <2>7, <2>8
<1>4. Good = Nat
  <2> HIDE DEF Good
  <2>1. Good \in SUBSET Nat
    BY DEF Good
  <2> QED BY <1>2, <1>3, <2>1, Induction
<1>5. \A m \in 0..n : acc[m] \in T /\ (m > 0 => acc[m] = step[<<m, acc[m - 1]>>])
  <2> TAKE m \in 0..n
  <2>1. m \in Nat /\ m <= n
    OBVIOUS
  <2>2. m \in Good
    <3> HIDE DEF Good
    <3> QED BY <1>4, <2>1
  <2>3. Goes(m)
    <3> HIDE DEF Goes
    <3> QED BY <2>1, <2>2
  <2> HIDE DEF acc, Good
  <2> QED BY <2>3
<1>6. acc \in [0..n -> T]
  BY <1>5
<1>7. \A i \in 1..n : acc[i] = step[<<i, acc[i - 1]>>]
  <2> TAKE i \in 1..n
  <2>1. i \in 0..n /\ i > 0
    OBVIOUS
  <2> HIDE DEF acc
  <2> QED BY <1>5, <2>1
<1>8. acc[n] = g[1..n]
  OBVIOUS
<1> HIDE DEF acc
<1> QED
  BY <1>1, <1>6, <1>7, <1>8 DEF Chained

(* A sum goes through its terms in order.                                  *)
LEMMA TotalRuns ==
    ASSUME NEW n \in Nat, NEW z \in [1..n -> Nat]
    PROVE  \E acc \in [0..n -> Nat] :
              /\ acc[0] = 0
              /\ \A i \in 1..n : acc[i] = acc[i - 1] + z[i]
              /\ Total(z) = acc[n]
<1> DEFINE step == [x \in (1..n) \X Nat |-> x[2] + z[x[1]]]
<1>1. DOMAIN z = 1..n /\ \A i \in 1..n : z[i] \in Nat
  OBVIOUS
<1>2. step \in [(1..n) \X Nat -> Nat]
  BY <1>1
<1>3. PICK f \in [SUBSET (1..n) -> Nat] : Recursive(f, n, 0, step)
  <2> HIDE DEF step
  <2>1. 0 \in Nat
    OBVIOUS
  <2> QED BY <1>2, <2>1, Recursion
<1>4. ASSUME NEW S \in SUBSET (1..n), S # {}
      PROVE  /\ Max(S) \in 1..n /\ S \ {Max(S)} \in SUBSET (1..n)
             /\ \A x \in Nat : step[<<Max(S), x>>] = x + z[Max(S)]
  BY <1>4, Greatest
<1>5. f = [S \in SUBSET DOMAIN z |-> IF S = {} THEN 0 ELSE f[S \ {Max(S)}] + z[Max(S)]]
  <2> HIDE DEF step
  <2> QED BY <1>1, <1>3, <1>4 DEF Recursive
<1>6. Total(z) = (CHOOSE iter : iter = [S \in SUBSET DOMAIN z |->
                     IF S = {} THEN 0 ELSE iter[S \ {Max(S)}] + z[Max(S)]])[DOMAIN z]
  BY DEF Total, FoldLeft, MapThenFoldSet
<1>7. PICK g : /\ g = [S \in SUBSET DOMAIN z |-> IF S = {} THEN 0 ELSE g[S \ {Max(S)}] + z[Max(S)]]
               /\ Total(z) = g[DOMAIN z]
  <2> DEFINE G == CHOOSE iter : iter = [S \in SUBSET DOMAIN z |->
                     IF S = {} THEN 0 ELSE iter[S \ {Max(S)}] + z[Max(S)]]
  <2>1. G = [S \in SUBSET DOMAIN z |-> IF S = {} THEN 0 ELSE G[S \ {Max(S)}] + z[Max(S)]]
    BY <1>5, Zenon
  <2>2. Total(z) = G[DOMAIN z]
    BY <1>6
  <2> HIDE DEF G
  <2> QED BY <2>1, <2>2
<1>8. g[{}] = 0
  BY <1>1, <1>7
<1>9. \A S \in SUBSET (1..n) : S # {} /\ g[S \ {Max(S)}] \in Nat =>
          g[S] = step[<<Max(S), g[S \ {Max(S)}]>>]
  <2> HIDE DEF step
  <2> QED BY <1>1, <1>4, <1>7
<1>10. PICK acc \in [0..n -> Nat] :
          /\ acc[0] = 0
          /\ \A i \in 1..n : acc[i] = step[<<i, acc[i - 1]>>]
          /\ acc[n] = g[1..n]
  <2> HIDE DEF step
  <2>1. 0 \in Nat
    OBVIOUS
  <2>2. Chained(n, Nat, 0, step, g[1..n])
    BY <1>2, <1>8, <1>9, <2>1, Chain
  <2> QED BY <2>2 DEF Chained
<1>11. \A i \in 1..n : acc[i] = acc[i - 1] + z[i]
  <2> TAKE i \in 1..n
  <2>1. i - 1 \in 0..n
    OBVIOUS
  <2>2. acc[i - 1] \in Nat
    BY <2>1
  <2> QED BY <1>10, <2>2
<1> HIDE DEF step
<1> QED
  BY <1>1, <1>7, <1>10, <1>11

(* A sum is a number, and a sum of smaller terms is not larger.            *)
LEMMA TotalMonotone ==
    ASSUME NEW n \in Nat, NEW y \in [1..n -> Nat], NEW z \in [1..n -> Nat],
           \A i \in 1..n : y[i] <= z[i]
    PROVE  Total(y) \in Nat /\ Total(z) \in Nat /\ Total(y) <= Total(z)
<1>1. PICK a \in [0..n -> Nat] :
         a[0] = 0 /\ (\A i \in 1..n : a[i] = a[i - 1] + y[i]) /\ Total(y) = a[n]
  BY TotalRuns
<1>2. PICK b \in [0..n -> Nat] :
         b[0] = 0 /\ (\A i \in 1..n : b[i] = b[i - 1] + z[i]) /\ Total(z) = b[n]
  BY TotalRuns
<1> DEFINE T == {m \in Nat : m <= n => a[m] <= b[m]}
<1>3. 0 \in T
  BY <1>1, <1>2
<1>4. ASSUME NEW m \in T PROVE m + 1 \in T
  <2>1. m \in Nat /\ (m <= n => a[m] <= b[m])
    BY <1>4
  <2> SUFFICES ASSUME m + 1 <= n PROVE a[m + 1] <= b[m + 1]
    BY <2>1
  <2>2. m <= n /\ m + 1 \in 1..n /\ (m + 1) - 1 = m /\ m \in 0..n
    BY <2>1
  <2>3. a[m + 1] = a[m] + y[m + 1] /\ b[m + 1] = b[m] + z[m + 1]
    BY <1>1, <1>2, <2>2
  <2>4. a[m] \in Nat /\ b[m] \in Nat /\ y[m + 1] \in Nat /\ z[m + 1] \in Nat /\ y[m + 1] <= z[m + 1]
    BY <2>2
  <2> QED BY <2>1, <2>2, <2>3, <2>4
<1>5. T = Nat
  <2> HIDE DEF T
  <2>1. T \in SUBSET Nat
    BY DEF T
  <2> QED BY <1>3, <1>4, <2>1, Induction
<1>6. n \in T /\ n <= n /\ n \in 0..n
  <2> HIDE DEF T
  <2> QED BY <1>5
<1> QED
  BY <1>1, <1>2, <1>6


-----------------------------------------------------------------------------
(* The context of an answer.                                               *)

(* The position before the newest rows that are candidates.                *)
Candidate(n) == IF n <= CandidateLimit THEN 0 ELSE n - CandidateLimit

(* When a message has been saved, the candidates for its context are the   *)
(* last rows said before it: the message itself is not among them, and     *)
(* what pruning has left is enough (retriever, rankTranscript's input).    *)
LEMMA CandidatesAre ==
    ASSUME MInv, NEW m \in Messages, NEW clock \in Clocks, NEW mem,
           mem = UserSaved(m, clock, MaxShortTerm),
           NEW s \in Sessions, s = SessionFor(m)
    PROVE  Candidates(mem.rows, s, mem.id) = From(said[s], Candidate(Len(said[s])))
<1> DEFINE q == said[s]
           L == Len(q)
           h == Candidate(L)
<1>0. Memory.said = said /\ Memory.id = rowid
  BY DEF Memory
<1>1. /\ q \in Seq(Row) /\ Rising(q) /\ L \in Nat /\ DOMAIN q = 1..L
      /\ said \in [Sessions -> Seq(Row)] /\ rowid \in Nat
      /\ \A i \in DOMAIN q : q[i].id <= rowid
  BY <1>0 DEF MInv, Held, SaidWell
<1>2. MaxShortTerm \in Nat /\ CandidateLimit \in Nat /\ CandidateLimit + 1 <= MaxShortTerm
  BY MemoryAssumption
<1>3. Held(mem) /\ mem.id = rowid + 1 /\ OneRowMore(Memory, mem, s, "user", m)
  <2>1. mem = Recorded(Memory, s, "user", m, clock, MaxShortTerm)
    BY DEF UserSaved
  <2>2. MaxShortTerm \in Int /\ MaxShortTerm >= MaxShortTerm /\ "user" \in {"user", "assistant"}
    BY <1>2
  <2> QED BY <1>0, <2>1, <2>2, RecordedHeld DEF MInv
<1>4. PICK row \in Row : row.id = mem.id /\ mem.said = [said EXCEPT ![s] = Append(@, row)]
  BY <1>0, <1>3 DEF OneRowMore
<1> DEFINE n == Append(q, row)
<1>5. mem.said[s] = n
  BY <1>1, <1>4
<1> HIDE DEF q
<1>6. /\ n \in Seq(Row) /\ Len(n) = L + 1 /\ n[L + 1] = row /\ \A i \in 1..L : n[i] = q[i]
  BY <1>1
<1> HIDE DEF n, L
<1>7. PICK k \in Nat : HeldFrom(mem, s, k)
  BY <1>3 DEF Held
<1>8. k \in 0..(L + 1) /\ (L + 1) - k >= Enough(L + 1) /\ FindByScope(mem.rows, s) = From(n, k)
  BY <1>3, <1>5, <1>6, <1>7, RowsFound DEF HeldFrom
<1>9. /\ h \in 0..L /\ L - h <= CandidateLimit
      /\ h = IF (L + 1) - k <= CandidateLimit + 1 THEN k ELSE (L + 1) - (CandidateLimit + 1)
  <2>1. (L + 1) - k >= IF MaxShortTerm <= L + 1 THEN MaxShortTerm ELSE L + 1
    BY <1>8 DEF Enough
  <2>2. L \in Nat /\ k \in Nat /\ k <= L + 1
    BY <1>1, <1>8 DEF L
  <2>3. h = IF L <= CandidateLimit THEN 0 ELSE L - CandidateLimit
    BY DEF Candidate
  <2> HIDE DEF h
  <2>4. CASE MaxShortTerm <= L + 1
    BY <1>2, <2>1, <2>2, <2>3, <2>4
  <2>5. CASE ~(MaxShortTerm <= L + 1)
    <3>1. k = 0
      BY <1>2, <2>1, <2>2, <2>5
    <3> QED BY <1>2, <2>2, <2>3, <3>1
  <2> QED BY <2>4, <2>5
<1>10. Newest(From(n, k), CandidateLimit + 1) = From(n, h)
  <2>1. CandidateLimit + 1 \in Nat /\ k \in 0..Len(n)
    BY <1>2, <1>6, <1>8
  <2>2. Newest(From(n, k), CandidateLimit + 1) =
           From(n, IF Len(n) - k <= CandidateLimit + 1 THEN k ELSE Len(n) - (CandidateLimit + 1))
    BY <1>6, <2>1, NewestOfLast
  <2> HIDE DEF h
  <2> QED BY <1>6, <1>9, <2>2
<1> HIDE DEF h
<1>11. /\ From(n, h) \in Seq(Row) /\ Len(From(n, h)) = (L + 1) - h
       /\ \A i \in 1..((L + 1) - h) : From(n, h)[i] = n[h + i]
  <2>1. h \in 0..Len(n)
    BY <1>1, <1>6, <1>9 DEF L
  <2>2. /\ From(n, h) \in Seq(Row) /\ Len(From(n, h)) = Len(n) - h
        /\ \A i \in 1..(Len(n) - h) : From(n, h)[i] = n[h + i]
    BY <1>6, <2>1, FromProperties
  <2> QED BY <1>6, <2>2
<1>12. /\ From(q, h) \in Seq(Row) /\ Len(From(q, h)) = L - h /\ Rising(From(q, h))
       /\ \A i \in 1..(L - h) : From(q, h)[i] = q[h + i]
  <2>1. h \in 0..Len(q)
    BY <1>9 DEF L
  <2> QED BY <1>1, <2>1, FromProperties, LastRises DEF L
<1>13. {r \in ToSet(From(n, h)) : r.id # mem.id} = ToSet(From(q, h))
  <2>1. DOMAIN From(n, h) = 1..((L + 1) - h) /\ DOMAIN From(q, h) = 1..(L - h)
    BY <1>11, <1>12
  <2>2. \A i \in 1..(L - h) : i \in 1..((L + 1) - h) /\ h + i \in 1..L
    BY <1>1, <1>9
  <2>3. \A i \in 1..(L - h) : /\ From(n, h)[i] = From(q, h)[i]
                              /\ From(q, h)[i].id # mem.id
    <3> TAKE i \in 1..(L - h)
    <3>1. From(n, h)[i] = q[h + i] /\ From(q, h)[i] = q[h + i]
      BY <1>6, <1>11, <1>12, <2>2
    <3>2. q[h + i] \in Row /\ q[h + i].id <= rowid
      BY <1>1, <2>2
    <3>3. q[h + i].id \in Nat
      BY <3>2 DEF Row
    <3> QED BY <1>1, <1>3, <3>1, <3>2, <3>3
  <2>4. (L + 1) - h \in 1..((L + 1) - h) /\ h + ((L + 1) - h) = L + 1
    BY <1>1, <1>9
  <2>5. From(n, h)[(L + 1) - h].id = mem.id
    BY <1>4, <1>6, <1>11, <2>4
  <2>6. \A i \in 1..((L + 1) - h) : i \in 1..(L - h) \/ i = (L + 1) - h
    <3>1. L \in Nat /\ h \in 0..L
      BY <1>1, <1>9 DEF L
    <3> QED BY <3>1
  <2>7. ToSet(From(n, h)) = {From(n, h)[i] : i \in 1..((L + 1) - h)}
    BY <2>1 DEF ToSet
  <2>8. ToSet(From(q, h)) = {From(q, h)[i] : i \in 1..(L - h)}
    BY <2>1 DEF ToSet
  <2> QED BY <2>2, <2>3, <2>5, <2>6, <2>7, <2>8
<1>14. InOrder(ToSet(From(q, h))) = From(q, h)
  BY <1>12, InOrderOfRising
<1>15. Newest(From(q, h), CandidateLimit) = From(q, h)
  <2>1. h \in 0..Len(q) /\ Len(q) - h <= CandidateLimit
    BY <1>9 DEF L
  <2> QED BY <1>1, <1>2, <2>1, NewestOfLast
<1>16. Candidates(mem.rows, s, mem.id) = From(q, h)
  BY <1>8, <1>10, <1>13, <1>14, <1>15 DEF Candidates
<1> QED
  BY <1>16 DEF q, h, L

(* What is chosen of the last rows said: rows said, in that order, no more *)
(* than the limit, with the newest of a role that is among them.           *)
LEMMA WindowIs ==
    ASSUME NEW q \in Seq(Row), Rising(q), NEW w \in Windows(From(q, Candidate(Len(q))))
    PROVE  /\ InOrder(w) \in Seq(Row) /\ Rising(InOrder(w)) /\ ToSet(InOrder(w)) = w
           /\ w \subseteq ToSet(q) /\ Len(InOrder(w)) <= RecentLimit
           /\ \A role \in {"user", "assistant"}, i \in DOMAIN q :
                 /\ q[i].role = role /\ Len(q) - i < CandidateLimit
                 /\ \A j \in DOMAIN q : q[j].role = role => j <= i
                 => q[i] \in w
<1> DEFINE L == Len(q)
           h == Candidate(L)
           c == From(q, h)
           l == InOrder(w)
<1>1. L \in Nat /\ DOMAIN q = 1..L /\ CandidateLimit \in Nat /\ RecentLimit \in Nat
  BY MemoryAssumption
<1>2. h \in 0..L /\ \A i \in 1..L : L - i < CandidateLimit => i > h
  BY <1>1 DEF Candidate
<1>3. /\ c \in Seq(Row) /\ Len(c) = L - h /\ Rising(c) /\ DOMAIN c = 1..(L - h)
      /\ \A i \in 1..(L - h) : c[i] = q[h + i]
  <2>1. /\ c \in Seq(Row) /\ Len(c) = L - h /\ Rising(c)
        /\ \A i \in 1..(L - h) : c[i] = q[h + i]
    <3> HIDE DEF h
    <3> QED BY <1>2, FromProperties, LastRises
  <2> HIDE DEF c
  <2>2. DOMAIN c = 1..Len(c)
    BY <2>1
  <2> QED BY <2>1, <2>2
<1>4. /\ w \in SUBSET ToSet(c) /\ Cardinality(w) = Min({RecentLimit, Len(c)})
      /\ NewestOf(c, "user") \subseteq w /\ NewestOf(c, "assistant") \subseteq w
  BY DEF Windows
<1> HIDE DEF c, h, L
<1>5. \A i \in 1..(L - h) : h + i \in 1..L
  BY <1>1, <1>2
<1>6. w \subseteq ToSet(q)
  <2>1. \A r \in ToSet(c) : \E i \in 1..(L - h) : r = c[i]
    BY <1>3 DEF ToSet
  <2>2. \A r \in ToSet(c) : \E j \in DOMAIN q : r = q[j]
    BY <1>1, <1>3, <1>5, <2>1
  <2>3. \A r \in ToSet(c) : r \in ToSet(q)
    BY <2>2 DEF ToSet
  <2> QED BY <1>4, <2>3
<1>7. l \in Seq(Row) /\ Rising(l) /\ ToSet(l) = w
  BY <1>3, <1>4, SubsetsRise
<1> HIDE DEF l
<1>8. Len(l) <= RecentLimit
  <2>1. Len(l) \in 0..Len(l) /\ DOMAIN l = 1..Len(l) /\ Len(l) \in Nat
    BY <1>7
  <2>2. Cardinality({l[j] : j \in 1..Len(l)}) = Len(l)
    BY <1>7, <2>1, Counted
  <2>3. {l[j] : j \in 1..Len(l)} = w
    BY <1>7, <2>1 DEF ToSet
  <2>4. RecentLimit \in Int /\ L - h \in Int
    BY <1>1, <1>2
  <2>5. Min({RecentLimit, L - h}) <= RecentLimit
    <3>1. Min({RecentLimit, L - h}) = IF RecentLimit <= L - h THEN RecentLimit ELSE L - h
      BY <2>4, OfTwo
    <3> QED BY <2>4, <3>1
  <2> QED BY <1>3, <1>4, <2>2, <2>3, <2>5
<1>9. ASSUME NEW role \in {"user", "assistant"}, NEW i \in DOMAIN q,
             q[i].role = role, Len(q) - i < CandidateLimit,
             \A j \in DOMAIN q : q[j].role = role => j <= i
      PROVE  q[i] \in w
  <2> DEFINE of == {j \in DOMAIN c : c[j].role = role}
             p == i - h
  <2>1. p \in 1..(L - h) /\ h + p = i
    <3>1. i \in 1..L /\ L - i < CandidateLimit
      BY <1>1, <1>9 DEF L
    <3> QED BY <1>1, <1>2, <3>1
  <2> HIDE DEF p
  <2>2. c[p] = q[i] /\ p \in of
    BY <1>3, <1>9, <2>1
  <2>3. \A j \in of : j <= p
    <3> TAKE j \in of
    <3>1. j \in 1..(L - h) /\ c[j].role = role
      BY <1>3
    <3>2. h + j <= i
      BY <1>1, <1>3, <1>5, <1>9, <3>1
    <3> QED BY <1>2, <2>1, <3>1, <3>2
  <2>4. Max(of) = p
    <3>1. L - h \in Nat /\ of \in SUBSET (1..(L - h)) /\ of # {}
      BY <1>1, <1>2, <1>3, <2>2
    <3>2. Max(of) \in of /\ \A j \in of : j <= Max(of)
      BY <3>1, Greatest
    <3>3. Max(of) \in 1..(L - h) /\ p <= Max(of) /\ Max(of) <= p
      BY <2>2, <2>3, <3>1, <3>2
    <3> QED BY <2>1, <3>3
  <2>5. c[p] \in NewestOf(c, role)
    BY <2>2, <2>4 DEF NewestOf
  <2> QED BY <1>4, <2>2, <2>5
<1> QED
  BY <1>6, <1>7, <1>8, <1>9 DEF l


(* Compression keeps every entry between its floor and its size, and what  *)
(* is taken in all is within the budget unless the floors exceed it.       *)
LEMMA CompressedTo ==
    ASSUME NEW l \in Seq(Row), NEW left \in Int, NEW z \in Compressions(l, left)
    PROVE  /\ z \in [1..Len(l) -> Nat] /\ Total(z) \in Nat
           /\ Total(z) <= left
              \/ Total(z) = Total([i \in 1..Len(l) |-> Min({Floor, z[i]})])
<1> DEFINE n == Len(l)
           full == [i \in 1..n |-> Tokens[l[i].role]]
           least == [i \in 1..n |-> Min({Floor, full[i]})]
<1>1. n \in Nat /\ DOMAIN l = 1..n /\ Floor \in Nat
  BY MemoryAssumption
<1>2. full \in [1..n -> Nat]
  <2>1. \A i \in 1..n : l[i] \in Row
    BY <1>1
  <2>2. \A i \in 1..n : l[i].role \in {"user", "assistant"}
    BY <2>1 DEF Row
  <2> QED BY <2>2, MemoryAssumption
<1>3. least \in [1..n -> Nat]
  <2>1. ASSUME NEW i \in 1..n PROVE Min({Floor, full[i]}) \in Nat
    <3>1. full[i] \in Nat
      BY <1>2
    <3> HIDE DEF full
    <3>2. Min({Floor, full[i]}) = IF Floor <= full[i] THEN Floor ELSE full[i]
      BY <1>1, <3>1, OfTwo
    <3> QED BY <1>1, <3>1, <3>2
  <2> QED BY <2>1
<1>4. /\ z \in [1..n -> 0..Max({Tokens[r] : r \in DOMAIN Tokens})]
      /\ \A i \in 1..n : least[i] <= z[i] /\ z[i] <= full[i]
      /\ Total(z) = Max({Total(least), Min({Total(full), left})})
  BY <1>1 DEF Compressions
<1>5. z \in [1..n -> Nat]
  <2>0. PICK b : b = Max({Tokens[r] : r \in DOMAIN Tokens})
    OBVIOUS
  <2>1. \A i \in 1..n : z[i] \in 0..b
    BY <1>4, <2>0
  <2>2. \A i \in 1..n : z[i] \in Nat
    BY <2>1
  <2> QED BY <1>4, <2>2
<1>6. [i \in 1..n |-> Min({Floor, z[i]})] = least
  <2>1. ASSUME NEW i \in 1..n PROVE Min({Floor, z[i]}) = least[i]
    <3>1. full[i] \in Nat /\ z[i] \in Nat /\ least[i] <= z[i] /\ z[i] <= full[i]
      BY <1>2, <1>4, <1>5
    <3>2. least[i] = Min({Floor, full[i]})
      OBVIOUS
    <3> HIDE DEF full, least
    <3>3. Min({Floor, full[i]}) = IF Floor <= full[i] THEN Floor ELSE full[i]
      BY <1>1, <3>1, OfTwo
    <3>4. Min({Floor, z[i]}) = IF Floor <= z[i] THEN Floor ELSE z[i]
      BY <1>1, <3>1, OfTwo
    <3> QED BY <1>1, <3>1, <3>2, <3>3, <3>4
  <2> HIDE DEF least
  <2>2. least = [i \in 1..n |-> least[i]]
    BY <1>3
  <2> QED BY <2>1, <2>2
<1> HIDE DEF full, least, n
<1>7. Total(full) \in Nat /\ Total(least) \in Nat /\ Total(z) \in Nat
  <2>1. n \in Nat /\ (\A i \in 1..n : full[i] <= full[i]) /\ \A i \in 1..n : least[i] <= least[i]
    BY <1>1, <1>2, <1>3
  <2>2. \A i \in 1..n : z[i] <= z[i]
    BY <1>5
  <2>3. Total(full) \in Nat
    BY <1>2, <2>1, TotalMonotone
  <2>4. Total(least) \in Nat
    BY <1>3, <2>1, TotalMonotone
  <2>5. Total(z) \in Nat
    BY <1>5, <2>1, <2>2, TotalMonotone
  <2> QED BY <2>3, <2>4, <2>5
<1>8. Total(z) <= left \/ Total(z) = Total(least)
  <2>1. PICK f \in Nat, e \in Nat : f = Total(full) /\ e = Total(least)
    BY <1>7
  <2>2. Min({f, left}) = IF f <= left THEN f ELSE left
    BY OfTwo
  <2>3. PICK a \in Int : a = Min({f, left}) /\ a <= left
    BY <2>2
  <2>4. Max({e, a}) = IF e >= a THEN e ELSE a
    <3>1. e \in Int /\ a \in Int
      OBVIOUS
    <3> QED BY <3>1, OfTwo
  <2>5. Total(z) = Max({e, a})
    BY <1>4, <2>1, <2>3
  <2> QED BY <2>1, <2>3, <2>4, <2>5
<1> QED
  BY <1>5, <1>6, <1>7, <1>8 DEF n


(* What OwnContext says of one context.                                    *)
Own(context, before, m) ==
    /\ context.task = m /\ Rows(context) \subseteq ToSet(before)
    /\ \A i, j \in DOMAIN context.transcript :
          i < j => context.transcript[i].row.id < context.transcript[j].row.id
    /\ Len(context.transcript) <= RecentLimit
    /\ Spent(context) <= Max({TokenBudget, LeastSpent(context)})
    /\ \A role \in {"user", "assistant"}, i \in DOMAIN before :
          /\ before[i].role = role /\ Len(before) - i < CandidateLimit
          /\ \A j \in DOMAIN before : before[j].role = role => j <= i
          => before[i] \in Rows(context)

(* Said of every turn that has a context, this is OwnContext.              *)
LEMMA OwnIsOwnContext ==
    ASSUME \A m \in Messages : turns[m].context # None => Own(turns[m].context, turns[m].before, m)
    PROVE  OwnContext
<1> SUFFICES ASSUME NEW m \in Messages, turns[m].context # None
             PROVE  LET context == turns[m].context
                        before == turns[m].before
                        last(role) == {i \in DOMAIN before :
                              /\ before[i].role = role
                              /\ \A j \in DOMAIN before : before[j].role = role => j <= i
                              /\ Len(before) - i < CandidateLimit}
                    IN  /\ context.task = m /\ Rows(context) \subseteq ToSet(before)
                        /\ \A i, j \in DOMAIN context.transcript :
                              i < j => context.transcript[i].row.id < context.transcript[j].row.id
                        /\ Len(context.transcript) <= RecentLimit
                        /\ Spent(context) <= Max({TokenBudget, LeastSpent(context)})
                        /\ {before[i] : i \in last("user") \cup last("assistant")} \subseteq Rows(context)
  BY Zenon DEF OwnContext
<1>1. Own(turns[m].context, turns[m].before, m)
  OBVIOUS
<1>2. PICK context, before : context = turns[m].context /\ before = turns[m].before
  OBVIOUS
<1>3. Own(context, before, m)
  BY <1>1, <1>2
<1>4. ASSUME NEW role \in {"user", "assistant"}, NEW i \in DOMAIN before,
             before[i].role = role, Len(before) - i < CandidateLimit,
             \A j \in DOMAIN before : before[j].role = role => j <= i
      PROVE  before[i] \in Rows(context)
  BY <1>3, <1>4, Zenon DEF Own
<1>5. {before[i] : i \in {i \in DOMAIN before :
              /\ before[i].role = "user"
              /\ \A j \in DOMAIN before : before[j].role = "user" => j <= i
              /\ Len(before) - i < CandidateLimit}
          \cup {i \in DOMAIN before :
              /\ before[i].role = "assistant"
              /\ \A j \in DOMAIN before : before[j].role = "assistant" => j <= i
              /\ Len(before) - i < CandidateLimit}} \subseteq Rows(context)
  BY <1>4
<1> QED
  BY <1>2, <1>3, <1>5, Zenon DEF Own

(* Whatever context is built, it is of the session's own conversation and  *)
(* within the budget (ContextBuilder.build, rankTranscript,                *)
(* compressRankedTranscript, selectDurableRecall).                         *)
LEMMA BuiltOwn ==
    ASSUME MInv, DurableWell, NEW m \in Messages, NEW clock \in Clocks, NEW mem,
           mem = UserSaved(m, clock, MaxShortTerm),
           NEW s \in Sessions, s = SessionFor(m),
           NEW context \in Contexts(mem.rows, s, mem.id)
    PROVE  Own(Prompt(m, context), said[s], m)
<1> DEFINE left == TokenBudget - Project(s)
<1>1. PICK q : q = said[s]
  OBVIOUS
<1>2. q \in Seq(Row) /\ Rising(q) /\ Len(q) \in Nat
  BY <1>1 DEF MInv, Held, SaidWell, Memory
<1>3. PICK w, z, f :
         /\ w \in Windows(From(q, Candidate(Len(q)))) /\ z \in Compressions(InOrder(w), left) /\ f \in Recalls(Recallable(s), Project(s) + Total(z))
         /\ context = [transcript |-> Transcript(InOrder(w), z), project |-> Project(s), recall |-> f]
  <2>1. Candidates(mem.rows, s, mem.id) = From(q, Candidate(Len(q)))
    BY <1>1, CandidatesAre
  <2>2. PICK w, z, f :
           /\ w \in Windows(Candidates(mem.rows, s, mem.id)) /\ z \in Compressions(InOrder(w), left) /\ f \in Recalls(Recallable(s), Project(s) + Total(z))
           /\ context = [transcript |-> Transcript(InOrder(w), z), project |-> Project(s), recall |-> f]
    <3> DEFINE rows == Candidates(mem.rows, s, mem.id)
               With(w, z) == {[transcript |-> Transcript(InOrder(w), z), project |-> Project(s), recall |-> f] :
                                  f \in Recalls(Recallable(s), Project(s) + Total(z))}
               Of(w) == UNION {With(w, z) : z \in Compressions(InOrder(w), left)}
    <3>1. Contexts(mem.rows, s, mem.id) = UNION {Of(w) : w \in Windows(rows)}
      BY DEF Contexts
    <3>2. PICK w \in Windows(rows) : context \in Of(w)
      <4> HIDE DEF Of, rows
      <4> QED BY <3>1
    <3>3. PICK z \in Compressions(InOrder(w), left) : context \in With(w, z)
      <4> HIDE DEF With
      <4> QED BY <3>2
    <3>4. PICK f \in Recalls(Recallable(s), Project(s) + Total(z)) :
             context = [transcript |-> Transcript(InOrder(w), z), project |-> Project(s), recall |-> f]
      BY <3>3
    <3> QED BY <3>2, <3>3, <3>4
  <2> QED BY <2>1, <2>2
<1>4. PICK l : l = InOrder(w)
  OBVIOUS
<1>5. /\ l \in Seq(Row) /\ Rising(l) /\ ToSet(l) = w
      /\ w \subseteq ToSet(q) /\ Len(l) <= RecentLimit
      /\ \A role \in {"user", "assistant"}, i \in DOMAIN q :
            /\ q[i].role = role /\ Len(q) - i < CandidateLimit
            /\ \A j \in DOMAIN q : q[j].role = role => j <= i
            => q[i] \in w
  <2>1. w \in Windows(From(q, Candidate(Len(q))))
    BY <1>3
  <2> QED BY <1>2, <1>4, <2>1, WindowIs
<1>6. PICK p \in Nat : p = Project(s) /\ p <= TokenBudget /\ TokenBudget \in Nat
  <2>1. Tokens["project"] \in Nat /\ TokenBudget \in Nat
    BY MemoryAssumption
  <2>2. Tokens["project"] \in Int /\ TokenBudget \in Int
    BY <2>1
  <2>3. Min({Tokens["project"], TokenBudget}) =
           IF Tokens["project"] <= TokenBudget THEN Tokens["project"] ELSE TokenBudget
    BY <2>2, OfTwo
  <2> QED BY <2>1, <2>3 DEF Project
<1>7. /\ z \in [1..Len(l) -> Nat] /\ Total(z) \in Nat
      /\ Total(z) <= TokenBudget - p
         \/ Total(z) = Total([i \in 1..Len(l) |-> Min({Floor, z[i]})])
  <2>1. TokenBudget - p \in Int /\ z \in Compressions(l, TokenBudget - p)
    BY <1>3, <1>4, <1>6
  <2> QED BY <1>5, <2>1, CompressedTo
<1>8. PICK t \in Nat : t = Total(z)
  BY <1>7
<1>9. PICK g \in Nat : g = Cardinality(f) /\ (p + t <= TokenBudget => p + t + g <= TokenBudget)
                       /\ (p + t > TokenBudget => g = 0)
  <2>1. IsFiniteSet(Recallable(s))
    <3>1. IsFiniteSet(durable) /\ Recallable(s) \subseteq durable
      BY DEF DurableWell, Recallable, FindDurableCandidates
    <3> QED BY <3>1, FS_Subset
  <2>2. PICK c \in Nat : c = Cardinality(Recallable(s))
    BY <2>1, FS_CardinalityType
  <2>3. PICK b \in Int : b = TokenBudget - (p + t)
    BY <1>6
  <2>4. Remainder(p + t) = IF 0 >= b THEN 0 ELSE b
    <3>1. 0 \in Int /\ b \in Int
      OBVIOUS
    <3>2. Max({0, b}) = IF 0 >= b THEN 0 ELSE b
      BY <3>1, OfTwo
    <3> QED BY <2>3, <3>2 DEF Remainder
  <2>5. PICK k \in Nat : k = Remainder(p + t) /\ (b <= 0 => k = 0) /\ (b >= 0 => k = b)
    BY <2>4
  <2>6. Min({k, c}) = IF k <= c THEN k ELSE c
    <3>1. k \in Int /\ c \in Int
      OBVIOUS
    <3> QED BY <3>1, OfTwo
  <2>7. Cardinality(f) = Min({k, c})
    BY <1>3, <1>6, <1>8, <2>2, <2>5 DEF Recalls
  <2>8. PICK g \in Nat : g = Cardinality(f) /\ g <= k
    BY <2>6, <2>7
  <2> QED BY <1>6, <2>3, <2>5, <2>8
<1> DEFINE e == Prompt(m, context)
<1>10. /\ e.task = m /\ e.background = p /\ e.recall = f /\ e.transcript = Transcript(l, z)
  BY <1>3, <1>4, <1>6 DEF Prompt
<1> HIDE DEF e
<1>11. PICK v : v = e.transcript
  OBVIOUS
<1>12. /\ DOMAIN l = 1..Len(l) /\ Len(l) \in Nat /\ v = [i \in 1..Len(l) |-> [row |-> l[i], size |-> z[i]]]
  BY <1>5, <1>10, <1>11 DEF Transcript
<1>13. /\ DOMAIN v = 1..Len(l) /\ Len(v) = Len(l)
       /\ \A i \in 1..Len(l) : v[i].row = l[i] /\ v[i].size = z[i]
  BY <1>12
<1>14. Rows(e) = w
  <2>1. Rows(e) = {v[i].row : i \in 1..Len(l)}
    BY <1>11, <1>13 DEF Rows
  <2>2. w = {l[i] : i \in 1..Len(l)}
    BY <1>5, <1>12 DEF ToSet
  <2> QED BY <1>13, <2>1, <2>2
<1>15. \A i, j \in DOMAIN v : i < j => v[i].row.id < v[j].row.id
  BY <1>5, <1>12, <1>13 DEF Rising
<1>16. PICK least \in Nat : least = Total([i \in 1..Len(l) |-> Min({Floor, z[i]})])
  <2> DEFINE y == [i \in 1..Len(l) |-> Min({Floor, z[i]})]
  <2>1. y \in [1..Len(l) -> Nat]
    <3>1. ASSUME NEW i \in 1..Len(l) PROVE Min({Floor, z[i]}) \in Nat
      <4>1. z[i] \in Nat /\ Floor \in Nat
        BY <1>7, MemoryAssumption
      <4>2. Min({Floor, z[i]}) = IF Floor <= z[i] THEN Floor ELSE z[i]
        BY <4>1, OfTwo
      <4> QED BY <4>1, <4>2
    <3> QED BY <3>1
  <2> HIDE DEF y
  <2>2. \A i \in 1..Len(l) : y[i] <= y[i]
    BY <2>1
  <2>3. Total(y) \in Nat
    BY <1>12, <2>1, <2>2, TotalMonotone
  <2> QED BY <2>3 DEF y
<1>17. LeastSpent(e) = p + least
  <2>1. [i \in DOMAIN v |-> Min({Floor, v[i].size})] = [i \in 1..Len(l) |-> Min({Floor, z[i]})]
    BY <1>13
  <2> QED BY <1>10, <1>11, <1>16, <2>1 DEF LeastSpent
<1>18. Spent(e) = p + g + t
  <2>1. [i \in DOMAIN v |-> v[i].size] = z
    BY <1>7, <1>13
  <2> QED BY <1>8, <1>9, <1>10, <1>11, <2>1 DEF Spent
<1>19. Spent(e) <= Max({TokenBudget, LeastSpent(e)})
  <2>1. TokenBudget \in Int /\ p + least \in Int
    BY <1>6
  <2>2. Max({TokenBudget, p + least}) = IF TokenBudget >= p + least THEN TokenBudget ELSE p + least
    BY <2>1, OfTwo
  <2>3. t <= TokenBudget - p \/ t = least
    BY <1>7, <1>8, <1>16
  <2>4. p + g + t <= Max({TokenBudget, p + least})
    BY <1>6, <1>9, <2>2, <2>3
  <2> QED BY <1>17, <1>18, <2>4
<1>20. Own(e, q, m)
  BY <1>5, <1>10, <1>11, <1>13, <1>14, <1>15, <1>19, Zenon DEF Own
<1> QED
  BY <1>1, <1>20 DEF e


-----------------------------------------------------------------------------
(* A step either leaves a turn's context or takes it away, but the one     *)
(* that builds it.                                                         *)
Kept(t, u) == u.context = None \/ (u.context = t.context /\ u.before = t.before)
AllKept == \A n \in Messages : Kept(turns[n], turns'[n])

(* A turn that returns has no context any more.                            *)
LEMMA ReturnsKept ==
    ASSUME TurnsWell, NEW m \in Messages, NEW t, DOMAIN t = Fields, NEW outcome, Returns(m, t, outcome)
    PROVE  AllKept
<1> DEFINE u == [t EXCEPT !.at = "replied", !.outcome = outcome, !.context = None, !.before = << >>]
<1>1. turns = [n \in Messages |-> turns[n]] /\ turns' = [turns EXCEPT ![m] = u]
  BY DEF TurnsWell, Returns, Turns
<1>2. u.context = None
  BY DEF Fields
<1> HIDE DEF u
<1>3. turns'[m] = u /\ \A n \in Messages \ {m} : turns'[n] = turns[n]
  BY <1>1
<1>4. Kept(turns[m], turns'[m])
  BY <1>2, <1>3 DEF Kept
<1>5. \A n \in Messages \ {m} : Kept(turns[n], turns'[n])
  BY <1>3 DEF Kept
<1> QED
  BY <1>4, <1>5 DEF AllKept

(* So does one in which only other fields are changed.                     *)
LEMMA ChangedKept ==
    ASSUME TurnsWell, NEW m \in Messages, NEW u, Turns(m, u), Kept(turns[m], u)
    PROVE  AllKept
<1>1. turns = [n \in Messages |-> turns[n]] /\ turns' = [turns EXCEPT ![m] = u]
  BY DEF TurnsWell, Turns
<1>2. turns'[m] = u /\ \A n \in Messages \ {m} : turns'[n] = turns[n]
  BY <1>1
<1>3. \A n \in Messages \ {m} : Kept(turns[n], turns'[n])
  BY <1>2 DEF Kept
<1> QED
  BY <1>2, <1>3 DEF AllKept

(* Every failure returns.                                                  *)
LEMMA CaughtKept ==
    ASSUME TurnsWell, NEW m \in Messages, NEW t, DOMAIN t = Fields, Caught(m, t)
    PROVE  AllKept
<1>1. CASE Returns(m, [t EXCEPT !.run = "FAILED", !.task = "FAILED"], "error")
  <2>1. DOMAIN [t EXCEPT !.run = "FAILED", !.task = "FAILED"] = Fields
    OBVIOUS
  <2> QED BY <1>1, <2>1, ReturnsKept
<1>2. ASSUME NEW run, Returns(m, [t EXCEPT !.run = run], "sanitized")
      PROVE  AllKept
  <2>1. DOMAIN [t EXCEPT !.run = run] = Fields
    OBVIOUS
  <2> QED BY <1>2, <2>1, ReturnsKept
<1> QED
  BY <1>1, <1>2, Zenon DEF Caught

(* No step but the one that builds a context changes one.                  *)
LEMMA StepKept ==
    ASSUME TurnInv, [Next]_vars, \A m \in Messages : ~HandleWork(m)
    PROVE  AllKept
<1>1. TurnsWell /\ \A m \in Messages : DOMAIN turns[m] = Fields
  <2>1. TurnsWell
    BY DEF TurnInv
  <2>2. ASSUME NEW m \in Messages PROVE DOMAIN turns[m] = Fields
    <3>1. turns[m] = [f \in Fields |-> turns[m][f]]
      BY <2>1, Shaped DEF TurnsWell
    <3> QED BY <3>1, Zenon
  <2> QED BY <2>1, <2>2
<1>2. UNCHANGED turns => AllKept
  BY DEF AllKept, Kept
<1>3. ASSUME NEW m \in Messages, MessageCreate(m) PROVE AllKept
  <2>1. Turns(m, [turns[m] EXCEPT !.at = "typing"])
    BY <1>3 DEF MessageCreate
  <2>2. Kept(turns[m], [turns[m] EXCEPT !.at = "typing"])
    BY DEF Kept
  <2> QED BY <1>1, <2>1, <2>2, ChangedKept
<1>4. ASSUME NEW m \in Messages, TypingShown(m) PROVE AllKept
  <2>1. Turns(m, [turns[m] EXCEPT !.at = "handling"])
    BY <1>4 DEF TypingShown
  <2>2. Kept(turns[m], [turns[m] EXCEPT !.at = "handling"])
    BY DEF Kept
  <2> QED BY <1>1, <2>1, <2>2, ChangedKept
<1>5. ASSUME NEW m \in Messages, HandleFails(m) PROVE AllKept
  <2>1. \/ Returns(m, turns[m], "sanitized")
        \/ \E status : Returns(m, [turns[m] EXCEPT !.task = status], "sanitized")
    BY <1>5, Zenon DEF HandleFails, Escapes
  <2>2. ASSUME NEW status, Returns(m, [turns[m] EXCEPT !.task = status], "sanitized")
        PROVE  AllKept
    <3>1. DOMAIN [turns[m] EXCEPT !.task = status] = Fields
      BY <1>1
    <3> QED BY <1>1, <2>2, <3>1, ReturnsKept
  <2> QED BY <1>1, <2>1, <2>2, ReturnsKept
<1>6. ASSUME NEW m \in Messages, HandleLocal(m) \/ HandleRegister(m) \/ HandleRemember(m)
      PROVE  AllKept
  <2>1. \E outcome : Returns(m, turns[m], outcome)
    BY <1>6, Zenon DEF HandleLocal, HandleRegister, HandleRemember, Escapes
  <2> QED BY <1>1, <2>1, ReturnsKept
<1>7. ASSUME NEW m \in Messages, Answer(m) PROVE AllKept
  <2> DEFINE t == [turns[m] EXCEPT !.run = "SUCCEEDED"]
  <2>1. \/ Returns(m, [t EXCEPT !.task = "COMPLETED"], "answer")
        \/ Caught(m, t)
    <3>1. PICK u \in Accepted(turns[m]) : \/ Returns(m, [u EXCEPT !.task = "COMPLETED"], "answer")
                                          \/ Caught(m, u)
      BY <1>7, Zenon DEF Answer
    <3> QED BY <3>1 DEF Accepted
  <2>2. DOMAIN t = Fields /\ DOMAIN [t EXCEPT !.task = "COMPLETED"] = Fields
    BY <1>1
  <2> HIDE DEF t
  <2> QED BY <1>1, <2>1, <2>2, ReturnsKept, CaughtKept
<1>8. ASSUME NEW m \in Messages, NoAnswer(m) PROVE AllKept
  <2>1. \/ Caught(m, turns[m])
        \/ \E status : Returns(m, [turns[m] EXCEPT !.run = "FAILED", !.task = status], "terminal")
    BY <1>8, Zenon DEF NoAnswer
  <2>2. ASSUME NEW status, Returns(m, [turns[m] EXCEPT !.run = "FAILED", !.task = status], "terminal")
        PROVE  AllKept
    <3>1. DOMAIN [turns[m] EXCEPT !.run = "FAILED", !.task = status] = Fields
      BY <1>1
    <3> QED BY <1>1, <2>2, <3>1, ReturnsKept
  <2> QED BY <1>1, <2>1, <2>2, CaughtKept
<1>9. ASSUME NEW m \in Messages, Over(m) PROVE AllKept
  <2>1. Turns(m, [NewTurn(None) EXCEPT !.at = "over"])
    BY <1>9 DEF Over
  <2>2. Kept(turns[m], [NewTurn(None) EXCEPT !.at = "over"])
    BY DEF Kept, NewTurn
  <2> QED BY <1>1, <2>1, <2>2, ChangedKept
<1>10. ASSUME NEW m \in Messages, Deliver(m) PROVE AllKept
  BY <1>2, <1>10 DEF Deliver
<1>11. ASSUME NEW ch \in Channels, Tick(ch) PROVE AllKept
  BY <1>2, <1>11 DEF Tick
<1>12. MemoryWrites \/ UNCHANGED vars => AllKept
  BY <1>2 DEF MemoryWrites, vars
<1> QED
  BY <1>3, <1>4, <1>5, <1>6, <1>7, <1>8, <1>9, <1>10, <1>11, <1>12, Zenon DEF Next, Handle

(* What the step that builds a context leaves in its turn.                 *)
LEMMA WorkOwn ==
    ASSUME TurnInv, NEW m \in Messages, HandleWork(m)
    PROVE  AllKept
           \/ /\ \A n \in Messages \ {m} : turns'[n] = turns[n]
              /\ Own(turns'[m].context, turns'[m].before, m)
<1> DEFINE s == SessionFor(m)
           w == [turns[m] EXCEPT !.run = "STARTED", !.task = "RUNNING", !.before = said[s]]
<1>1. TurnsWell /\ MInv /\ DurableWell /\ turns[m] = [f \in Fields |-> turns[m][f]] /\ s \in Sessions
  <2>1. TurnsWell /\ MInv /\ DurableWell
    BY DEF TurnInv
  <2> QED BY <2>1, Shaped, SessionKnown DEF TurnsWell
<1>2. w.before = said[s] /\ w = [f \in Fields |-> w[f]] /\ DOMAIN w = Fields
  BY <1>1 DEF Fields
<1>3. PICK clock \in Clocks :
         \/ \E context \in Contexts(UserSaved(m, clock, MaxShortTerm).rows, s, UserSaved(m, clock, MaxShortTerm).id) :
               Turns(m, [w EXCEPT !.at = "answering", !.context = Prompt(m, context)])
         \/ Caught(m, w)
  BY Zenon DEF HandleWork
<1> HIDE DEF w
<1>4. CASE Caught(m, w)
  BY <1>1, <1>2, <1>4, CaughtKept
<1>5. ASSUME NEW context \in Contexts(UserSaved(m, clock, MaxShortTerm).rows, s, UserSaved(m, clock, MaxShortTerm).id),
             Turns(m, [w EXCEPT !.at = "answering", !.context = Prompt(m, context)])
      PROVE  /\ \A n \in Messages \ {m} : turns'[n] = turns[n]
             /\ Own(turns'[m].context, turns'[m].before, m)
  <2>1. PICK mem : mem = UserSaved(m, clock, MaxShortTerm)
    OBVIOUS
  <2>2. Own(Prompt(m, context), said[s], m)
    <3>1. context \in Contexts(mem.rows, s, mem.id)
      BY <2>1, <1>5
    <3> HIDE DEF s
    <3>2. s \in Sessions /\ s = SessionFor(m)
      BY <1>1 DEF s
    <3> QED BY <1>1, <2>1, <3>1, <3>2, BuiltOwn
  <2>3. PICK p : p = Prompt(m, context)
    OBVIOUS
  <2> DEFINE e == [w EXCEPT !.at = "answering", !.context = p]
  <2>4. e.context = p /\ e.before = said[s]
    BY <1>2 DEF Fields
  <2>5. turns = [n \in Messages |-> turns[n]] /\ turns' = [turns EXCEPT ![m] = e]
    BY <1>1, <1>5, <2>3 DEF TurnsWell, Turns
  <2> HIDE DEF e
  <2>6. turns'[m] = e /\ \A n \in Messages \ {m} : turns'[n] = turns[n]
    BY <2>5
  <2> QED BY <2>2, <2>3, <2>4, <2>6
<1> QED
  BY <1>3, <1>4, <1>5, Zenon

AllOwn == \A m \in Messages : turns[m].context # None => Own(turns[m].context, turns[m].before, m)

(* Spec => []OwnContext: what a provider is given to answer from is the    *)
(* conversation the message is in, in order and within the limits, however *)
(* turns overlap, the clock runs and the store prunes, for any sessions,   *)
(* limits and sizes.                                                       *)
THEOREM ContextIsOwn == Spec => []OwnContext
<1>1. Init => AllOwn
  <2> SUFFICES ASSUME Init, NEW m \in Messages PROVE turns[m].context = None
    BY DEF AllOwn
  <2> QED BY DEF Init, NewTurn
<1>2. TurnInv /\ AllOwn /\ [Next]_vars => AllOwn'
  <2> SUFFICES ASSUME TurnInv, AllOwn, [Next]_vars PROVE AllOwn'
    OBVIOUS
  <2>1. CASE AllKept
    <3> SUFFICES ASSUME NEW n \in Messages, turns'[n].context # None
                 PROVE  Own(turns'[n].context, turns'[n].before, n)
      BY DEF AllOwn
    <3>1. turns'[n].context = turns[n].context /\ turns'[n].before = turns[n].before
      BY <2>1 DEF AllKept, Kept
    <3>2. Own(turns[n].context, turns[n].before, n)
      BY <3>1 DEF AllOwn
    <3> QED BY <3>1, <3>2
  <2>2. ASSUME NEW m \in Messages, \A n \in Messages \ {m} : turns'[n] = turns[n],
               Own(turns'[m].context, turns'[m].before, m)
        PROVE  AllOwn'
    <3> SUFFICES ASSUME NEW n \in Messages, turns'[n].context # None
                 PROVE  Own(turns'[n].context, turns'[n].before, n)
      BY DEF AllOwn
    <3>1. CASE n = m
      BY <2>2, <3>1
    <3>2. CASE n # m
      BY <2>2, <3>2 DEF AllOwn
    <3> QED BY <3>1, <3>2
  <2> QED BY <2>1, <2>2, StepKept, WorkOwn
<1>3. AllOwn => OwnContext
  BY OwnIsOwnContext DEF AllOwn
<1> QED
  BY <1>1, <1>2, <1>3, TurnsAlways, PTL DEF Spec


-----------------------------------------------------------------------------
(* What pieces say, joined.                                                *)

PieceOf(E) == [kind : {"chunk", "header", "part", "file"}, content : Seq(E), last : BOOLEAN]

(* What has been said by each piece, when the contents of a kind are       *)
(* joined one after another.                                               *)
Joined(ps, kind, E, acc) ==
    /\ acc \in [0..Len(ps) -> Seq(E)]
    /\ acc[0] = << >>
    /\ \A i \in 1..Len(ps) :
          acc[i] = IF ps[i].kind = kind THEN acc[i - 1] \o ps[i].content ELSE acc[i - 1]

(* Contents joins.                                                         *)
LEMMA ContentsJoined ==
    ASSUME NEW E, NEW ps \in Seq(PieceOf(E)), NEW kind
    PROVE  \E acc : Joined(ps, kind, E, acc) /\ Contents(ps, kind) = acc[Len(ps)]
<1> DEFINE n == Len(ps)
           T == Seq(E)
           Add(x, p) == IF p.kind = kind THEN x \o p.content ELSE x
           step == [x \in (1..n) \X T |-> Add(x[2], ps[x[1]])]
<1>0. n \in Nat /\ DOMAIN ps = 1..n /\ << >> \in T
  OBVIOUS
<1>1. \A i \in 1..n, x \in T : Add(x, ps[i]) \in T
  <2> TAKE i \in 1..n, x \in T
  <2>1. ps[i] \in PieceOf(E)
    BY <1>0
  <2>2. ps[i].content \in Seq(E)
    BY <2>1 DEF PieceOf
  <2>3. x \o ps[i].content \in Seq(E)
    BY <2>2, ConcatProperties
  <2> QED BY <2>3
<1> HIDE DEF T, n
<1>2. step \in [(1..n) \X T -> T]
  <2> HIDE DEF Add
  <2> QED BY <1>1
<1>3. \A i \in 1..n, x \in T : step[<<i, x>>] = Add(x, ps[i])
  <2> HIDE DEF Add
  <2> QED OBVIOUS
<1> HIDE DEF step
<1>4. PICK f \in [SUBSET (1..n) -> T] : Recursive(f, n, << >>, step)
  BY <1>0, <1>2, Recursion
<1>5. ASSUME NEW S \in SUBSET (1..n), S # {}
      PROVE  Max(S) \in 1..n /\ S \ {Max(S)} \in SUBSET (1..n)
  BY <1>0, <1>5, Greatest
<1>6. f = [S \in SUBSET DOMAIN ps |-> IF S = {} THEN << >> ELSE Add(f[S \ {Max(S)}], ps[Max(S)])]
  <2> HIDE DEF Add
  <2> QED BY <1>0, <1>3, <1>4, <1>5 DEF Recursive
<1>7. PICK g : /\ g = [S \in SUBSET DOMAIN ps |-> IF S = {} THEN << >> ELSE Add(g[S \ {Max(S)}], ps[Max(S)])]
               /\ Contents(ps, kind) = g[DOMAIN ps]
  <2> DEFINE G == CHOOSE iter : iter = [S \in SUBSET DOMAIN ps |->
                     IF S = {} THEN << >> ELSE Add(iter[S \ {Max(S)}], ps[Max(S)])]
  <2>1. G = [S \in SUBSET DOMAIN ps |-> IF S = {} THEN << >> ELSE Add(G[S \ {Max(S)}], ps[Max(S)])]
    BY <1>6, Zenon
  <2>2. Contents(ps, kind) = G[DOMAIN ps]
    BY DEF Contents, FoldLeft, MapThenFoldSet
  <2> HIDE DEF G, Add
  <2> QED BY <2>1, <2>2
<1>8. g[{}] = << >>
  BY <1>7
<1>9. \A S \in SUBSET (1..n) : S # {} /\ g[S \ {Max(S)}] \in T =>
          g[S] = step[<<Max(S), g[S \ {Max(S)}]>>]
  <2> HIDE DEF Add
  <2> SUFFICES ASSUME NEW S \in SUBSET (1..n), S # {}, g[S \ {Max(S)}] \in T
               PROVE  g[S] = step[<<Max(S), g[S \ {Max(S)}]>>]
    OBVIOUS
  <2>1. Max(S) \in 1..n
    BY <1>5
  <2>2. g[S] = Add(g[S \ {Max(S)}], ps[Max(S)])
    BY <1>0, <1>7
  <2> QED BY <1>3, <2>1, <2>2
<1>10. PICK acc \in [0..n -> T] :
          /\ acc[0] = << >>
          /\ \A i \in 1..n : acc[i] = step[<<i, acc[i - 1]>>]
          /\ acc[n] = g[1..n]
  <2>1. Chained(n, T, << >>, step, g[1..n])
    BY <1>0, <1>2, <1>8, <1>9, Chain
  <2> QED BY <2>1 DEF Chained
<1>11. \A i \in 1..n : acc[i] = Add(acc[i - 1], ps[i])
  <2> TAKE i \in 1..n
  <2>1. i - 1 \in 0..n
    BY <1>0
  <2>2. acc[i - 1] \in T
    BY <2>1
  <2> HIDE DEF Add
  <2> QED BY <1>3, <1>10, <2>2
<1>12. Joined(ps, kind, E, acc)
  BY <1>10, <1>11 DEF Joined, T, n
<1> QED
  BY <1>0, <1>7, <1>10, <1>12 DEF n

(* What has been said depends on the pieces so far alone.                  *)
LEMMA JoinedAgree ==
    ASSUME NEW E, NEW p, NEW q, NEW kind, NEW a, NEW b, Joined(p, kind, E, a), Joined(q, kind, E, b),
           Len(p) \in Nat, Len(q) \in Nat, NEW m \in Nat, m <= Len(p), m <= Len(q),
           \A i \in 1..m : p[i].kind = q[i].kind /\ p[i].content = q[i].content
    PROVE  a[m] = b[m]
<1> DEFINE T == {k \in Nat : k <= m => a[k] = b[k]}
<1>1. 0 \in T
  BY DEF Joined
<1>2. ASSUME NEW k \in T PROVE k + 1 \in T
  <2>1. k \in Nat /\ (k <= m => a[k] = b[k])
    BY <1>2
  <2> SUFFICES ASSUME k + 1 <= m PROVE a[k + 1] = b[k + 1]
    BY <2>1
  <2>2. k <= m /\ k + 1 \in 1..Len(p) /\ k + 1 \in 1..Len(q) /\ k + 1 \in 1..m /\ (k + 1) - 1 = k
    BY <2>1
  <2>3. /\ a[k + 1] = IF p[k + 1].kind = kind THEN a[k] \o p[k + 1].content ELSE a[k]
        /\ b[k + 1] = IF q[k + 1].kind = kind THEN b[k] \o q[k + 1].content ELSE b[k]
    BY <2>2 DEF Joined
  <2> QED BY <2>1, <2>2, <2>3
<1>3. T = Nat
  <2> HIDE DEF T
  <2>1. T \in SUBSET Nat
    BY DEF T
  <2> QED BY <1>1, <1>2, <2>1, Induction
<1>4. m \in T /\ m <= m
  <2> HIDE DEF T
  <2> QED BY <1>3
<1> QED
  BY <1>4

(* What is said first stays the beginning.                                 *)
LEMMA JoinedGrows ==
    ASSUME NEW E, NEW ps \in Seq(PieceOf(E)), NEW kind, NEW a, Joined(ps, kind, E, a),
           NEW m \in 0..Len(ps)
    PROVE  IsPrefix(a[m], a[Len(ps)])
<1> DEFINE n == Len(ps)
           Goes(k) == \E r \in Seq(E) : a[m + k] = a[m] \o r
           T == {k \in Nat : m + k <= n => Goes(k)}
<1>0. n \in Nat /\ m \in Nat /\ m <= n /\ a \in [0..n -> Seq(E)] /\ a[m] \in Seq(E)
  BY DEF Joined
<1>1. 0 \in T
  <2>1. << >> \in Seq(E) /\ a[m] \o << >> = a[m] /\ m + 0 = m
    BY <1>0, ConcatEmptySeq
  <2>2. Goes(0)
    BY <2>1
  <2> HIDE DEF Goes
  <2> QED BY <2>2
<1>2. ASSUME NEW k \in T PROVE k + 1 \in T
  <2>1. k \in Nat /\ (m + k <= n => Goes(k))
    <3> HIDE DEF Goes
    <3> QED BY <1>2
  <2> SUFFICES ASSUME m + (k + 1) <= n PROVE \E r \in Seq(E) : a[m + (k + 1)] = a[m] \o r
    <3>1. m + (k + 1) <= n => Goes(k + 1)
      OBVIOUS
    <3>2. k + 1 \in Nat
      BY <2>1
    <3> HIDE DEF Goes
    <3> QED BY <3>1, <3>2
  <2>2. m + k <= n /\ m + (k + 1) \in 1..n /\ (m + (k + 1)) - 1 = m + k
    BY <1>0, <2>1
  <2>3. PICK r \in Seq(E) : a[m + k] = a[m] \o r
    BY <2>1, <2>2
  <2>4. PICK p \in PieceOf(E) : p = ps[m + (k + 1)]
    BY <2>2
  <2>5. a[m + (k + 1)] = IF p.kind = kind THEN a[m + k] \o p.content ELSE a[m + k]
    BY <2>2, <2>4 DEF Joined
  <2>6. p.content \in Seq(E)
    BY DEF PieceOf
  <2>7. (a[m] \o r) \o p.content = a[m] \o (r \o p.content) /\ r \o p.content \in Seq(E)
    <3>1. PICK x \in Seq(E), y \in Seq(E) : x = a[m] /\ y = p.content
      BY <1>0, <2>6
    <3>2. (x \o r) \o y = x \o (r \o y) /\ r \o y \in Seq(E)
      BY ConcatAssociative, ConcatProperties
    <3> QED BY <3>1, <3>2
  <2> QED BY <2>3, <2>5, <2>7
<1>3. T = Nat
  <2> HIDE DEF T
  <2>1. T \in SUBSET Nat
    BY DEF T
  <2> QED BY <1>1, <1>2, <2>1, Induction
<1>4. n - m \in T /\ m + (n - m) = n
  <2> HIDE DEF T
  <2> QED BY <1>0, <1>3
<1>5. PICK r \in Seq(E) : a[n] = a[m] \o r
  <2>1. Goes(n - m)
    <3> HIDE DEF Goes
    <3> QED BY <1>0, <1>4
  <2> QED BY <1>4, <2>1
<1>6. PICK s \in Seq(E) : s = a[m]
  BY <1>0
<1>7. IsPrefix(s, s \o r)
  <2>1. s \o r \in Seq(E) /\ Len(s \o r) = Len(s) + Len(r) /\ Len(s) \in Nat /\ Len(r) \in Nat
    BY ConcatProperties
  <2>2. CASE Len(s) = 0
    <3>1. SubSeq(s, 1, 0) = << >> /\ SubSeq(s \o r, 1, 0) = << >>
      BY SubSeqEmpty
    <3> QED BY <2>1, <2>2, <3>1 DEF IsPrefix
  <2>3. CASE Len(s) # 0
    <3>1. 1 \in 1..Len(s) /\ Len(s) \in 1..Len(s)
      BY <2>1, <2>3
    <3>2. SubSeq(s \o r, 1, Len(s)) = SubSeq(s, 1, Len(s))
      BY <3>1, SubSeqOfConcat1
    <3> QED BY <2>1, <3>2 DEF IsPrefix
  <2> QED BY <2>2, <2>3
<1> QED
  BY <1>5, <1>6, <1>7


(* c, joined, is t.                                                        *)
Joins(c, E, t) ==
    \E acc \in [0..Len(c) -> Seq(E)] :
        /\ acc[0] = << >>
        /\ \A i \in 1..Len(c) : acc[i] = acc[i - 1] \o c[i]
        /\ acc[Len(c)] = t

(* Nothing, joined, is nothing.                                            *)
LEMMA JoinsNone ==
    ASSUME NEW E
    PROVE  Joins(<< >>, E, << >>)
<1> DEFINE acc == [i \in 0..0 |-> << >>]
<1>1. Len(<< >>) = 0 /\ << >> \in Seq(E) /\ 1..0 = {} /\ 0 \in 0..0
  OBVIOUS
<1>2. acc \in [0..0 -> Seq(E)] /\ acc[0] = << >>
  BY <1>1
<1> HIDE DEF acc
<1> QED
  BY <1>1, <1>2 DEF Joins

(* One more at the end is said last.                                       *)
LEMMA JoinsMore ==
    ASSUME NEW E, NEW c \in Seq(Seq(E)), NEW a \in Seq(E), NEW t, Joins(c, E, t)
    PROVE  Joins(Append(c, a), E, t \o a)
<1> DEFINE n == Len(c)
           l == Append(c, a)
<1>1. /\ n \in Nat /\ l \in Seq(Seq(E)) /\ Len(l) = n + 1 /\ l[n + 1] = a
      /\ \A i \in 1..n : l[i] = c[i]
  BY AppendProperties
<1>2. PICK acc \in [0..n -> Seq(E)] :
         acc[0] = << >> /\ (\A i \in 1..n : acc[i] = acc[i - 1] \o c[i]) /\ acc[n] = t
  BY DEF Joins
<1> HIDE DEF n, l
<1>3. t \in Seq(E) /\ t \o a \in Seq(E)
  BY <1>1, <1>2, ConcatProperties
<1> DEFINE new == [i \in 0..(n + 1) |-> IF i = n + 1 THEN t \o a ELSE acc[i]]
<1>4. new \in [0..(n + 1) -> Seq(E)]
  BY <1>1, <1>2, <1>3
<1>5. new[n + 1] = t \o a /\ new[0] = << >> /\ \A i \in 0..n : new[i] = acc[i]
  BY <1>1, <1>2
<1> HIDE DEF new
<1>6. ASSUME NEW i \in 1..(n + 1) PROVE new[i] = new[i - 1] \o l[i]
  <2>1. i - 1 \in 0..n /\ (i \in 1..n \/ i = n + 1) /\ (i = n + 1 => i - 1 = n)
    BY <1>1
  <2>2. CASE i \in 1..n
    <3>1. i \in 0..n /\ new[i] = acc[i] /\ new[i - 1] = acc[i - 1]
      BY <1>5, <2>1, <2>2
    <3>2. acc[i] = acc[i - 1] \o c[i] /\ l[i] = c[i]
      BY <1>1, <1>2, <2>2
    <3> QED BY <3>1, <3>2
  <2>3. CASE i = n + 1
    BY <1>1, <1>2, <1>5, <2>1, <2>3
  <2> QED BY <2>1, <2>2, <2>3
<1>7. Joins(l, E, t \o a)
  BY <1>1, <1>4, <1>5, <1>6 DEF Joins
<1> QED
  BY <1>7 DEF l

(* One more at the beginning is said first.                                *)
LEMMA JoinsFirst ==
    ASSUME NEW E, NEW c \in Seq(Seq(E)), NEW a \in Seq(E), NEW t, Joins(c, E, t)
    PROVE  Joins(<<a>> \o c, E, a \o t)
<1> DEFINE n == Len(c)
           l == <<a>> \o c
<1>1. /\ n \in Nat /\ l \in Seq(Seq(E)) /\ Len(l) = n + 1 /\ l[1] = a
      /\ \A i \in 2..(n + 1) : l[i] = c[i - 1]
  OBVIOUS
<1>2. PICK acc \in [0..n -> Seq(E)] :
         acc[0] = << >> /\ (\A i \in 1..n : acc[i] = acc[i - 1] \o c[i]) /\ acc[n] = t
  BY DEF Joins
<1>3. \A i \in 1..n : c[i] \in Seq(E)
  OBVIOUS
<1> HIDE DEF n, l
<1> DEFINE new == [i \in 0..(n + 1) |-> IF i = 0 THEN << >> ELSE a \o acc[i - 1]]
<1>4. new \in [0..(n + 1) -> Seq(E)]
  <2>1. ASSUME NEW i \in 0..(n + 1), i # 0 PROVE a \o acc[i - 1] \in Seq(E)
    <3>1. i - 1 \in 0..n
      BY <1>1, <2>1
    <3>2. acc[i - 1] \in Seq(E)
      BY <3>1
    <3> QED BY <3>2, ConcatProperties
  <2>2. << >> \in Seq(E)
    OBVIOUS
  <2> QED BY <2>1, <2>2
<1>5. new[0] = << >> /\ \A i \in 1..(n + 1) : new[i] = a \o acc[i - 1]
  <2>1. 0 \in 0..(n + 1) /\ \A i \in 1..(n + 1) : i \in 0..(n + 1) /\ i # 0
    BY <1>1
  <2> QED BY <2>1
<1> HIDE DEF new
<1>6. ASSUME NEW i \in 1..(n + 1) PROVE new[i] = new[i - 1] \o l[i]
  <2>1. CASE i = 1
    <3>0. i - 1 = 0 /\ 1 - 1 = 0 /\ 1 \in 1..(n + 1)
      BY <1>1, <2>1
    <3>1. new[1] = a \o << >> /\ i - 1 = 0 /\ 1 - 1 = 0
      BY <1>2, <1>5, <3>0
    <3>2. a \o << >> = a /\ << >> \o a = a
      BY ConcatEmptySeq
    <3> QED BY <1>1, <1>5, <2>1, <3>1, <3>2
  <2>2. CASE i # 1
    <3>1. i \in 2..(n + 1) /\ i - 1 \in 1..n /\ (i - 1) - 1 \in 0..n /\ i - 1 \in 1..(n + 1)
      BY <1>1, <2>2
    <3>2. PICK x \in Seq(E), y \in Seq(E) : x = acc[(i - 1) - 1] /\ y = c[i - 1]
      BY <1>2, <1>3, <3>1
    <3>3. new[i] = a \o (x \o y) /\ new[i - 1] = a \o x /\ l[i] = y
      BY <1>1, <1>2, <1>5, <3>1, <3>2
    <3>4. (a \o x) \o y = a \o (x \o y)
      BY ConcatAssociative
    <3> QED BY <3>3, <3>4
  <2> QED BY <2>1, <2>2
<1>7. new[n + 1] = a \o t
  <2>1. n + 1 \in 1..(n + 1) /\ (n + 1) - 1 = n
    BY <1>1
  <2> QED BY <1>2, <1>5, <2>1
<1>8. Joins(l, E, a \o t)
  BY <1>1, <1>4, <1>5, <1>6, <1>7 DEF Joins
<1> QED
  BY <1>8 DEF l

(* One piece each.                                                         *)
LEMMA PiecesJoin ==
    ASSUME NEW E, NEW c \in Seq(Seq(E)), NEW t, Joins(c, E, t), NEW kind,
           NEW ps \in Seq(PieceOf(E)), Len(ps) = Len(c),
           \A i \in 1..Len(c) : ps[i].kind = kind /\ ps[i].content = c[i]
    PROVE  Contents(ps, kind) = t
<1>1. PICK acc \in [0..Len(c) -> Seq(E)] :
         acc[0] = << >> /\ (\A i \in 1..Len(c) : acc[i] = acc[i - 1] \o c[i]) /\ acc[Len(c)] = t
  BY DEF Joins
<1>2. Joined(ps, kind, E, acc)
  BY <1>1 DEF Joined
<1>3. PICK a : Joined(ps, kind, E, a) /\ Contents(ps, kind) = a[Len(ps)]
  BY ContentsJoined
<1>4. Len(ps) \in Nat /\ Len(ps) <= Len(ps)
  OBVIOUS
<1>5. a[Len(ps)] = acc[Len(ps)]
  <2>1. \A i \in 1..Len(ps) : ps[i].kind = ps[i].kind /\ ps[i].content = ps[i].content
    OBVIOUS
  <2> QED BY <1>2, <1>3, <1>4, <2>1, JoinedAgree
<1> QED
  BY <1>1, <1>3, <1>5

(* And one of another kind before them.                                    *)
LEMMA HeadedPiecesJoin ==
    ASSUME NEW E, NEW c \in Seq(Seq(E)), NEW t, Joins(c, E, t), NEW kind,
           NEW ps \in Seq(PieceOf(E)), Len(ps) = Len(c) + 1, ps[1].kind # kind,
           \A i \in 1..Len(c) : ps[i + 1].kind = kind /\ ps[i + 1].content = c[i]
    PROVE  Contents(ps, kind) = t
<1>7. PICK a : Joined(ps, kind, E, a) /\ Contents(ps, kind) = a[Len(ps)]
  BY ContentsJoined
<1> DEFINE n == Len(c)
<1>0. n \in Nat /\ Len(ps) = n + 1
  OBVIOUS
<1>1. PICK acc \in [0..n -> Seq(E)] :
         acc[0] = << >> /\ (\A i \in 1..n : acc[i] = acc[i - 1] \o c[i]) /\ acc[n] = t
  BY DEF Joins
<1>2. \A i \in 1..n : ps[i + 1].kind = kind /\ ps[i + 1].content = c[i]
  OBVIOUS
<1> HIDE DEF n
<1> DEFINE new == [i \in 0..(n + 1) |-> IF i = 0 THEN << >> ELSE acc[i - 1]]
<1>3. new \in [0..(n + 1) -> Seq(E)]
  <2>1. ASSUME NEW i \in 0..(n + 1), i # 0 PROVE acc[i - 1] \in Seq(E)
    <3>1. i - 1 \in 0..n
      BY <1>0, <2>1
    <3> QED BY <3>1
  <2>2. << >> \in Seq(E)
    OBVIOUS
  <2> QED BY <2>1, <2>2
<1>4. new[0] = << >> /\ \A i \in 1..(n + 1) : new[i] = acc[i - 1]
  BY <1>0
<1> HIDE DEF new
<1>5. ASSUME NEW i \in 1..(n + 1)
      PROVE  new[i] = IF ps[i].kind = kind THEN new[i - 1] \o ps[i].content ELSE new[i - 1]
  <2>1. CASE i = 1
    <3>1. i - 1 = 0 /\ 1 - 1 = 0
      BY <2>1
    <3> QED BY <1>1, <1>4, <2>1, <3>1
  <2>2. CASE i # 1
    <3>1. PICK j \in 1..n : i = j + 1
      <4>1. i - 1 \in 1..n /\ i = (i - 1) + 1
        BY <1>0, <2>2
      <4> QED BY <4>1
    <3>2. j \in 1..(n + 1) /\ i - 1 = j
      BY <1>0, <3>1
    <3> QED BY <1>1, <1>2, <1>4, <3>1, <3>2
  <2> QED BY <2>1, <2>2
<1>6. Joined(ps, kind, E, new)
  BY <1>0, <1>3, <1>4, <1>5 DEF Joined
<1>8. Len(ps) \in Nat /\ Len(ps) <= Len(ps)
  OBVIOUS
<1>9. a[Len(ps)] = new[Len(ps)]
  <2>1. \A i \in 1..Len(ps) : ps[i].kind = ps[i].kind /\ ps[i].content = ps[i].content
    OBVIOUS
  <2> QED BY <1>6, <1>7, <1>8, <2>1, JoinedAgree
<1>10. new[n + 1] = t
  <2>1. n + 1 \in 1..(n + 1) /\ (n + 1) - 1 = n
    BY <1>0
  <2> QED BY <1>1, <1>4, <2>1
<1> QED
  BY <1>0, <1>7, <1>9, <1>10

-----------------------------------------------------------------------------
(* Splitting.                                                              *)

(* chunkText takes at least one character and no more than the limit.      *)
LEMMA CutWithin == ASSUME NEW rest PROVE Cut(rest) \in 1..SafeLimit
<1>0. SafeLimit \in Nat /\ SafeLimit \in 1..SafeLimit
  BY DeliveryAssumption
<1> DEFINE at(c) == {i \in 1..SafeLimit : rest[i] = c /\ i > (SafeLimit * 3) \div 5}
<1>1. ASSUME NEW c, at(c) # {} PROVE Max(at(c)) \in 1..SafeLimit
  <2>1. at(c) \in SUBSET (1..SafeLimit)
    OBVIOUS
  <2> HIDE DEF at
  <2> QED BY <1>0, <1>1, <2>1, Greatest
<1>2. Cut(rest) = IF at("nl") # {} THEN Max(at("nl"))
                  ELSE IF at("sp") # {} THEN Max(at("sp")) ELSE SafeLimit
  BY DEF Cut
<1> HIDE DEF at
<1> QED
  BY <1>0, <1>1, <1>2

(* One step of the loop over the text, and where the next one starts.      *)
Cutting(f, text, n) ==
    LET rest == SubSeq(text, n + 1, Len(text))
    IN  IF Len(rest) <= SafeLimit THEN IF rest = << >> THEN << >> ELSE <<rest>>
        ELSE <<SubSeq(rest, 1, Cut(rest))>> \o f[n + Cut(rest)]

Where(text, n) == n + Cut(From(text, n))

CutOff(E, f, text, n) ==
    \E a \in Seq(E) : /\ Cutting(f, text, n) = <<a>> \o f[Where(text, n)]
                      /\ a = SubSeq(From(text, n), 1, Cut(From(text, n)))
                      /\ Len(a) \in 1..SafeLimit
                      /\ a \o From(text, Where(text, n)) = From(text, n)

(* Where chunkText cuts there is something on either side, and the two     *)
(* sides are the text.                                                     *)
LEMMA CuttingIs ==
    ASSUME NEW E, NEW text \in Seq(E), NEW n \in 0..Len(text), NEW f
    PROVE  /\ Len(text) - n <= SafeLimit =>
                 Cutting(f, text, n) = IF n = Len(text) THEN << >> ELSE <<From(text, n)>>
           /\ Len(text) - n > SafeLimit =>
                 Where(text, n) \in (n + 1)..Len(text) /\ CutOff(E, f, text, n)
<1> DEFINE L == Len(text)
           rest == From(text, n)
<1>1. /\ L \in Nat /\ n \in Nat /\ n <= L /\ SafeLimit \in Nat /\ SafeLimit > 0
      /\ rest \in Seq(E) /\ Len(rest) = L - n
  <2>1. rest \in Seq(E) /\ Len(rest) = L - n
    BY FromProperties
  <2> QED BY <2>1, DeliveryAssumption
<1>2. Cutting(f, text, n) = IF Len(rest) <= SafeLimit THEN IF rest = << >> THEN << >> ELSE <<rest>>
                            ELSE <<SubSeq(rest, 1, Cut(rest))>> \o f[Where(text, n)]
  BY DEF Cutting, From, Where
<1>3. rest = << >> <=> n = L
  <2>1. rest = << >> <=> Len(rest) = 0
    BY <1>1, EmptySeq
  <2> QED BY <1>1, <2>1
<1>4. PICK cut \in 1..SafeLimit : cut = Cut(rest) /\ Where(text, n) = n + cut
  BY CutWithin DEF Where
<1> HIDE DEF rest, L
<1>5. ASSUME L - n > SafeLimit
      PROVE  /\ n + cut \in (n + 1)..L
             /\ SubSeq(rest, 1, cut) \in Seq(E) /\ Len(SubSeq(rest, 1, cut)) \in 1..SafeLimit
             /\ SubSeq(rest, 1, cut) \o From(text, n + cut) = rest
  <2>1. n + cut \in (n + 1)..L /\ cut \in Nat /\ cut <= L - n
    BY <1>1, <1>4, <1>5
  <2>2. SubSeq(rest, 1, cut) = SubSeq(text, n + 1, n + cut)
    <3>1. n + 1 \in 1..Len(text) /\ Len(text) \in 1..Len(text)
          /\ 1 \in 1..(Len(text) - (n + 1) + 1) /\ cut \in 1..(Len(text) - (n + 1) + 1)
      BY <1>1, <2>1 DEF L
    <3>2. SubSeq(SubSeq(text, n + 1, Len(text)), 1, cut) = SubSeq(text, (n + 1) + 1 - 1, (n + 1) + cut - 1)
      BY <3>1, SubSeqOfSubSeq
    <3>3. (n + 1) + 1 - 1 = n + 1 /\ (n + 1) + cut - 1 = n + cut
      BY <1>1, <2>1
    <3> QED BY <3>2, <3>3 DEF rest, From
  <2>3. SubSeq(text, n + 1, n + cut) \o SubSeq(text, (n + cut) + 1, Len(text)) = SubSeq(text, n + 1, Len(text))
    <3>1. /\ n + 1 \in 1..(Len(text) + 1) /\ n + cut \in ((n + 1) - 1)..Len(text)
          /\ Len(text) \in (n + cut)..Len(text)
      BY <1>1, <2>1 DEF L
    <3> QED BY <3>1, ConcatAdjacentSubSeq
  <2>4. SubSeq(rest, 1, cut) \in Seq(E) /\ Len(SubSeq(rest, 1, cut)) \in 1..SafeLimit
    <3>1. \A i \in 1..cut : i \in 1..Len(rest)
      BY <1>1, <2>1
    <3>2. \A i \in 1..cut : rest[i] \in E
      BY <1>1, <3>1, ElementOfSeq
    <3>3. 1 \in Int /\ cut \in Int
      BY <2>1
    <3>4. SubSeq(rest, 1, cut) \in Seq(E)
          /\ Len(SubSeq(rest, 1, cut)) = IF 1 <= cut THEN cut - 1 + 1 ELSE 0
      BY <3>2, <3>3, SubSeqProperties
    <3> QED BY <1>1, <1>4, <3>4
  <2> QED BY <2>1, <2>2, <2>3, <2>4 DEF rest, From
<1>6. ASSUME L - n > SafeLimit
      PROVE  CutOff(E, f, text, n)
  <2>1. ~(Len(rest) <= SafeLimit)
    BY <1>1, <1>6
  <2> QED BY <1>2, <1>4, <1>5, <1>6, <2>1 DEF rest, CutOff
<1> QED
  BY <1>1, <1>2, <1>3, <1>4, <1>5, <1>6 DEF L, rest


(* A step looks at later positions only.                                   *)
LEMMA CuttingLocal ==
    ASSUME NEW E, NEW text \in Seq(E), NEW n \in 0..Len(text), NEW f, NEW g,
           \A i \in (n + 1)..Len(text) : f[i] = g[i]
    PROVE  Cutting(f, text, n) = Cutting(g, text, n)
<1>0. Len(text) \in Nat /\ SafeLimit \in Nat /\ n \in Nat
  BY DeliveryAssumption
<1>1. CASE Len(text) - n <= SafeLimit
  BY <1>1, CuttingIs
<1>2. CASE Len(text) - n > SafeLimit
  <2>1. Where(text, n) \in (n + 1)..Len(text)
    BY <1>2, CuttingIs
  <2>2. PICK a \in Seq(E) : Cutting(f, text, n) = <<a>> \o f[Where(text, n)]
                            /\ a = SubSeq(From(text, n), 1, Cut(From(text, n)))
    <3>1. CutOff(E, f, text, n)
      BY <1>2, CuttingIs
    <3> QED BY <3>1 DEF CutOff
  <2>3. PICK b \in Seq(E) : Cutting(g, text, n) = <<b>> \o g[Where(text, n)]
                            /\ b = SubSeq(From(text, n), 1, Cut(From(text, n)))
    <3>1. CutOff(E, g, text, n)
      BY <1>2, CuttingIs
    <3> QED BY <3>1 DEF CutOff
  <2> QED BY <2>1, <2>2, <2>3
<1> QED
  BY <1>0, <1>1, <1>2

(* So the loop over a text has a result.                                   *)
LEMMA CutsExist ==
    ASSUME NEW E, NEW text \in Seq(E)
    PROVE  \E f : f = [n \in 0..Len(text) |-> Cutting(f, text, n)]
<1> DEFINE L == Len(text)
           Solves(f, k) == /\ f = [n \in 0..L |-> f[n]]
                           /\ \A n \in 0..L : n + k >= L => f[n] = Cutting(f, text, n)
           Solvable(k) == \E f : Solves(f, k)
           T == {k \in Nat : k <= L => Solvable(k)}
<1>0. L \in Nat /\ SafeLimit \in Nat /\ SafeLimit > 0
  BY DeliveryAssumption
<1>1. 0 \in T
  <2> DEFINE f == [n \in 0..L |-> << >>]
  <2>1. \A n \in 0..L : n + 0 >= L => n = L
    BY <1>0
  <2>2. L \in 0..L /\ L - L <= SafeLimit
    BY <1>0
  <2>3. Cutting(f, text, L) = << >>
    <3> HIDE DEF f
    <3> QED BY <2>2, CuttingIs
  <2>4. f = [n \in 0..L |-> f[n]] /\ f[L] = << >>
    BY <2>2
  <2> HIDE DEF f, L
  <2>5. Solves(f, 0)
    BY <2>1, <2>3, <2>4
  <2> HIDE DEF Solves
  <2> QED BY <2>5
<1>2. ASSUME NEW k \in T PROVE k + 1 \in T
  <2>1. k \in Nat /\ (k <= L => Solvable(k))
    <3> HIDE DEF Solvable, L
    <3> QED BY <1>2
  <2> SUFFICES ASSUME k + 1 <= L PROVE Solvable(k + 1)
    <3>1. k + 1 \in Nat
      BY <2>1
    <3> HIDE DEF Solvable, L
    <3> QED BY <3>1
  <2>2. PICK f : Solves(f, k)
    BY <1>0, <2>1
  <2> DEFINE p == L - (k + 1)
             g == [f EXCEPT ![p] = Cutting(f, text, p)]
  <2>3. p \in 0..L /\ p + (k + 1) = L
    BY <1>0, <2>1
  <2>4. g = [n \in 0..L |-> g[n]] /\ g[p] = Cutting(f, text, p) /\ \A n \in 0..L : n # p => g[n] = f[n]
    <3> HIDE DEF p
    <3>1. f = [n \in 0..L |-> f[n]]
      BY <2>2
    <3> HIDE DEF L
    <3> QED BY <2>3, <3>1
  <2> HIDE DEF g, p
  <2>5. ASSUME NEW n \in 0..L, n + (k + 1) >= L PROVE g[n] = Cutting(g, text, n)
    <3>1. \A i \in (n + 1)..L : i \in 0..L /\ i # p
      BY <1>0, <2>1, <2>3, <2>5
    <3>2. Cutting(g, text, n) = Cutting(f, text, n)
      <4>1. \A i \in (n + 1)..L : g[i] = f[i]
        BY <2>4, <3>1
      <4> QED BY <4>1, CuttingLocal
    <3>3. CASE n = p
      BY <2>4, <3>2, <3>3
    <3>4. CASE n # p
      <4>1. n + k >= L
        BY <1>0, <2>1, <2>3, <2>5, <3>4
      <4> QED BY <2>2, <2>4, <3>2, <3>4, <4>1
    <3> QED BY <3>3, <3>4
  <2>6. Solves(g, k + 1)
    BY <2>4, <2>5
  <2> HIDE DEF Solves
  <2> QED BY <2>6
<1>3. T = Nat
  <2> HIDE DEF T
  <2>1. T \in SUBSET Nat
    BY DEF T
  <2> QED BY <1>1, <1>2, <2>1, Induction
<1>4. Solvable(L)
  <2>1. L \in T /\ L <= L
    <3> HIDE DEF T
    <3> QED BY <1>0, <1>3
  <2> HIDE DEF Solvable, L
  <2> QED BY <2>1
<1>5. PICK f : Solves(f, L)
  <2> HIDE DEF Solves
  <2> QED BY <1>4
<1>6. \A n \in 0..L : f[n] = Cutting(f, text, n)
  <2>1. \A n \in 0..L : n + L >= L
    BY <1>0
  <2> QED BY <1>5, <2>1
<1>7. f = [n \in 0..L |-> f[n]]
  BY <1>5
<1> HIDE DEF Solves, Solvable, T
<1> QED
  BY <1>6, <1>7

(* Each is something that fits the limit.                                  *)
Fits(c) == \A i \in 1..Len(c) : Len(c[i]) \in 1..SafeLimit

(* Where a text is cut, each chunk is something, none is longer than       *)
(* DISCORD_SAFE_LIMIT, and joined they are the text: no character is lost, *)
(* none comes twice or out of order (chunkText), for any text and limit.   *)
THEOREM ChunksJoin ==
    ASSUME NEW E, NEW text \in Seq(E)
    PROVE  /\ ChunkText(text) \in Seq(Seq(E)) /\ Joins(ChunkText(text), E, text)
           /\ Fits(ChunkText(text))
<1> DEFINE L == Len(text)
<1>0. L \in Nat /\ SafeLimit \in Nat /\ SafeLimit > 0 /\ 0 \in 0..L
  BY DeliveryAssumption
<1>1. PICK f : f = [n \in 0..L |-> Cutting(f, text, n)] /\ ChunkText(text) = f[0]
  <2> DEFINE F == CHOOSE from : from = [n \in 0..L |-> Cutting(from, text, n)]
  <2>1. F = [n \in 0..L |-> Cutting(F, text, n)]
    BY CutsExist, Zenon
  <2>2. ChunkText(text) = F[0]
    BY DEF ChunkText, Cutting
  <2> HIDE DEF F
  <2> QED BY <2>1, <2>2
<1>2. \A n \in 0..L : f[n] = Cutting(f, text, n)
  BY <1>1
<1> HIDE DEF L
<1> DEFINE Right(n) == f[n] \in Seq(Seq(E)) /\ Joins(f[n], E, From(text, n)) /\ Fits(f[n])
           T == {k \in Nat : \A n \in 0..L : L - n <= k => Right(n)}
<1>3. ASSUME NEW n \in 0..L, n = L PROVE Right(n)
  <2>1. f[n] = << >>
    BY <1>0, <1>2, <1>3, CuttingIs DEF L
  <2>2. From(text, n) = << >>
    <3>1. n + 1 \in Int /\ L \in Int /\ L < n + 1
      BY <1>0, <1>3
    <3> QED BY <3>1, SubSeqEmpty DEF From, L
  <2>3. Fits(<< >>)
    BY DEF Fits
  <2> QED BY <2>1, <2>2, <2>3, JoinsNone
<1>4. 0 \in T
  <2>1. \A n \in 0..L : L - n <= 0 => n = L
    BY <1>0
  <2> HIDE DEF Right
  <2> QED BY <1>3, <2>1
<1>5. ASSUME NEW k \in T PROVE k + 1 \in T
  <2>1. k \in Nat /\ \A n \in 0..L : L - n <= k => Right(n)
    <3> HIDE DEF Right
    <3> QED BY <1>5
  <2> SUFFICES ASSUME NEW n \in 0..L, L - n <= k + 1 PROVE Right(n)
    <3>1. k + 1 \in Nat
      BY <2>1
    <3> HIDE DEF Right
    <3> QED BY <3>1
  <2>2. n \in 0..Len(text) /\ From(text, n) \in Seq(E)
    <3>1. n \in 0..Len(text)
      BY DEF L
    <3> QED BY <3>1, FromProperties
  <2>3. CASE n # L /\ L - n <= SafeLimit
    <3>1. f[n] = <<From(text, n)>>
      BY <1>2, <2>2, <2>3, CuttingIs DEF L
    <3>2. PICK a \in Seq(E) : a = From(text, n)
      BY <2>2
    <3>3. << >> \in Seq(Seq(E)) /\ Append(<< >>, a) = <<a>> /\ << >> \o a = a
      BY ConcatEmptySeq
    <3>4. Joins(<<a>>, E, a)
      BY <3>3, JoinsNone, JoinsMore
    <3>5. <<a>> \in Seq(Seq(E))
      OBVIOUS
    <3>6. Len(a) \in 1..SafeLimit
      <4>1. Len(From(text, n)) = Len(text) - n
        BY <2>2, FromProperties
      <4> QED BY <1>0, <2>3, <3>2, <4>1 DEF L
    <3>7. Fits(<<a>>)
      BY <3>6 DEF Fits
    <3> QED BY <3>1, <3>2, <3>4, <3>5, <3>7
  <2>4. CASE L - n > SafeLimit
    <3>1. Where(text, n) \in (n + 1)..L
      BY <2>2, <2>4, CuttingIs DEF L
    <3>2. PICK a \in Seq(E) : /\ f[n] = <<a>> \o f[Where(text, n)] /\ Len(a) \in 1..SafeLimit
                              /\ a \o From(text, Where(text, n)) = From(text, n)
      <4>1. PICK a \in Seq(E) : /\ Cutting(f, text, n) = <<a>> \o f[Where(text, n)]
                                /\ Len(a) \in 1..SafeLimit
                                /\ a \o From(text, Where(text, n)) = From(text, n)
        <5>1. CutOff(E, f, text, n)
          BY <2>2, <2>4, CuttingIs DEF L
        <5> QED BY <5>1 DEF CutOff
      <4> QED BY <1>2, <4>1
    <3>3. Right(Where(text, n))
      <4>1. Where(text, n) \in 0..L /\ L - Where(text, n) <= k
        BY <1>0, <2>1, <3>1
      <4> HIDE DEF Right
      <4> QED BY <2>1, <4>1
    <3>4. PICK c \in Seq(Seq(E)) : c = f[Where(text, n)]
      BY <3>3
    <3>5. Joins(<<a>> \o c, E, a \o From(text, Where(text, n)))
      BY <3>3, <3>4, JoinsFirst
    <3>6. <<a>> \o c \in Seq(Seq(E))
      <4>1. <<a>> \in Seq(Seq(E))
        OBVIOUS
      <4> QED BY <4>1, ConcatProperties
    <3>7. Fits(<<a>> \o c)
      <4>1. Fits(c)
        BY <3>3, <3>4
      <4>2. /\ Len(c) \in Nat /\ Len(<<a>> \o c) = Len(c) + 1 /\ (<<a>> \o c)[1] = a
            /\ \A i \in 2..(Len(c) + 1) : (<<a>> \o c)[i] = c[i - 1]
        OBVIOUS
      <4>3. \A i \in 1..(Len(c) + 1) : i = 1 \/ (i \in 2..(Len(c) + 1) /\ i - 1 \in 1..Len(c))
        BY <4>2
      <4> QED BY <3>2, <4>1, <4>2, <4>3 DEF Fits
    <3> QED BY <3>2, <3>4, <3>5, <3>6, <3>7
  <2>5. n = L \/ (n # L /\ L - n <= SafeLimit) \/ L - n > SafeLimit
    BY <1>0
  <2> HIDE DEF Right
  <2> QED BY <1>3, <2>3, <2>4, <2>5
<1>6. T = Nat
  <2> HIDE DEF T
  <2>1. T \in SUBSET Nat
    BY DEF T
  <2> QED BY <1>4, <1>5, <2>1, Induction
<1>7. Right(0)
  <2>1. L \in T /\ L - 0 <= L
    <3> HIDE DEF T
    <3> QED BY <1>0, <1>6
  <2> HIDE DEF Right
  <2> QED BY <1>0, <2>1
<1>8. From(text, 0) = text
  <2>1. 0 + 1 = 1
    OBVIOUS
  <2> QED BY <2>1, SubSeqFull DEF From
<1> HIDE DEF T
<1> QED
  BY <1>1, <1>7, <1>8


(* One line more: it starts a segment or goes on with the current one.     *)
Splits(acc, line) ==
    /\ acc.current # << >>
    /\ \/ Size(acc.current) + line.size > Budget
       \/ line.starts /\ Size(acc.current) >= (Budget * 3) \div 5

Adds(acc, line) ==
    IF Splits(acc, line) THEN [done |-> Append(acc.done, acc.current), current |-> <<line>>]
    ELSE [acc EXCEPT !.current = Append(@, line)]

Partial(E) == [done : Seq(Seq(E)), current : Seq(E)]

(* What is done and what is current, joined.                               *)
Covers(acc, E, t) == \E u \in Seq(E) : Joins(acc.done, E, u) /\ u \o acc.current = t

(* Adding a line to the segments adds that line and loses none.            *)
LEMMA AddsOne ==
    ASSUME NEW E, NEW acc \in Partial(E), NEW line \in E
    PROVE  /\ Adds(acc, line) \in Partial(E)
           /\ \A t : Covers(acc, E, t) => Covers(Adds(acc, line), E, Append(t, line))
<1>1. PICK done \in Seq(Seq(E)), current \in Seq(E) : acc = [done |-> done, current |-> current]
  BY DEF Partial
<1>2. acc.done = done /\ acc.current = current
  BY <1>1
<1>3. /\ Append(done, current) \in Seq(Seq(E)) /\ <<line>> \in Seq(E)
      /\ Append(current, line) \in Seq(E) /\ Append(current, line) = current \o <<line>>
  BY AppendProperties, AppendIsConcat
<1>4. \/ Adds(acc, line) = [done |-> Append(done, current), current |-> <<line>>]
      \/ Adds(acc, line) = [done |-> done, current |-> Append(current, line)]
  <2>1. [acc EXCEPT !.current = Append(@, line)] = [done |-> done, current |-> Append(current, line)]
    <3>1. PICK w \in Seq(E) : w = Append(current, line)
      BY <1>3
    <3>2. [acc EXCEPT !.current = w] = [done |-> done, current |-> w]
      BY <1>1
    <3> QED BY <1>2, <3>1, <3>2
  <2> QED BY <1>2, <2>1 DEF Adds
<1>5. ASSUME NEW t, Covers(acc, E, t)
      PROVE  Covers(Adds(acc, line), E, Append(t, line))
  <2>1. PICK u \in Seq(E) : Joins(done, E, u) /\ u \o current = t
    BY <1>2, <1>5 DEF Covers
  <2>2. /\ u \o current \in Seq(E) /\ (u \o current) \o <<line>> = Append(t, line)
        /\ u \o (current \o <<line>>) = Append(t, line)
    <3>1. u \o current \in Seq(E)
      BY ConcatProperties
    <3>2. Append(u \o current, line) = (u \o current) \o <<line>>
      BY <3>1, AppendIsConcat
    <3>3. (u \o current) \o <<line>> = u \o (current \o <<line>>)
      BY <1>3, ConcatAssociative
    <3> QED BY <2>1, <3>1, <3>2, <3>3
  <2>3. CASE Adds(acc, line) = [done |-> Append(done, current), current |-> <<line>>]
    <3>1. Joins(Append(done, current), E, u \o current)
      BY <2>1, JoinsMore
    <3>2. PICK x \in Seq(Seq(E)), y \in Seq(E) : x = Append(done, current) /\ y = <<line>>
      BY <1>3
    <3>3. Adds(acc, line).done = x /\ Adds(acc, line).current = y
      BY <2>3, <3>2
    <3> QED BY <2>2, <3>1, <3>2, <3>3 DEF Covers
  <2>4. CASE Adds(acc, line) = [done |-> done, current |-> Append(current, line)]
    <3>1. PICK y \in Seq(E) : y = current \o <<line>> /\ y = Append(current, line)
      BY <1>3
    <3>2. Adds(acc, line).done = done /\ Adds(acc, line).current = y
      BY <2>4, <3>1
    <3> QED BY <2>1, <2>2, <3>1, <3>2 DEF Covers
  <2> QED BY <1>4, <2>3, <2>4
<1>6. Adds(acc, line) \in Partial(E)
  <2>1. PICK x \in Seq(Seq(E)), y \in Seq(E), z \in Seq(E) :
           x = Append(done, current) /\ y = <<line>> /\ z = Append(current, line)
    BY <1>3
  <2>2. Adds(acc, line) = [done |-> x, current |-> y] \/ Adds(acc, line) = [done |-> done, current |-> z]
    BY <1>4, <2>1
  <2>3. [done |-> x, current |-> y] \in Partial(E) /\ [done |-> done, current |-> z] \in Partial(E)
    BY DEF Partial
  <2> QED BY <2>2, <2>3
<1> QED
  BY <1>5, <1>6

(* The segments of a diff, joined, are the diff: no line is lost, none     *)
(* comes twice or out of order (splitCanonicalDiff).                       *)
THEOREM SegmentsJoin ==
    ASSUME NEW E, NEW lines \in Seq(E)
    PROVE  /\ Segments(lines) \in Seq(Seq(E)) /\ Len(Segments(lines)) > 0
           /\ Joins(Segments(lines), E, lines)
<1> DEFINE n == Len(lines)
           T == Partial(E)
           base == [done |-> << >>, current |-> << >>]
           step == [x \in (1..n) \X T |-> Adds(x[2], lines[x[1]])]
<1>0. n \in Nat /\ DOMAIN lines = 1..n /\ (\A i \in 1..n : lines[i] \in E)
  OBVIOUS
<1>1. base \in T
  BY DEF Partial
<1>2. \A i \in 1..n, x \in T : Adds(x, lines[i]) \in T
  BY <1>0, AddsOne
<1> HIDE DEF T, n, base
<1>3. step \in [(1..n) \X T -> T]
  BY <1>2
<1>4. \A i \in 1..n, x \in T : step[<<i, x>>] = Adds(x, lines[i])
  OBVIOUS
<1> HIDE DEF step
<1>5. PICK f \in [SUBSET (1..n) -> T] : Recursive(f, n, base, step)
  BY <1>0, <1>1, <1>3, Recursion
<1>6. ASSUME NEW S \in SUBSET (1..n), S # {}
      PROVE  Max(S) \in 1..n /\ S \ {Max(S)} \in SUBSET (1..n)
  BY <1>0, <1>6, Greatest
<1>7. f = [S \in SUBSET DOMAIN lines |-> IF S = {} THEN base ELSE Adds(f[S \ {Max(S)}], lines[Max(S)])]
  BY <1>0, <1>4, <1>5, <1>6 DEF Recursive
<1>8. PICK g : /\ g = [S \in SUBSET DOMAIN lines |-> IF S = {} THEN base ELSE Adds(g[S \ {Max(S)}], lines[Max(S)])]
               /\ Segments(lines) = IF Size(lines) <= Budget THEN <<lines>>
                                    ELSE Append(g[DOMAIN lines].done, g[DOMAIN lines].current)
  <2> DEFINE G == CHOOSE iter : iter = [S \in SUBSET DOMAIN lines |->
                     IF S = {} THEN base ELSE Adds(iter[S \ {Max(S)}], lines[Max(S)])]
  <2>1. G = [S \in SUBSET DOMAIN lines |-> IF S = {} THEN base ELSE Adds(G[S \ {Max(S)}], lines[Max(S)])]
    BY <1>7, Zenon
  <2>2. Segments(lines) = IF Size(lines) <= Budget THEN <<lines>>
                          ELSE Append(G[DOMAIN lines].done, G[DOMAIN lines].current)
    BY DEF Segments, FoldLeft, MapThenFoldSet, Adds, Splits, base
  <2> HIDE DEF G
  <2> QED BY <2>1, <2>2
<1>9. g[{}] = base
  BY <1>8
<1>10. ASSUME NEW S \in SUBSET (1..n), S # {}, g[S \ {Max(S)}] \in T
       PROVE  g[S] = step[<<Max(S), g[S \ {Max(S)}]>>]
  <2>1. Max(S) \in 1..n
    BY <1>6, <1>10
  <2>2. g[S] = Adds(g[S \ {Max(S)}], lines[Max(S)])
    BY <1>0, <1>8, <1>10
  <2> QED BY <1>4, <1>10, <2>1, <2>2
<1>11. PICK acc \in [0..n -> T] :
          acc[0] = base /\ (\A i \in 1..n : acc[i] = step[<<i, acc[i - 1]>>]) /\ acc[n] = g[1..n]
  <2>1. Chained(n, T, base, step, g[1..n])
    BY <1>0, <1>1, <1>3, <1>9, <1>10, Chain
  <2> QED BY <2>1 DEF Chained
<1> DEFINE Said(m) == Covers(acc[m], E, SubSeq(lines, 1, m))
           Good == {m \in Nat : m <= n => Said(m)}
<1>12. 0 \in Good
  <2>1. SubSeq(lines, 1, 0) = << >> /\ << >> \in Seq(E) /\ << >> \o << >> = << >>
    BY SubSeqEmpty
  <2>2. acc[0].done = << >> /\ acc[0].current = << >>
    BY <1>11 DEF base
  <2>3. Said(0)
    BY <2>1, <2>2, JoinsNone DEF Covers
  <2> HIDE DEF Said
  <2> QED BY <2>3
<1>13. ASSUME NEW m \in Good PROVE m + 1 \in Good
  <2>1. m \in Nat /\ (m <= n => Said(m))
    <3> HIDE DEF Said
    <3> QED BY <1>13
  <2> SUFFICES ASSUME m + 1 <= n PROVE Said(m + 1)
    <3>1. m + 1 \in Nat
      BY <2>1
    <3> HIDE DEF Said
    <3> QED BY <3>1
  <2>2. m <= n /\ m \in 0..n /\ m + 1 \in 1..n /\ (m + 1) - 1 = m
    BY <1>0, <2>1
  <2>3. acc[m + 1] = Adds(acc[m], lines[m + 1]) /\ acc[m] \in T /\ lines[m + 1] \in E
    BY <1>0, <1>4, <1>11, <2>2
  <2>4. Append(SubSeq(lines, 1, m), lines[m + 1]) = SubSeq(lines, 1, m + 1)
    <3>1. 1 \in 1..Len(lines) /\ m + 1 \in 1..Len(lines)
      BY <2>2 DEF n
    <3>2. SubSeq(lines, 1, m + 1) = SubSeq(lines, 1, (m + 1) - 1) \o <<lines[m + 1]>>
      BY <3>1, SubSeqRecursiveSecond
    <3>3. SubSeq(lines, 1, m) \in Seq(E)
      <4>1. \A i \in 1..m : lines[i] \in E
        BY <1>0, <2>2
      <4>2. 1 \in Int /\ m \in Int
        BY <2>2
      <4> QED BY <4>1, <4>2, SubSeqProperties
    <3>4. Append(SubSeq(lines, 1, m), lines[m + 1]) = SubSeq(lines, 1, m) \o <<lines[m + 1]>>
      BY <2>3, <3>3, AppendIsConcat
    <3> QED BY <2>2, <3>2, <3>4
  <2>5. Covers(Adds(acc[m], lines[m + 1]), E, Append(SubSeq(lines, 1, m), lines[m + 1]))
    BY <2>1, <2>2, <2>3, AddsOne DEF T
  <2> QED BY <2>3, <2>4, <2>5
<1>14. Good = Nat
  <2> HIDE DEF Good
  <2>1. Good \in SUBSET Nat
    BY DEF Good
  <2> QED BY <1>12, <1>13, <2>1, Induction
<1>15. Said(n) /\ acc[n] \in T
  <2>1. n \in Good /\ n <= n /\ n \in 0..n
    <3> HIDE DEF Good
    <3> QED BY <1>0, <1>14
  <2>2. acc[n] \in T
    BY <2>1
  <2> HIDE DEF Said
  <2> QED BY <2>1, <2>2
<1>16. PICK done \in Seq(Seq(E)), current \in Seq(E), u \in Seq(E) :
          acc[n].done = done /\ acc[n].current = current /\ Joins(done, E, u) /\ u \o current = lines
  <2>1. SubSeq(lines, 1, n) = lines
    BY SubSeqFull DEF n
  <2>2. Covers(acc[n], E, lines)
    BY <1>15, <2>1
  <2>3. acc[n].done \in Seq(Seq(E)) /\ acc[n].current \in Seq(E)
    BY <1>15 DEF T, Partial
  <2> QED BY <2>2, <2>3 DEF Covers
<1>17. Joins(Append(done, current), E, lines) /\ Append(done, current) \in Seq(Seq(E)) /\ Len(Append(done, current)) > 0
  <2>1. Joins(Append(done, current), E, u \o current)
    BY <1>16, JoinsMore
  <2>2. Append(done, current) \in Seq(Seq(E)) /\ Len(Append(done, current)) = Len(done) + 1 /\ Len(done) \in Nat
    BY AppendProperties
  <2> QED BY <1>16, <2>1, <2>2
<1>18. Joins(<<lines>>, E, lines) /\ <<lines>> \in Seq(Seq(E)) /\ Len(<<lines>>) > 0
  <2>1. << >> \in Seq(Seq(E)) /\ Append(<< >>, lines) = <<lines>> /\ << >> \in Seq(E)
    OBVIOUS
  <2>2. << >> \o lines = lines
    BY ConcatEmptySeq
  <2>3. Joins(Append(<< >>, lines), E, << >> \o lines)
    BY <2>1, JoinsNone, JoinsMore
  <2> QED BY <2>1, <2>2, <2>3
<1>19. Segments(lines) = IF Size(lines) <= Budget THEN <<lines>> ELSE Append(done, current)
  BY <1>0, <1>8, <1>11, <1>16
<1> QED
  BY <1>17, <1>18, <1>19


Line == [size : Nat \ {0}, starts : BOOLEAN]

(* The size of lines is summed line by line.                               *)
LEMMA SizeRuns ==
    ASSUME NEW lines \in Seq(Line)
    PROVE  \E acc \in [0..Len(lines) -> Nat] :
              /\ acc[0] = 0
              /\ \A i \in 1..Len(lines) : acc[i] = acc[i - 1] + lines[i].size
              /\ Size(lines) = acc[Len(lines)]
<1> DEFINE n == Len(lines)
           step == [x \in (1..n) \X Nat |-> x[2] + lines[x[1]].size]
<1>1. n \in Nat /\ DOMAIN lines = 1..n /\ \A i \in 1..n : lines[i].size \in Nat
  <2>1. \A i \in 1..n : lines[i] \in Line
    OBVIOUS
  <2> QED BY <2>1 DEF Line
<1> HIDE DEF n
<1>2. step \in [(1..n) \X Nat -> Nat]
  BY <1>1
<1>3. PICK f \in [SUBSET (1..n) -> Nat] : Recursive(f, n, 0, step)
  <2> HIDE DEF step
  <2>1. 0 \in Nat
    OBVIOUS
  <2> QED BY <1>1, <1>2, <2>1, Recursion
<1>4. ASSUME NEW S \in SUBSET (1..n), S # {}
      PROVE  /\ Max(S) \in 1..n /\ S \ {Max(S)} \in SUBSET (1..n)
             /\ \A x \in Nat : step[<<Max(S), x>>] = x + lines[Max(S)].size
  BY <1>1, <1>4, Greatest
<1>5. f = [S \in SUBSET DOMAIN lines |-> IF S = {} THEN 0 ELSE f[S \ {Max(S)}] + lines[Max(S)].size]
  <2> HIDE DEF step
  <2> QED BY <1>1, <1>3, <1>4 DEF Recursive
<1>6. Size(lines) = (CHOOSE iter : iter = [S \in SUBSET DOMAIN lines |->
                       IF S = {} THEN 0 ELSE iter[S \ {Max(S)}] + lines[Max(S)].size])[DOMAIN lines]
  BY DEF Size, FoldLeft, MapThenFoldSet
<1>7. PICK g : /\ g = [S \in SUBSET DOMAIN lines |-> IF S = {} THEN 0 ELSE g[S \ {Max(S)}] + lines[Max(S)].size]
               /\ Size(lines) = g[DOMAIN lines]
  <2> DEFINE G == CHOOSE iter : iter = [S \in SUBSET DOMAIN lines |->
                     IF S = {} THEN 0 ELSE iter[S \ {Max(S)}] + lines[Max(S)].size]
  <2>1. G = [S \in SUBSET DOMAIN lines |-> IF S = {} THEN 0 ELSE G[S \ {Max(S)}] + lines[Max(S)].size]
    BY <1>5, Zenon
  <2>2. Size(lines) = G[DOMAIN lines]
    BY <1>6
  <2> HIDE DEF G
  <2> QED BY <2>1, <2>2
<1>8. g[{}] = 0
  BY <1>1, <1>7
<1>9. \A S \in SUBSET (1..n) : S # {} /\ g[S \ {Max(S)}] \in Nat =>
          g[S] = step[<<Max(S), g[S \ {Max(S)}]>>]
  <2> HIDE DEF step
  <2> QED BY <1>1, <1>4, <1>7
<1>10. PICK acc \in [0..n -> Nat] :
          /\ acc[0] = 0
          /\ \A i \in 1..n : acc[i] = step[<<i, acc[i - 1]>>]
          /\ acc[n] = g[1..n]
  <2> HIDE DEF step
  <2>1. 0 \in Nat
    OBVIOUS
  <2>2. Chained(n, Nat, 0, step, g[1..n])
    BY <1>1, <1>2, <1>8, <1>9, <2>1, Chain
  <2> QED BY <2>2 DEF Chained
<1>11. \A i \in 1..n : acc[i] = acc[i - 1] + lines[i].size
  <2> TAKE i \in 1..n
  <2>1. i - 1 \in 0..n
    BY <1>1
  <2>2. acc[i - 1] \in Nat
    BY <2>1
  <2> QED BY <1>10, <2>2
<1> HIDE DEF step
<1> QED
  BY <1>1, <1>7, <1>10, <1>11 DEF n

(* One line more adds its size.                                            *)
LEMMA SizeAdds ==
    ASSUME NEW lines \in Seq(Line), NEW line \in Line
    PROVE  /\ Size(lines) \in Nat /\ line.size \in Nat
           /\ Size(Append(lines, line)) = Size(lines) + line.size
<1>0. PICK l : l = Append(lines, line)
  OBVIOUS
<1>1. /\ l \in Seq(Line) /\ l = Append(lines, line) /\ Len(l) = Len(lines) + 1
      /\ l[Len(lines) + 1] = line /\ \A i \in 1..Len(lines) : l[i] = lines[i]
  BY <1>0, AppendProperties
<1>2. PICK n \in Nat : n = Len(lines)
  OBVIOUS
<1>3. PICK a \in [0..n -> Nat] :
         a[0] = 0 /\ (\A i \in 1..n : a[i] = a[i - 1] + lines[i].size) /\ Size(lines) = a[n]
  BY <1>2, SizeRuns
<1>4. PICK b \in [0..(n + 1) -> Nat] :
         b[0] = 0 /\ (\A i \in 1..(n + 1) : b[i] = b[i - 1] + l[i].size) /\ Size(l) = b[n + 1]
  BY <1>1, <1>2, SizeRuns
<1> DEFINE T == {m \in Nat : m <= n => b[m] = a[m]}
<1>5. 0 \in T
  BY <1>3, <1>4
<1>6. ASSUME NEW m \in T PROVE m + 1 \in T
  <2>1. m \in Nat /\ (m <= n => b[m] = a[m])
    BY <1>6
  <2> SUFFICES ASSUME m + 1 <= n PROVE b[m + 1] = a[m + 1]
    BY <2>1
  <2>2. m <= n /\ m + 1 \in 1..n /\ m + 1 \in 1..(n + 1) /\ (m + 1) - 1 = m
    BY <2>1
  <2>3. a[m + 1] = a[m] + lines[m + 1].size /\ b[m + 1] = b[m] + l[m + 1].size
    BY <1>3, <1>4, <2>2
  <2> QED BY <1>1, <1>2, <2>1, <2>2, <2>3
<1>7. T = Nat
  <2> HIDE DEF T
  <2>1. T \in SUBSET Nat
    BY DEF T
  <2> QED BY <1>5, <1>6, <2>1, Induction
<1>8. b[n] = a[n]
  <2>1. n \in T /\ n <= n
    <3> HIDE DEF T
    <3> QED BY <1>7
  <2> QED BY <2>1
<1>9. n + 1 \in 1..(n + 1) /\ (n + 1) - 1 = n /\ a[n] \in Nat /\ line.size \in Nat
  BY DEF Line
<1>10. b[n + 1] = a[n] + line.size
  BY <1>1, <1>2, <1>4, <1>8, <1>9
<1> QED
  BY <1>1, <1>3, <1>4, <1>9, <1>10

(* No lines have no size, and one line has its own.                        *)
LEMMA SizeOfFew ==
    /\ Size(<< >>) = 0
    /\ \A line \in Line : Size(<<line>>) = line.size
<1>1. << >> \in Seq(Line) /\ Len(<< >>) = 0
  OBVIOUS
<1>2. Size(<< >>) = 0
  BY <1>1, SizeRuns
<1>3. ASSUME NEW line \in Line PROVE Size(<<line>>) = line.size
  <2>1. Append(<< >>, line) = <<line>>
    OBVIOUS
  <2>2. Size(Append(<< >>, line)) = Size(<< >>) + line.size /\ line.size \in Nat
    BY <1>1, SizeAdds
  <2> QED BY <1>2, <2>1, <2>2
<1> QED
  BY <1>2, <1>3

(* Partial segments of which none is over the budget.                      *)
Within(acc) ==
    /\ \A i \in 1..Len(acc.done) : Size(acc.done[i]) <= Budget
    /\ Size(acc.current) <= Budget

(* A line within the budget leaves them so.                                *)
LEMMA AddsWithin ==
    ASSUME NEW acc \in Partial(Line), Within(acc), NEW line \in Line, line.size <= Budget
    PROVE  Within(Adds(acc, line))
<1>1. PICK done \in Seq(Seq(Line)), current \in Seq(Line) : acc = [done |-> done, current |-> current]
  BY DEF Partial
<1>2. acc.done = done /\ acc.current = current
  BY <1>1
<1>3. /\ Size(current) \in Nat /\ line.size \in Nat
      /\ Size(Append(current, line)) = Size(current) + line.size /\ Size(<<line>>) = line.size
  BY SizeAdds, SizeOfFew
<1>4. PICK one, more, all :
         one = <<line>> /\ more = Append(current, line) /\ all = Append(done, current)
  OBVIOUS
<1>5. CASE Splits(acc, line)
  <2>1. Adds(acc, line) = [done |-> all, current |-> one]
    BY <1>2, <1>4, <1>5 DEF Adds
  <2>2. Adds(acc, line).done = all /\ Adds(acc, line).current = one
    BY <2>1
  <2>3. ASSUME NEW i \in 1..Len(all) PROVE Size(all[i]) <= Budget
    <3>1. /\ Len(all) = Len(done) + 1 /\ all[Len(done) + 1] = current /\ Len(done) \in Nat
          /\ \A j \in 1..Len(done) : all[j] = done[j]
      BY <1>4, AppendProperties
    <3>2. i = Len(done) + 1 \/ i \in 1..Len(done)
      BY <3>1
    <3> QED BY <1>2, <3>1, <3>2 DEF Within
  <2> QED BY <1>3, <1>4, <2>2, <2>3 DEF Within
<1>6. CASE ~Splits(acc, line)
  <2>1. Adds(acc, line) = [done |-> done, current |-> more]
    <3>1. Adds(acc, line) = [acc EXCEPT !.current = more]
      BY <1>2, <1>4, <1>6 DEF Adds
    <3> QED BY <1>1, <3>1
  <2>2. Adds(acc, line).done = done /\ Adds(acc, line).current = more
    BY <2>1
  <2>3. Size(more) <= Budget
    <3>1. CASE current = << >>
      <4>1. more = <<line>>
        BY <1>4, <3>1
      <4> QED BY <1>3, <4>1
    <3>2. CASE ~(Size(current) + line.size > Budget)
      <4>1. Budget \in Int
        BY DeliveryAssumption DEF Budget
      <4> QED BY <1>3, <1>4, <3>2, <4>1
    <3> QED BY <1>2, <1>6, <3>1, <3>2 DEF Splits
  <2> QED BY <1>2, <2>2, <2>3 DEF Within
<1> QED
  BY <1>5, <1>6

(* The segments of a diff end as what each line leaves to the next: with   *)
(* what holds at first and stays.                                          *)
LEMMA SegmentsEnd ==
    ASSUME NEW E, NEW lines \in Seq(E), NEW T, [done |-> << >>, current |-> << >>] \in T,
           \A i \in 1..Len(lines), x \in T : Adds(x, lines[i]) \in T
    PROVE  \/ Segments(lines) = <<lines>> /\ Size(lines) <= Budget
           \/ \E x \in T : Segments(lines) = Append(x.done, x.current)
<1> DEFINE n == Len(lines)
           base == [done |-> << >>, current |-> << >>]
           step == [x \in (1..n) \X T |-> Adds(x[2], lines[x[1]])]
<1>0. n \in Nat /\ DOMAIN lines = 1..n /\ base \in T /\ \A i \in 1..n, x \in T : Adds(x, lines[i]) \in T
  OBVIOUS
<1> HIDE DEF n, base
<1>3. step \in [(1..n) \X T -> T]
  BY <1>0
<1>4. \A i \in 1..n, x \in T : step[<<i, x>>] = Adds(x, lines[i])
  OBVIOUS
<1> HIDE DEF step
<1>5. PICK f \in [SUBSET (1..n) -> T] : Recursive(f, n, base, step)
  BY <1>0, <1>3, Recursion
<1>6. ASSUME NEW S \in SUBSET (1..n), S # {}
      PROVE  Max(S) \in 1..n /\ S \ {Max(S)} \in SUBSET (1..n)
  BY <1>0, <1>6, Greatest
<1>7. f = [S \in SUBSET DOMAIN lines |-> IF S = {} THEN base ELSE Adds(f[S \ {Max(S)}], lines[Max(S)])]
  BY <1>0, <1>4, <1>5, <1>6 DEF Recursive
<1>8. PICK g : /\ g = [S \in SUBSET DOMAIN lines |-> IF S = {} THEN base ELSE Adds(g[S \ {Max(S)}], lines[Max(S)])]
               /\ Segments(lines) = IF Size(lines) <= Budget THEN <<lines>>
                                    ELSE Append(g[DOMAIN lines].done, g[DOMAIN lines].current)
  <2> DEFINE G == CHOOSE iter : iter = [S \in SUBSET DOMAIN lines |->
                     IF S = {} THEN base ELSE Adds(iter[S \ {Max(S)}], lines[Max(S)])]
  <2>1. G = [S \in SUBSET DOMAIN lines |-> IF S = {} THEN base ELSE Adds(G[S \ {Max(S)}], lines[Max(S)])]
    BY <1>7, Zenon
  <2>2. Segments(lines) = IF Size(lines) <= Budget THEN <<lines>>
                          ELSE Append(G[DOMAIN lines].done, G[DOMAIN lines].current)
    BY DEF Segments, FoldLeft, MapThenFoldSet, Adds, Splits, base
  <2> HIDE DEF G
  <2> QED BY <2>1, <2>2
<1>9. g[{}] = base
  BY <1>8
<1>10. ASSUME NEW S \in SUBSET (1..n), S # {}, g[S \ {Max(S)}] \in T
       PROVE  g[S] = step[<<Max(S), g[S \ {Max(S)}]>>]
  <2>1. Max(S) \in 1..n
    BY <1>6, <1>10
  <2>2. g[S] = Adds(g[S \ {Max(S)}], lines[Max(S)])
    BY <1>0, <1>8, <1>10
  <2> QED BY <1>4, <1>10, <2>1, <2>2
<1>11. PICK acc \in [0..n -> T] : acc[n] = g[1..n]
  <2>1. Chained(n, T, base, step, g[1..n])
    BY <1>0, <1>3, <1>9, <1>10, Chain
  <2> QED BY <2>1 DEF Chained
<1>12. acc[n] \in T
  BY <1>0
<1> QED
  BY <1>0, <1>8, <1>11, <1>12

(* A preview that is sent as text fits: when no line alone is over the     *)
(* budget no part is (splitCanonicalDiff, planPreviewDelivery), for any    *)
(* diff, limit and reserve.                                                *)
THEOREM PartsFit ==
    ASSUME NEW lines \in Diffs, AsText(lines)
    PROVE  \A i \in 1..Len(Segments(lines)) : Size(Segments(lines)[i]) <= Budget
<1>a. lines \in Seq(Line) /\ lines # << >>
  BY DEF Diffs, Line
<1>b. Budget \in Int /\ Budget >= 0
  <2>1. 1 \in DOMAIN lines /\ lines[1] \in Line
    BY <1>a
  <2>2. lines[1].size <= Budget /\ lines[1].size \in Nat
    BY <2>1 DEF AsText, Line
  <2>3. Budget \in Int
    BY DeliveryAssumption DEF Budget
  <2> QED BY <2>2, <2>3
<1> DEFINE T == {acc \in Partial(Line) : Within(acc)}
<1>1. ASSUME NEW i \in 1..Len(lines), NEW x \in T PROVE Adds(x, lines[i]) \in T
  <2>1. lines[i] \in Line /\ i \in DOMAIN lines
    BY <1>a
  <2>2. lines[i].size <= Budget
    BY <2>1 DEF AsText
  <2>3. x \in Partial(Line) /\ Within(x)
    OBVIOUS
  <2>4. Adds(x, lines[i]) \in Partial(Line) /\ Within(Adds(x, lines[i]))
    BY <2>1, <2>2, <2>3, AddsOne, AddsWithin
  <2> QED BY <2>4
<1>2. [done |-> << >>, current |-> << >>] \in T
  <2>1. PICK x : x = [done |-> << >>, current |-> << >>]
    OBVIOUS
  <2>2. x.done = << >> /\ x.current = << >> /\ x \in Partial(Line)
    BY <2>1 DEF Partial
  <2>3. Within(x)
    BY <1>b, <2>2, SizeOfFew DEF Within
  <2> QED BY <2>1, <2>2, <2>3
<1>3. ASSUME NEW x \in T
      PROVE  \A i \in 1..Len(Append(x.done, x.current)) : Size(Append(x.done, x.current)[i]) <= Budget
  <2>1. Within(x) /\ x \in Partial(Line)
    OBVIOUS
  <2>2. PICK done \in Seq(Seq(Line)), current \in Seq(Line) : done = x.done /\ current = x.current
    BY <2>1 DEF Partial
  <2>a. PICK all : all = Append(done, current)
    OBVIOUS
  <2>3. /\ all = Append(done, current) /\ Len(all) = Len(done) + 1 /\ Len(done) \in Nat
        /\ all[Len(done) + 1] = current /\ \A j \in 1..Len(done) : all[j] = done[j]
    BY <2>a, AppendProperties
  <2>4. \A i \in 1..Len(all) : i = Len(done) + 1 \/ i \in 1..Len(done)
    BY <2>3
  <2>5. \A i \in 1..Len(all) : Size(all[i]) <= Budget
    BY <2>1, <2>2, <2>3, <2>4 DEF Within
  <2> QED BY <2>2, <2>3, <2>5
<1>4. CASE Segments(lines) = <<lines>> /\ Size(lines) <= Budget
  <2>1. Len(<<lines>>) = 1 /\ <<lines>>[1] = lines
    OBVIOUS
  <2> QED BY <1>4, <2>1
<1> HIDE DEF T
<1> QED
  BY <1>a, <1>1, <1>2, <1>3, <1>4, SegmentsEnd


-----------------------------------------------------------------------------
(* What a channel shows.                                                   *)

Symbols == {"x", "nl", "sp"}
IsReply(r) == (r.kind = "text" /\ r.body \in Texts) \/ (r.kind = "preview" /\ r.body \in Diffs)
Elements(r) == IF r.kind = "text" THEN Symbols ELSE Line
KindOf(r) == IF r.kind = "text" THEN "chunk" ELSE "part"

(* A piece has what it is made of.                                         *)
LEMMA PieceIs ==
    ASSUME NEW E, NEW kind \in {"chunk", "header", "part", "file"}, NEW content \in Seq(E),
           NEW last \in BOOLEAN
    PROVE  /\ Piece(kind, content, last) \in PieceOf(E)
           /\ Piece(kind, content, last).kind = kind
           /\ Piece(kind, content, last).content = content
           /\ last => Piece(kind, content, last).last
  BY DEF Piece, PieceOf

(* What is sent of a reply, all of it, says the reply and no file is in it. *)
LEMMA OutgoingIs ==
    ASSUME NEW r, IsReply(r)
    PROVE  /\ r.body \in Seq(Elements(r))
           /\ Outgoing(r) \in Seq(PieceOf(Elements(r))) /\ Len(Outgoing(r)) > 0
           /\ \A i \in 1..Len(Outgoing(r)) : Outgoing(r)[i].kind # "file"
           /\ Contents(Outgoing(r), KindOf(r)) = r.body
           /\ r.kind = "preview" => Outgoing(r)[Len(Outgoing(r))].last
<1>1. CASE r.kind = "text" /\ r.body \in Texts
  <2>1. PICK text \in Seq(Symbols) : text = r.body /\ text # << >>
    BY <1>1 DEF Texts, Symbols
  <2>2. ChunkText(text) \in Seq(Seq(Symbols)) /\ Joins(ChunkText(text), Symbols, text)
    BY ChunksJoin
  <2>3. PICK c \in Seq(Seq(Symbols)) : c = ChunkText(text)
    BY <2>2
  <2>4. PICK n \in Nat : n = Len(c) /\ DOMAIN c = 1..n
    OBVIOUS
  <2> DEFINE out == [i \in 1..n |-> Piece("chunk", c[i], i = n)]
  <2>5. Outgoing(r) = out
    BY <1>1, <2>1, <2>3, <2>4 DEF Outgoing
  <2>6. \A i \in 1..n : out[i] \in PieceOf(Symbols) /\ out[i].kind = "chunk" /\ out[i].content = c[i]
    <3> TAKE i \in 1..n
    <3>1. c[i] \in Seq(Symbols)
      BY <2>4
    <3>2. PICK last \in BOOLEAN : last = (i = n)
      OBVIOUS
    <3>3. out[i] = Piece("chunk", c[i], last)
      BY <3>2
    <3> HIDE DEF out
    <3> QED BY <3>1, <3>3, PieceIs
  <2>7. out \in Seq(PieceOf(Symbols)) /\ Len(out) = n
    <3>1. out = [i \in 1..n |-> out[i]]
      OBVIOUS
    <3> HIDE DEF out
    <3>2. out \in [1..n -> PieceOf(Symbols)]
      BY <2>6, <3>1
    <3> QED BY <3>2
  <2> HIDE DEF out
  <2>8. Contents(out, "chunk") = text
    BY <2>2, <2>3, <2>4, <2>6, <2>7, PiecesJoin
  <2>9. n > 0
    <3> SUFFICES ASSUME n = 0 PROVE FALSE
      OBVIOUS
    <3>1. PICK acc : acc[0] = << >> /\ acc[n] = text
      BY <2>2, <2>3, <2>4 DEF Joins
    <3> QED BY <2>1, <3>1
  <2>10. Elements(r) = Symbols /\ KindOf(r) = "chunk" /\ r.kind # "preview"
    BY <1>1 DEF Elements, KindOf
  <2> QED BY <2>1, <2>5, <2>6, <2>7, <2>8, <2>9, <2>10
<1>2. CASE r.kind = "preview" /\ r.body \in Diffs
  <2>1. PICK lines \in Seq(Line) : lines = r.body
    BY <1>2 DEF Diffs, Line
  <2>2. /\ Segments(lines) \in Seq(Seq(Line)) /\ Len(Segments(lines)) > 0
        /\ Joins(Segments(lines), Line, lines)
    BY SegmentsJoin
  <2>3. PICK c \in Seq(Seq(Line)) : c = Segments(lines)
    BY <2>2
  <2>4. PICK n \in Nat : n = Len(c) /\ DOMAIN c = 1..n /\ n > 0
    BY <2>2, <2>3
  <2> DEFINE parts == [i \in 1..n |-> Piece("part", c[i], i = n)]
             header == Piece("header", << >>, FALSE)
             out == <<header>> \o parts
  <2>5. Outgoing(r) = out
    BY <1>2, <2>1, <2>3, <2>4 DEF Outgoing
  <2>6. \A i \in 1..n : parts[i] \in PieceOf(Line) /\ parts[i].kind = "part" /\ parts[i].content = c[i]
    <3> TAKE i \in 1..n
    <3>1. c[i] \in Seq(Line)
      BY <2>4
    <3>2. PICK last \in BOOLEAN : last = (i = n)
      OBVIOUS
    <3>3. parts[i] = Piece("part", c[i], last)
      BY <3>2
    <3> HIDE DEF parts
    <3> QED BY <3>1, <3>3, PieceIs
  <2>7. parts[n].last
    <3>1. n \in 1..n /\ c[n] \in Seq(Line)
      BY <2>4
    <3>2. PICK last \in BOOLEAN : last = (n = n) /\ last
      OBVIOUS
    <3>3. parts[n] = Piece("part", c[n], last)
      BY <3>1, <3>2
    <3>4. Piece("part", c[n], last).last
      BY <3>1, <3>2, PieceIs
    <3> HIDE DEF parts
    <3> QED BY <3>3, <3>4, Zenon
  <2>8. parts \in Seq(PieceOf(Line)) /\ Len(parts) = n
    <3>1. parts = [i \in 1..n |-> parts[i]]
      OBVIOUS
    <3> HIDE DEF parts
    <3>2. parts \in [1..n -> PieceOf(Line)]
      BY <2>6, <3>1
    <3> QED BY <3>2
  <2>9. header \in PieceOf(Line) /\ header.kind = "header"
    <3>0. PICK none \in Seq(Line) : none = << >>
      BY EmptySeq
    <3>1. PICK last \in BOOLEAN : last = FALSE
      BY Zenon
    <3>2. Piece("header", none, last) \in PieceOf(Line) /\ Piece("header", none, last).kind = "header"
      BY PieceIs
    <3>3. header = Piece("header", none, last)
      BY <3>0, <3>1, Zenon
    <3> HIDE DEF header
    <3> QED BY <3>2, <3>3
  <2> HIDE DEF parts, header
  <2>10. /\ out \in Seq(PieceOf(Line)) /\ Len(out) = n + 1 /\ out[1] = header
         /\ \A i \in 1..n : out[i + 1] = parts[i]
    BY <2>8, <2>9
  <2> HIDE DEF out
  <2>11. Contents(out, "part") = lines
    <3>1. out[1].kind # "part"
      BY <2>9, <2>10
    <3>2. \A i \in 1..Len(c) : out[i + 1].kind = "part" /\ out[i + 1].content = c[i]
      BY <2>4, <2>6, <2>10
    <3>3. Len(out) = Len(c) + 1 /\ Joins(c, Line, lines) /\ out \in Seq(PieceOf(Line))
      BY <2>2, <2>3, <2>4, <2>10
    <3> QED BY <3>1, <3>2, <3>3, HeadedPiecesJoin
  <2>12. \A i \in 1..(n + 1) : out[i].kind # "file"
    <3> TAKE i \in 1..(n + 1)
    <3>1. CASE i = 1
      BY <2>9, <2>10, <3>1
    <3>2. CASE i # 1
      <4>1. i - 1 \in 1..n /\ (i - 1) + 1 = i
        BY <2>4, <3>2
      <4> QED BY <2>6, <2>10, <4>1
    <3> QED BY <3>1, <3>2
  <2>13. out[n + 1].last /\ n + 1 > 0
    <3>1. n \in 1..n
      BY <2>4
    <3> QED BY <2>4, <2>7, <2>10, <3>1
  <2>14. Elements(r) = Line /\ KindOf(r) = "part"
    BY <1>2 DEF Elements, KindOf
  <2> QED BY <2>1, <2>5, <2>10, <2>11, <2>12, <2>13, <2>14
<1> QED
  BY <1>1, <1>2 DEF IsReply

(* What has been shown of it says the beginning.                           *)
LEMMA ShownSays ==
    ASSUME NEW E, NEW ps \in Seq(PieceOf(E)), NEW kind, NEW k \in 0..Len(ps), NEW x \in PieceOf(E), x.kind # kind
    PROVE  /\ SubSeq(ps, 1, k) \in Seq(PieceOf(E)) /\ Len(SubSeq(ps, 1, k)) = k
           /\ \A i \in 1..k : SubSeq(ps, 1, k)[i] = ps[i]
           /\ IsPrefix(Contents(SubSeq(ps, 1, k), kind), Contents(ps, kind))
           /\ Contents(Append(SubSeq(ps, 1, k), x), kind) = Contents(SubSeq(ps, 1, k), kind)
<1> DEFINE p == SubSeq(ps, 1, k)
           l == Append(p, x)
<1>1. k \in Nat /\ k <= Len(ps) /\ Len(ps) \in Nat
  OBVIOUS
<1>2. p \in Seq(PieceOf(E)) /\ Len(p) = k /\ \A i \in 1..k : p[i] = ps[i]
  <2>1. \A i \in 1..k : ps[i] \in PieceOf(E)
    BY <1>1, ElementOfSeq
  <2>2. 1 \in Int /\ k \in Int
    BY <1>1
  <2>3. /\ p \in Seq(PieceOf(E)) /\ Len(p) = IF 1 <= k THEN k - 1 + 1 ELSE 0
        /\ \A i \in 1..(k - 1 + 1) : p[i] = ps[1 + i - 1]
    BY <2>1, <2>2, SubSeqProperties
  <2>4. k - 1 + 1 = k /\ \A i \in 1..k : 1 + i - 1 = i
    BY <1>1
  <2> HIDE DEF p
  <2> QED BY <1>1, <2>3, <2>4
<1> HIDE DEF p
<1>3. l \in Seq(PieceOf(E)) /\ Len(l) = k + 1 /\ l[k + 1] = x /\ \A i \in 1..k : l[i] = p[i]
  BY <1>2, AppendProperties
<1> HIDE DEF l
<1>4. PICK a : Joined(ps, kind, E, a) /\ Contents(ps, kind) = a[Len(ps)]
  BY ContentsJoined
<1>5. PICK b : Joined(p, kind, E, b) /\ Contents(p, kind) = b[Len(p)]
  BY <1>2, ContentsJoined
<1>6. PICK c : Joined(l, kind, E, c) /\ Contents(l, kind) = c[Len(l)]
  BY <1>3, ContentsJoined
<1>7. b[k] = a[k]
  <2>1. \A i \in 1..k : p[i].kind = ps[i].kind /\ p[i].content = ps[i].content
    BY <1>2
  <2>2. Len(p) \in Nat /\ k <= Len(p)
    BY <1>1, <1>2
  <2> QED BY <1>1, <1>4, <1>5, <2>1, <2>2, JoinedAgree
<1>8. c[k] = b[k]
  <2>1. \A i \in 1..k : l[i].kind = p[i].kind /\ l[i].content = p[i].content
    BY <1>3
  <2>2. Len(p) \in Nat /\ k <= Len(p) /\ Len(l) \in Nat /\ k <= Len(l)
    BY <1>1, <1>2, <1>3
  <2> QED BY <1>1, <1>5, <1>6, <2>1, <2>2, JoinedAgree
<1>9. c[k + 1] = c[k]
  <2>1. k + 1 \in 1..Len(l) /\ (k + 1) - 1 = k
    BY <1>1, <1>3
  <2> QED BY <1>3, <1>6, <2>1 DEF Joined
<1>10. IsPrefix(a[k], a[Len(ps)])
  BY <1>4, JoinedGrows
<1>11. Contents(p, kind) = a[k] /\ Contents(l, kind) = Contents(p, kind)
  BY <1>2, <1>3, <1>5, <1>6, <1>7, <1>8, <1>9
<1> QED
  BY <1>2, <1>4, <1>10, <1>11 DEF p, l


(* The part of a reply that has been shown, and a file after it.           *)
Begun(sn, r) == \E k \in 0..Len(Outgoing(r)) : sn = SubSeq(Outgoing(r), 1, k)
FileOf(r) == Piece("file", r.body, TRUE)
WithFile(sn, r) ==
    \E k \in 0..Len(Outgoing(r)) : sn = Append(SubSeq(Outgoing(r), 1, k), FileOf(r))

(* Where a delivery stands: what the channel shows is a beginning of the   *)
(* reply, with what is still to be sent its rest; all of it for a verdict  *)
(* that says so; a file comes last and once.                               *)
Delivered(d, sn) ==
    /\ d = [reply |-> d.reply, at |-> d.at, verdict |-> d.verdict, todo |-> d.todo]
    /\ IsReply(d.reply)
    /\ \/ /\ d.at = "pieces" /\ d.verdict = None
          /\ \E k \in 0..(Len(Outgoing(d.reply)) - 1) :
                sn = SubSeq(Outgoing(d.reply), 1, k) /\ d.todo = From(Outgoing(d.reply), k)
       \/ d.at = "file" /\ d.verdict = None /\ d.reply.kind = "preview" /\ Begun(sn, d.reply)
       \/ d.at = "report" /\ d.verdict \in {"SKIPPED", "PARTIAL", "DELIVERY_FAILED"} /\ Begun(sn, d.reply)
       \/ /\ d.at = "report"
          /\ \/ d.verdict = "COMPLETE" /\ d.reply.kind = "text"
             \/ d.verdict = "SUCCESS_TEXT_COMPLETE" /\ d.reply.kind = "preview"
          /\ sn = Outgoing(d.reply)
       \/ /\ d.at = "report" /\ d.reply.kind = "preview"
          /\ d.verdict \in {"SUCCESS_ATTACHMENT_COMPLETE", "PARTIAL_TEXT_ATTACHMENT_COMPLETE", "DELIVERY_FAILED"}
          /\ WithFile(sn, d.reply)

(* What ReaderHasIt says of one delivery.                                  *)
Reads(d, sn) ==
    /\ d.verdict = "COMPLETE" => Contents(sn, "chunk") = d.reply.body
    /\ d.verdict = "SUCCESS_TEXT_COMPLETE" => Contents(sn, "part") = d.reply.body /\ Last(sn).last
    /\ d.verdict \in {"SUCCESS_ATTACHMENT_COMPLETE", "PARTIAL_TEXT_ATTACHMENT_COMPLETE"} =>
          Piece("file", d.reply.body, TRUE) \in ToSet(sn)
    /\ IsPrefix(Contents(sn, IF d.reply.kind = "text" THEN "chunk" ELSE "part"), d.reply.body)
    /\ Cardinality({i \in DOMAIN sn : sn[i].kind = "file"}) <= 1

(* Said of every delivery, this is ReaderHasIt.                            *)
LEMMA ReadsIsReaderHasIt ==
    ASSUME \A m \in Messages : Sending(m) => Reads(deliveries[m], seen[m])
    PROVE  ReaderHasIt
  BY Zenon DEF Reads, ReaderHasIt

(* A delivery that stands well reads well.                                 *)
LEMMA DeliveredReads ==
    ASSUME NEW d, NEW sn, Delivered(d, sn)
    PROVE  Reads(d, sn)
<1>1. PICK r, out, E, kind :
         r = d.reply /\ out = Outgoing(r) /\ E = Elements(r) /\ kind = KindOf(r)
  OBVIOUS
<1>2. /\ IsReply(r) /\ r.body \in Seq(E) /\ out \in Seq(PieceOf(E)) /\ Len(out) \in Nat /\ Len(out) > 0
      /\ \A i \in 1..Len(out) : out[i].kind # "file"
      /\ Contents(out, kind) = r.body
      /\ r.kind = "preview" => out[Len(out)].last
      /\ kind = IF r.kind = "text" THEN "chunk" ELSE "part"
  <2>1. IsReply(r)
    BY <1>1 DEF Delivered
  <2>2. /\ r.body \in Seq(E) /\ out \in Seq(PieceOf(E)) /\ Len(out) > 0
        /\ \A i \in 1..Len(out) : out[i].kind # "file"
        /\ Contents(out, kind) = r.body
        /\ r.kind = "preview" => out[Len(out)].last
    BY <1>1, <2>1, OutgoingIs
  <2> QED BY <1>1, <2>1, <2>2 DEF KindOf
<1>3. PICK file : file = FileOf(r) /\ file \in PieceOf(E) /\ file.kind = "file" /\ file.kind # kind
  <2>1. PICK body \in Seq(E) : body = r.body
    BY <1>2
  <2>2. PICK last \in BOOLEAN : last = TRUE
    BY Zenon
  <2>3. Piece("file", body, last) \in PieceOf(E) /\ Piece("file", body, last).kind = "file"
    BY PieceIs
  <2>4. FileOf(r) = Piece("file", body, last)
    BY <2>1, <2>2, Zenon DEF FileOf
  <2> QED BY <1>2, <2>3, <2>4
<1>4. ASSUME NEW k \in 0..Len(out), sn = SubSeq(out, 1, k)
      PROVE  IsPrefix(Contents(sn, kind), r.body) /\ Cardinality({i \in DOMAIN sn : sn[i].kind = "file"}) <= 1
  <2>1. /\ sn \in Seq(PieceOf(E)) /\ Len(sn) = k /\ (\A i \in 1..k : sn[i] = out[i])
        /\ IsPrefix(Contents(sn, kind), Contents(out, kind))
    BY <1>2, <1>3, <1>4, ShownSays
  <2>2. DOMAIN sn = 1..k /\ \A i \in 1..k : i \in 1..Len(out)
    BY <2>1, <1>2
  <2>3. {i \in DOMAIN sn : sn[i].kind = "file"} = {}
    BY <1>2, <2>1, <2>2
  <2>4. Cardinality({i \in DOMAIN sn : sn[i].kind = "file"}) <= 1
    <3>1. PICK S : S = {i \in DOMAIN sn : sn[i].kind = "file"}
      OBVIOUS
    <3>2. S = {} /\ Cardinality(S) = 0
      BY <2>3, <3>1, FS_EmptySet
    <3> QED BY <3>1, <3>2
  <2>5. IsPrefix(Contents(sn, kind), r.body)
    BY <1>2, <2>1
  <2> QED BY <2>4, <2>5, Zenon
<1>5. ASSUME NEW k \in 0..Len(out), sn = Append(SubSeq(out, 1, k), file)
      PROVE  /\ IsPrefix(Contents(sn, kind), r.body) /\ Cardinality({i \in DOMAIN sn : sn[i].kind = "file"}) <= 1
             /\ file \in ToSet(sn)
  <2>1. PICK p : p = SubSeq(out, 1, k)
    OBVIOUS
  <2>2. /\ p \in Seq(PieceOf(E)) /\ Len(p) = k /\ (\A i \in 1..k : p[i] = out[i])
        /\ IsPrefix(Contents(p, kind), Contents(out, kind)) /\ Contents(Append(p, file), kind) = Contents(p, kind)
    BY <1>2, <1>3, <2>1, ShownSays
  <2>3. /\ sn \in Seq(PieceOf(E)) /\ Len(sn) = k + 1 /\ sn[k + 1] = file
        /\ \A i \in 1..k : sn[i] = p[i]
    BY <1>3, <1>5, <2>1, <2>2, AppendProperties
  <2>4. DOMAIN sn = 1..(k + 1) /\ k \in Nat /\ \A i \in 1..k : i \in 1..Len(out)
    BY <1>2, <2>3
  <2>5. {i \in DOMAIN sn : sn[i].kind = "file"} \subseteq {k + 1}
    <3> SUFFICES ASSUME NEW i \in 1..(k + 1), sn[i].kind = "file" PROVE i = k + 1
      BY <2>4
    <3>1. i \in 1..k => sn[i].kind # "file"
      BY <1>2, <2>2, <2>3, <2>4
    <3> QED BY <2>4, <3>1
  <2>6. Cardinality({i \in DOMAIN sn : sn[i].kind = "file"}) <= 1
    <3>1. IsFiniteSet({k + 1}) /\ Cardinality({k + 1}) = 1
      BY FS_Singleton
    <3>2. PICK S : S = {i \in DOMAIN sn : sn[i].kind = "file"}
      OBVIOUS
    <3>3. Cardinality(S) <= Cardinality({k + 1})
      BY <2>5, <3>1, <3>2, FS_Subset
    <3> QED BY <3>1, <3>2, <3>3
  <2>7. file \in ToSet(sn)
    <3>1. k + 1 \in DOMAIN sn
      BY <2>4
    <3> QED BY <2>3, <3>1 DEF ToSet
  <2> QED BY <1>2, <1>5, <2>1, <2>2, <2>6, <2>7
<1>6. None \notin {"COMPLETE", "SUCCESS_TEXT_COMPLETE",
                   "SUCCESS_ATTACHMENT_COMPLETE", "PARTIAL_TEXT_ATTACHMENT_COMPLETE"}
  BY DeliveryAssumption
<1>7. SubSeq(out, 1, Len(out)) = out /\ Len(out) \in 0..Len(out)
  BY <1>2, SubSeqFull
<1>8. CASE d.at = "pieces" /\ d.verdict = None /\ \E k \in 0..(Len(out) - 1) : sn = SubSeq(out, 1, k)
  <2>1. PICK k \in 0..(Len(out) - 1) : sn = SubSeq(out, 1, k)
    BY <1>8
  <2>2. k \in 0..Len(out)
    BY <1>2
  <2> QED BY <1>1, <1>2, <1>4, <1>6, <1>8, <2>1, <2>2 DEF Reads
<1>9. CASE d.verdict \in {None, "SKIPPED", "PARTIAL", "DELIVERY_FAILED"} /\ Begun(sn, r)
  <2>1. PICK k \in 0..Len(out) : sn = SubSeq(out, 1, k)
    BY <1>1, <1>9 DEF Begun
  <2> QED BY <1>1, <1>2, <1>4, <1>6, <1>9, <2>1 DEF Reads
<1>10. CASE /\ \/ d.verdict = "COMPLETE" /\ r.kind = "text"
               \/ d.verdict = "SUCCESS_TEXT_COMPLETE" /\ r.kind = "preview"
            /\ sn = out
  <2>1. IsPrefix(Contents(sn, kind), r.body) /\ Cardinality({i \in DOMAIN sn : sn[i].kind = "file"}) <= 1
    <3>1. PICK k \in 0..Len(out) : k = Len(out) /\ sn = SubSeq(out, 1, k)
      BY <1>7, <1>10
    <3> QED BY <1>4, <3>1, Zenon
  <2>2. Contents(sn, kind) = r.body
    BY <1>2, <1>10
  <2>3. CASE r.kind = "text"
    <3>1. kind = "chunk" /\ d.verdict = "COMPLETE"
      BY <1>2, <1>10, <2>3
    <3> QED BY <1>1, <2>1, <2>2, <2>3, <3>1 DEF Reads
  <2>4. CASE r.kind = "preview"
    <3>1. kind = "part" /\ d.verdict = "SUCCESS_TEXT_COMPLETE" /\ Last(sn).last
      BY <1>2, <1>10, <2>4 DEF Last
    <3> QED BY <1>1, <2>1, <2>2, <2>4, <3>1 DEF Reads
  <2> QED BY <1>10, <2>3, <2>4
<1>11. CASE /\ d.verdict \in {"SUCCESS_ATTACHMENT_COMPLETE", "PARTIAL_TEXT_ATTACHMENT_COMPLETE", "DELIVERY_FAILED"}
            /\ WithFile(sn, r)
  <2>1. PICK k \in 0..Len(out) : sn = Append(SubSeq(out, 1, k), file)
    BY <1>1, <1>3, <1>11 DEF WithFile
  <2>2. Piece("file", r.body, TRUE) \in ToSet(sn)
    BY <1>3, <1>5, <2>1 DEF FileOf
  <2>3. d.verdict # "COMPLETE" /\ d.verdict # "SUCCESS_TEXT_COMPLETE"
    BY <1>11
  <2> QED BY <1>1, <1>2, <1>5, <2>1, <2>2, <2>3 DEF Reads
<1> QED
  BY <1>1, <1>8, <1>9, <1>10, <1>11 DEF Delivered


(* A new delivery.                                                         *)
LEMMA NewDelivered ==
    ASSUME NEW r, IsReply(r), NEW sendable \in BOOLEAN
    PROVE  Delivered(NewDelivery(r, sendable), << >>)
<1>1. PICK d : d = NewDelivery(r, sendable)
  OBVIOUS
<1>2. /\ d.reply = r /\ d = [reply |-> d.reply, at |-> d.at, verdict |-> d.verdict, todo |-> d.todo]
      /\ \/ d.at = "report" /\ d.verdict = "SKIPPED"
         \/ d.at = "file" /\ d.verdict = None /\ r.kind = "preview"
         \/ d.at = "pieces" /\ d.verdict = None /\ d.todo = Outgoing(r)
  BY <1>1 DEF NewDelivery
<1>3. PICK out, E : out = Outgoing(r) /\ E = Elements(r)
  OBVIOUS
<1>4. out \in Seq(PieceOf(E)) /\ Len(out) \in Nat /\ Len(out) > 0
  <2>1. out \in Seq(PieceOf(E)) /\ Len(out) > 0
    BY <1>3, OutgoingIs
  <2> QED BY <2>1
<1>5. << >> = SubSeq(out, 1, 0) /\ From(out, 0) = out
  <2>1. SubSeq(out, 1, 0) = << >>
    BY SubSeqEmpty
  <2>2. 0 + 1 = 1 /\ SubSeq(out, 1, Len(out)) = out
    BY <1>4, SubSeqFull
  <2> QED BY <2>1, <2>2 DEF From
<1>6. 0 \in 0..(Len(out) - 1) /\ 0 \in 0..Len(out)
  BY <1>4
<1>7. Begun(<< >>, r)
  BY <1>3, <1>5, <1>6 DEF Begun
<1>8. CASE d.at = "pieces" /\ d.verdict = None /\ d.todo = out
  <2>1. \E k \in 0..(Len(Outgoing(d.reply)) - 1) :
           << >> = SubSeq(Outgoing(d.reply), 1, k) /\ d.todo = From(Outgoing(d.reply), k)
    BY <1>2, <1>3, <1>5, <1>6, <1>8
  <2> QED BY <1>1, <1>2, <1>8, <2>1 DEF Delivered
<1>9. CASE d.at = "report" /\ d.verdict = "SKIPPED"
  BY <1>1, <1>2, <1>7, <1>9 DEF Delivered
<1>10. CASE d.at = "file" /\ d.verdict = None /\ r.kind = "preview"
  BY <1>1, <1>2, <1>7, <1>10 DEF Delivered
<1> QED
  BY <1>2, <1>3, <1>8, <1>9, <1>10

(* The next piece of those still to be sent.                               *)
LEMMA NextPiece ==
    ASSUME NEW P, NEW out \in Seq(P), NEW k \in 0..(Len(out) - 1)
    PROVE  /\ Head(From(out, k)) = out[k + 1] /\ Tail(From(out, k)) = From(out, k + 1)
           /\ Append(SubSeq(out, 1, k), Head(From(out, k))) = SubSeq(out, 1, k + 1)
           /\ From(out, k + 1) = << >> <=> k + 1 = Len(out)
           /\ k \in 0..Len(out) /\ k + 1 \in 0..Len(out)
<1>1. k \in Nat /\ Len(out) \in Nat /\ k + 1 <= Len(out) /\ k + 1 \in 1..Len(out)
      /\ k \in 0..Len(out) /\ k + 1 \in 0..Len(out) /\ Len(out) \in (k + 1)..Len(out) /\ (k + 1) - 1 = k
      /\ 1 \in 1..Len(out) /\ k + 1 \in 1..Len(out)
  OBVIOUS
<1>2. Head(From(out, k)) = out[k + 1] /\ Tail(From(out, k)) = From(out, k + 1)
  BY <1>1, HeadTailOfSubSeq DEF From
<1>3. Append(SubSeq(out, 1, k), out[k + 1]) = SubSeq(out, 1, k + 1)
  <2>1. SubSeq(out, 1, k + 1) = SubSeq(out, 1, (k + 1) - 1) \o <<out[k + 1]>>
    BY <1>1, SubSeqRecursiveSecond
  <2>2. SubSeq(out, 1, k) \in Seq(P)
    <3>1. \A i \in 1..k : out[i] \in P
      BY <1>1, ElementOfSeq
    <3>2. 1 \in Int /\ k \in Int
      BY <1>1
    <3> QED BY <3>1, <3>2, SubSeqProperties
  <2>3. out[k + 1] \in P
    BY <1>1, ElementOfSeq
  <2>4. Append(SubSeq(out, 1, k), out[k + 1]) = SubSeq(out, 1, k) \o <<out[k + 1]>>
    BY <2>2, <2>3, AppendIsConcat
  <2> QED BY <1>1, <2>1, <2>4
<1>4. From(out, k + 1) = << >> <=> k + 1 = Len(out)
  <2>1. From(out, k + 1) \in Seq(P) /\ Len(From(out, k + 1)) = Len(out) - (k + 1)
    BY <1>1, FromProperties
  <2>2. From(out, k + 1) = << >> <=> Len(From(out, k + 1)) = 0
    BY <2>1, EmptySeq
  <2> QED BY <1>1, <2>1, <2>2
<1> QED
  BY <1>1, <1>2, <1>3, <1>4

(* Sending goes on, ends, or fails.                                        *)
LEMMA PieceSentWell ==
    ASSUME NEW m, Delivered(deliveries[m], seen[m]), At(m, "pieces"), NEW sn,
           NEW d, \/ d = PieceSent(m) /\ sn = Append(seen[m], Head(deliveries[m].todo))
                  \/ /\ d = PieceFailed(m)
                     /\ sn = Append(seen[m], Head(deliveries[m].todo)) \/ sn = seen[m]
    PROVE  Delivered(d, sn)
<1>1. PICK old, r, out, E, a, w, todo :
         /\ old = deliveries[m] /\ r = old.reply /\ out = Outgoing(r) /\ E = Elements(r)
         /\ a = old.at /\ w = old.verdict /\ todo = old.todo
  OBVIOUS
<1>r. old = [reply |-> r, at |-> a, verdict |-> w, todo |-> todo]
  BY <1>1 DEF Delivered
<1>2. /\ old = [reply |-> r, at |-> old.at, verdict |-> old.verdict, todo |-> old.todo]
      /\ IsReply(r) /\ old.at = "pieces" /\ old.verdict = None
      /\ \E k \in 0..(Len(out) - 1) : seen[m] = SubSeq(out, 1, k) /\ old.todo = From(out, k)
  BY <1>1 DEF Delivered, At
<1>3. PICK k \in 0..(Len(out) - 1) : seen[m] = SubSeq(out, 1, k) /\ old.todo = From(out, k)
  BY <1>2
<1>4. out \in Seq(PieceOf(E)) /\ Len(out) \in Nat
  <2>1. out \in Seq(PieceOf(E))
    BY <1>1, <1>2, OutgoingIs
  <2> QED BY <2>1
<1>5. /\ Tail(old.todo) = From(out, k + 1)
      /\ Append(seen[m], Head(old.todo)) = SubSeq(out, 1, k + 1)
      /\ From(out, k + 1) = << >> <=> k + 1 = Len(out)
      /\ k \in 0..Len(out) /\ k + 1 \in 0..Len(out)
  BY <1>3, <1>4, NextPiece
<1>6. Begun(seen[m], r) /\ Begun(Append(seen[m], Head(old.todo)), r)
  BY <1>1, <1>3, <1>5 DEF Begun
<1>7. CASE d = PieceSent(m) /\ sn = Append(seen[m], Head(deliveries[m].todo))
  <2>1. PICK rest : rest = Tail(old.todo)
    OBVIOUS
  <2>2. sn = SubSeq(out, 1, k + 1) /\ rest = From(out, k + 1)
    BY <1>1, <1>5, <1>7, <2>1
  <2>3. CASE rest # << >>
    <3>1. d = [reply |-> r, at |-> "pieces", verdict |-> None, todo |-> rest]
      <4>1. d = [old EXCEPT !.todo = rest]
        BY <1>1, <1>7, <2>1, <2>3 DEF PieceSent
      <4>2. a = "pieces" /\ w = None
        BY <1>1, <1>2
      <4> QED BY <1>r, <4>1, <4>2
    <3>2. k + 1 \in 0..(Len(out) - 1)
      BY <1>4, <1>5, <2>2, <2>3
    <3>3. d.reply = r /\ d.at = "pieces" /\ d.verdict = None /\ d.todo = rest
      BY <3>1
    <3>4. \E j \in 0..(Len(Outgoing(d.reply)) - 1) :
             sn = SubSeq(Outgoing(d.reply), 1, j) /\ d.todo = From(Outgoing(d.reply), j)
      BY <1>1, <2>2, <3>2, <3>3
    <3> QED BY <1>2, <3>1, <3>3, <3>4 DEF Delivered
  <2>4. CASE rest = << >>
    <3> DEFINE v == IF r.kind = "text" THEN "COMPLETE" ELSE "SUCCESS_TEXT_COMPLETE"
    <3>1. d = [reply |-> r, at |-> "report", verdict |-> v, todo |-> rest]
      <4>1. d = [old EXCEPT !.todo = rest, !.at = "report", !.verdict = v]
        BY <1>1, <1>7, <2>1, <2>4 DEF PieceSent
      <4> HIDE DEF v
      <4> QED BY <1>r, <4>1
    <3>2. sn = out
      BY <1>4, <1>5, <2>2, <2>4, SubSeqFull
    <3>3. \/ v = "COMPLETE" /\ r.kind = "text"
          \/ v = "SUCCESS_TEXT_COMPLETE" /\ r.kind = "preview"
      BY <1>2 DEF IsReply
    <3> HIDE DEF v
    <3>4. d.reply = r /\ d.at = "report" /\ d.verdict = v /\ d.todo = rest
      BY <3>1
    <3> QED BY <1>1, <1>2, <3>1, <3>2, <3>3, <3>4 DEF Delivered
  <2> QED BY <2>3, <2>4
<1>8. CASE d = PieceFailed(m) /\ Begun(sn, r)
  <2>1. CASE r.kind = "text"
    <3>1. d = [old EXCEPT !.at = "report", !.verdict = "PARTIAL"]
      BY <1>1, <1>8, <2>1 DEF PieceFailed, Ended
    <3>2. d = [reply |-> r, at |-> "report", verdict |-> "PARTIAL", todo |-> todo]
      BY <1>r, <3>1
    <3>3. d.reply = r /\ d.at = "report" /\ d.verdict = "PARTIAL" /\ d.todo = todo
      BY <3>2
    <3> QED BY <1>2, <1>8, <3>2, <3>3 DEF Delivered
  <2>2. CASE r.kind # "text"
    <3>1. d = [old EXCEPT !.at = "file"]
      BY <1>1, <1>8, <2>2 DEF PieceFailed
    <3>w. w = None
      BY <1>1, <1>2
    <3>2. d = [reply |-> r, at |-> "file", verdict |-> None, todo |-> todo]
      BY <1>r, <3>1, <3>w
    <3>3. d.reply = r /\ d.at = "file" /\ d.verdict = None /\ d.todo = todo /\ r.kind = "preview"
      BY <1>2, <2>2, <3>2 DEF IsReply
    <3> QED BY <1>2, <1>8, <3>2, <3>3 DEF Delivered
  <2> QED BY <2>1, <2>2
<1> QED
  BY <1>1, <1>6, <1>7, <1>8

(* The file is sent, or fails, once.                                       *)
LEMMA FileSentWell ==
    ASSUME NEW m, Delivered(deliveries[m], seen[m]), At(m, "file"), NEW sn, NEW file,
           file = FileOf(deliveries[m].reply),
           NEW d, \/ d = FileSent(m) /\ sn = Append(seen[m], file)
                  \/ /\ d = Ended(m, "DELIVERY_FAILED")
                     /\ sn = Append(seen[m], file) \/ sn = seen[m]
    PROVE  Delivered(d, sn)
<1>1. PICK old, r, a, w, todo :
         old = deliveries[m] /\ r = old.reply /\ a = old.at /\ w = old.verdict /\ todo = old.todo
  OBVIOUS
<1>2. /\ old = [reply |-> r, at |-> a, verdict |-> w, todo |-> todo]
      /\ IsReply(r) /\ r.kind = "preview" /\ Begun(seen[m], r)
  BY <1>1 DEF Delivered, At
<1>3. WithFile(Append(seen[m], file), r)
  BY <1>1, <1>2 DEF Begun, WithFile
<1>4. PICK v : /\ v \in {"SUCCESS_ATTACHMENT_COMPLETE", "PARTIAL_TEXT_ATTACHMENT_COMPLETE", "DELIVERY_FAILED"}
               /\ d = [old EXCEPT !.at = "report", !.verdict = v]
               /\ sn = Append(seen[m], file) \/ (v = "DELIVERY_FAILED" /\ sn = seen[m])
  <2>1. CASE d = FileSent(m) /\ sn = Append(seen[m], file)
    <3>1. \E v \in {"SUCCESS_ATTACHMENT_COMPLETE", "PARTIAL_TEXT_ATTACHMENT_COMPLETE"} : d = Ended(m, v)
      BY <2>1, Zenon DEF FileSent
    <3> QED BY <1>1, <2>1, <3>1 DEF Ended
  <2>2. CASE d = Ended(m, "DELIVERY_FAILED") /\ (sn = Append(seen[m], file) \/ sn = seen[m])
    BY <1>1, <2>2 DEF Ended
  <2> QED BY <2>1, <2>2
<1>5. d = [reply |-> r, at |-> "report", verdict |-> v, todo |-> todo]
  BY <1>2, <1>4
<1>6. d.reply = r /\ d.at = "report" /\ d.verdict = v /\ d.todo = todo
  BY <1>5
<1> QED
  BY <1>2, <1>3, <1>4, <1>5, <1>6 DEF Delivered



-----------------------------------------------------------------------------
(* One turn and its delivery: what a message asks for can be sent, it is   *)
(* known while the message is handled, and exactly a turn that replied and *)
(* is not over has a delivery, which stands well.                          *)
ToldOne(t, d, sn) ==
    /\ t.asks # None => IsReply(t.asks.body)
    /\ t.at \in {"typing", "handling", "answering"} => t.asks # None
    /\ t.at = "replied" => Delivered(d, sn)
    /\ t.at # "replied" => d = None /\ sn = << >>

DeliveryShape ==
    /\ deliveries = [m \in Messages |-> deliveries[m]]
    /\ seen = [m \in Messages |-> seen[m]]

Told == DeliveryShape /\ \A m \in Messages : ToldOne(turns[m], deliveries[m], seen[m])

(* A step of one message leaves the others as they are.                    *)
LEMMA OneTold ==
    ASSUME Told, NEW m \in Messages, DeliveryShape', ToldOne(turns'[m], deliveries'[m], seen'[m]),
           \A n \in Messages \ {m} :
              turns'[n] = turns[n] /\ deliveries'[n] = deliveries[n] /\ seen'[n] = seen[n]
    PROVE  Told'
<1>1. ASSUME NEW n \in Messages PROVE ToldOne(turns'[n], deliveries'[n], seen'[n])
  <2>1. CASE n = m
    BY <2>1
  <2>2. CASE n # m
    <3>1. ToldOne(turns[n], deliveries[n], seen[n])
      BY DEF Told
    <3> QED BY <2>2, <3>1
  <2> QED BY <2>1, <2>2
<1> QED
  BY <1>1 DEF Told

(* A turn that goes on towards its reply.                                  *)
LEMMA AdvancesTold ==
    ASSUME Told, TurnsWell, NEW m \in Messages, NEW u, Turns(m, u), UNCHANGED <<deliveries, seen>>,
           turns[m].at # "replied", turns[m].asks # None,
           u.asks = turns[m].asks, u.at \in {"typing", "handling", "answering"}
    PROVE  Told'
<1>1. turns = [n \in Messages |-> turns[n]] /\ turns' = [turns EXCEPT ![m] = u]
  BY DEF TurnsWell, Turns
<1>2. turns'[m] = u /\ \A n \in Messages \ {m} : turns'[n] = turns[n]
  BY <1>1
<1>3. ToldOne(turns[m], deliveries[m], seen[m]) /\ DeliveryShape
  BY DEF Told
<1>4. deliveries'[m] = None /\ seen'[m] = << >>
  BY <1>3 DEF ToldOne
<1>5. ToldOne(u, deliveries'[m], seen'[m])
  BY <1>3, <1>4 DEF ToldOne
<1>6. DeliveryShape'
  BY <1>3 DEF DeliveryShape
<1> QED
  BY <1>2, <1>5, <1>6, OneTold

(* Every reply can be sent.                                                *)
LEMMA RepliesAreReplies ==
    ASSUME NEW m, NEW outcome, IsReply(turns[m].asks.body)
    PROVE  IsReply(Reply(m, outcome))
<1>1. CASE outcome \in {"answer", "local"}
  BY <1>1 DEF Reply
<1>2. CASE outcome \notin {"answer", "local"}
  <2>1. PICK r : r = [kind |-> "text", body |-> <<"x">>]
    OBVIOUS
  <2>2. Reply(m, outcome) = r
    BY <1>2, <2>1 DEF Reply
  <2>3. <<"x">> \in Texts
    BY DEF Texts
  <2>4. r.kind = "text" /\ r.body \in Texts
    BY <2>1, <2>3
  <2> QED BY <2>2, <2>4 DEF IsReply
<1> QED
  BY <1>1, <1>2

(* A turn that returns starts its delivery.                                *)
LEMMA ReturnsTold ==
    ASSUME Told, TurnsWell, NEW m \in Messages, turns[m].at \in {"handling", "answering"},
           NEW t, DOMAIN t = Fields, t.asks = turns[m].asks, NEW outcome, Returns(m, t, outcome)
    PROVE  Told'
<1> DEFINE u == [t EXCEPT !.at = "replied", !.outcome = outcome, !.context = None, !.before = << >>]
<1>1. turns = [n \in Messages |-> turns[n]] /\ turns' = [turns EXCEPT ![m] = u]
  BY DEF TurnsWell, Returns, Turns
<1>2. u.at = "replied" /\ u.asks = t.asks
  BY DEF Fields
<1> HIDE DEF u
<1>3. turns'[m] = u /\ \A n \in Messages \ {m} : turns'[n] = turns[n]
  BY <1>1
<1>4. ToldOne(turns[m], deliveries[m], seen[m]) /\ DeliveryShape
  BY DEF Told
<1>5. IsReply(turns[m].asks.body) /\ turns[m].asks # None /\ seen[m] = << >>
  BY <1>4 DEF ToldOne
<1>6. PICK r : r = Reply(m, outcome) /\ IsReply(r)
  BY <1>5, RepliesAreReplies
<1>7. PICK sendable \in BOOLEAN :
         deliveries' = [deliveries EXCEPT ![m] = NewDelivery(r, sendable)] /\ seen' = seen
  BY <1>6 DEF Returns, SendMessage
<1>8. PICK d : d = NewDelivery(r, sendable) /\ Delivered(d, << >>)
  BY <1>6, NewDelivered
<1>9. /\ deliveries'[m] = d /\ seen'[m] = << >>
      /\ \A n \in Messages \ {m} : deliveries'[n] = deliveries[n] /\ seen'[n] = seen[n]
      /\ DeliveryShape'
  <2>1. deliveries = [n \in Messages |-> deliveries[n]] /\ deliveries' = [deliveries EXCEPT ![m] = d]
    BY <1>4, <1>7, <1>8 DEF DeliveryShape
  <2>2. seen' = [n \in Messages |-> seen'[n]]
    BY <1>4, <1>7 DEF DeliveryShape
  <2> QED BY <1>5, <1>7, <2>1, <2>2 DEF DeliveryShape
<1>10. ToldOne(turns'[m], deliveries'[m], seen'[m])
  <2>1. turns'[m].at = "replied" /\ (turns'[m].asks = turns[m].asks)
    BY <1>2, <1>3
  <2> QED BY <1>5, <1>8, <1>9, <2>1 DEF ToldOne
<1> QED
  BY <1>3, <1>9, <1>10, OneTold

(* So does every failure.                                                  *)
LEMMA CaughtTold ==
    ASSUME Told, TurnsWell, NEW m \in Messages, turns[m].at \in {"handling", "answering"},
           NEW t, DOMAIN t = Fields, t.asks = turns[m].asks, Caught(m, t)
    PROVE  Told'
<1>1. CASE Returns(m, [t EXCEPT !.run = "FAILED", !.task = "FAILED"], "error")
  <2>1. DOMAIN [t EXCEPT !.run = "FAILED", !.task = "FAILED"] = Fields
        /\ [t EXCEPT !.run = "FAILED", !.task = "FAILED"].asks = t.asks
    BY DEF Fields
  <2> QED BY <1>1, <2>1, ReturnsTold
<1>2. ASSUME NEW run, Returns(m, [t EXCEPT !.run = run], "sanitized")
      PROVE  Told'
  <2>1. DOMAIN [t EXCEPT !.run = run] = Fields /\ [t EXCEPT !.run = run].asks = t.asks
    BY DEF Fields
  <2> QED BY <1>2, <2>1, ReturnsTold
<1> QED
  BY <1>1, <1>2, Zenon DEF Caught

(* A send sets one delivery and what is shown of it.                       *)
LEMMA SentTold ==
    ASSUME Told, NEW m \in Messages, UNCHANGED turns, turns[m].at = "replied",
           NEW d, Becomes(m, d), NEW sn, seen' = [seen EXCEPT ![m] = sn], Delivered(d, sn)
    PROVE  Told'
<1>1. /\ deliveries = [n \in Messages |-> deliveries[n]] /\ deliveries' = [deliveries EXCEPT ![m] = d]
      /\ seen = [n \in Messages |-> seen[n]] /\ seen' = [seen EXCEPT ![m] = sn]
      /\ ToldOne(turns[m], deliveries[m], seen[m])
  BY DEF Told, DeliveryShape, Becomes
<1>2. /\ deliveries'[m] = d /\ seen'[m] = sn /\ turns'[m] = turns[m]
      /\ \A n \in Messages \ {m} :
            turns'[n] = turns[n] /\ deliveries'[n] = deliveries[n] /\ seen'[n] = seen[n]
  BY <1>1
<1>3. DeliveryShape'
  BY <1>1 DEF DeliveryShape
<1>4. ToldOne(turns'[m], deliveries'[m], seen'[m])
  BY <1>1, <1>2 DEF ToldOne
<1> QED
  BY <1>2, <1>3, <1>4, OneTold


(* Only a turn that replied has a delivery, and it stands well.            *)
LEMMA SendingTold ==
    ASSUME Told, NEW m \in Messages, Sending(m)
    PROVE  turns[m].at = "replied" /\ Delivered(deliveries[m], seen[m])
  BY DEF Told, ToldOne, Sending

(* What is shown of one delivery.                                          *)
LEMMA ShownIs ==
    ASSUME Told, NEW m \in Messages
    PROVE  /\ \A piece : Shows(m, piece) => seen' = [seen EXCEPT ![m] = Append(seen[m], piece)]
           /\ UNCHANGED seen => seen' = [seen EXCEPT ![m] = seen[m]]
<1>1. seen = [n \in Messages |-> seen[n]]
  BY DEF Told, DeliveryShape
<1>2. ASSUME NEW piece, Shows(m, piece) PROVE seen' = [seen EXCEPT ![m] = Append(seen[m], piece)]
  BY <1>2 DEF Shows
<1>3. UNCHANGED seen => seen' = [seen EXCEPT ![m] = seen[m]]
  BY <1>1
<1> QED
  BY <1>2, <1>3

(* Sending keeps every delivery standing well.                             *)
LEMMA DeliverTold ==
    ASSUME Told, NEW m \in Messages, Deliver(m)
    PROVE  Told'
<1>1. UNCHANGED turns /\ (SendPiece(m) \/ SendAttachment(m))
  BY DEF Deliver, DeliveryStep
<1>2. CASE SendPiece(m)
  <2>1. At(m, "pieces") /\ turns[m].at = "replied" /\ Delivered(deliveries[m], seen[m])
    BY <1>2, SendingTold DEF SendPiece, At
  <2>2. PICK piece : piece = Head(deliveries[m].todo)
    OBVIOUS
  <2>3. \/ Shows(m, piece) /\ Becomes(m, PieceSent(m))
        \/ (Shows(m, piece) \/ UNCHANGED seen) /\ Becomes(m, PieceFailed(m))
    BY <1>2, <2>2 DEF SendPiece
  <2>4. CASE Shows(m, piece) /\ Becomes(m, PieceSent(m))
    <3>1. PICK d, sn : d = PieceSent(m) /\ sn = Append(seen[m], piece)
      OBVIOUS
    <3>2. Delivered(d, sn)
      BY <2>1, <2>2, <3>1, PieceSentWell
    <3>3. Becomes(m, d) /\ seen' = [seen EXCEPT ![m] = sn]
      BY <2>4, <3>1, ShownIs
    <3> QED BY <1>1, <2>1, <3>2, <3>3, SentTold
  <2>5. CASE (Shows(m, piece) \/ UNCHANGED seen) /\ Becomes(m, PieceFailed(m))
    <3>1. PICK d, sn : /\ d = PieceFailed(m) /\ seen' = [seen EXCEPT ![m] = sn]
                       /\ sn = Append(seen[m], piece) \/ sn = seen[m]
      BY <2>5, ShownIs
    <3>2. Delivered(d, sn)
      BY <2>1, <2>2, <3>1, PieceSentWell
    <3>3. Becomes(m, d)
      BY <2>5, <3>1
    <3> QED BY <1>1, <2>1, <3>1, <3>2, <3>3, SentTold
  <2> QED BY <2>3, <2>4, <2>5
<1>3. CASE SendAttachment(m)
  <2>1. At(m, "file") /\ turns[m].at = "replied" /\ Delivered(deliveries[m], seen[m])
    BY <1>3, SendingTold DEF SendAttachment, At
  <2>2. PICK file : file = FileOf(deliveries[m].reply)
    OBVIOUS
  <2>3. \/ Shows(m, file) /\ Becomes(m, FileSent(m))
        \/ (Shows(m, file) \/ UNCHANGED seen) /\ Becomes(m, Ended(m, "DELIVERY_FAILED"))
    BY <1>3, <2>2 DEF SendAttachment, FileOf
  <2>4. PICK d, sn : /\ Becomes(m, d) /\ seen' = [seen EXCEPT ![m] = sn]
                     /\ \/ d = FileSent(m) /\ sn = Append(seen[m], file)
                        \/ /\ d = Ended(m, "DELIVERY_FAILED")
                           /\ sn = Append(seen[m], file) \/ sn = seen[m]
    BY <2>3, ShownIs
  <2>5. Delivered(d, sn)
    BY <2>1, <2>2, <2>4, FileSentWell
  <2> QED BY <1>1, <2>1, <2>4, <2>5, SentTold
<1> QED
  BY <1>1, <1>2, <1>3

(* A turn that is over has no delivery and nothing of it is kept.          *)
LEMMA OverTold ==
    ASSUME Told, TurnsWell, NEW m \in Messages, Over(m)
    PROVE  Told'
<1>0. PICK u : u = [NewTurn(None) EXCEPT !.at = "over"]
  OBVIOUS
<1>1. u = [NewTurn(None) EXCEPT !.at = "over"] /\ u.asks = None /\ u.at = "over"
  BY <1>0 DEF NewTurn
<1>2. /\ turns = [n \in Messages |-> turns[n]] /\ turns' = [turns EXCEPT ![m] = u]
      /\ deliveries = [n \in Messages |-> deliveries[n]] /\ deliveries' = [deliveries EXCEPT ![m] = None]
      /\ seen = [n \in Messages |-> seen[n]] /\ seen' = [seen EXCEPT ![m] = << >>]
  BY <1>1 DEF Told, DeliveryShape, TurnsWell, Over, Report, Turns, Becomes
<1>3. /\ deliveries'[m] = None /\ seen'[m] = << >> /\ turns'[m] = u
      /\ \A n \in Messages \ {m} :
            turns'[n] = turns[n] /\ deliveries'[n] = deliveries[n] /\ seen'[n] = seen[n]
  BY <1>2
<1>4. DeliveryShape'
  BY <1>2 DEF DeliveryShape
<1>5. ToldOne(turns'[m], deliveries'[m], seen'[m])
  BY <1>1, <1>3 DEF ToldOne
<1> QED
  BY <1>3, <1>4, <1>5, OneTold

(* Every step keeps every turn and its delivery so.                        *)
LEMMA StepTold ==
    ASSUME TurnInv, Told, [Next]_vars
    PROVE  Told'
<1>1. TurnsWell /\ \A m \in Messages : DOMAIN turns[m] = Fields
  <2>1. TurnsWell
    BY DEF TurnInv
  <2>2. ASSUME NEW m \in Messages PROVE DOMAIN turns[m] = Fields
    <3>1. turns[m] = [f \in Fields |-> turns[m][f]]
      BY <2>1, Shaped DEF TurnsWell
    <3> QED BY <3>1, Zenon
  <2> QED BY <2>1, <2>2
<1>2. UNCHANGED <<turns, deliveries, seen>> => Told'
  BY DEF Told, DeliveryShape
<1>3. ASSUME NEW m \in Messages PROVE ToldOne(turns[m], deliveries[m], seen[m])
  BY DEF Told
<1>4. ASSUME NEW m \in Messages, MessageCreate(m) PROVE Told'
  <2> DEFINE u == [turns[m] EXCEPT !.at = "typing"]
  <2>1. u.at = "typing" /\ u.asks = turns[m].asks
    BY <1>1 DEF Fields
  <2>2. Turns(m, u) /\ turns[m].at = "unsent" /\ turns[m].asks # None /\ UNCHANGED <<deliveries, seen>>
    BY <1>4 DEF MessageCreate, deliveryVars
  <2> HIDE DEF u
  <2> QED BY <1>1, <2>1, <2>2, AdvancesTold
<1>5. ASSUME NEW m \in Messages, TypingShown(m) PROVE Told'
  <2> DEFINE u == [turns[m] EXCEPT !.at = "handling"]
  <2>1. u.at = "handling" /\ u.asks = turns[m].asks
    BY <1>1 DEF Fields
  <2>2. Turns(m, u) /\ turns[m].at = "typing" /\ UNCHANGED <<deliveries, seen>>
    BY <1>5 DEF TypingShown, StartTyping
  <2>3. turns[m].asks # None
    BY <1>3, <2>2 DEF ToldOne
  <2> HIDE DEF u
  <2> QED BY <1>1, <2>1, <2>2, <2>3, AdvancesTold
<1>6. ASSUME NEW m \in Messages, HandleFails(m) PROVE Told'
  <2>1. \/ Returns(m, turns[m], "sanitized")
        \/ \E status : Returns(m, [turns[m] EXCEPT !.task = status], "sanitized")
    BY <1>6, Zenon DEF HandleFails, Escapes
  <2>2. turns[m].at = "handling"
    BY <1>6 DEF HandleFails, Handling
  <2>3. ASSUME NEW status, Returns(m, [turns[m] EXCEPT !.task = status], "sanitized")
        PROVE  Told'
    <3>1. /\ DOMAIN [turns[m] EXCEPT !.task = status] = Fields
          /\ [turns[m] EXCEPT !.task = status].asks = turns[m].asks
      BY <1>1 DEF Fields
    <3> QED BY <1>1, <2>2, <2>3, <3>1, ReturnsTold
  <2> QED BY <1>1, <2>1, <2>2, <2>3, ReturnsTold
<1>7. ASSUME NEW m \in Messages, HandleLocal(m) \/ HandleRegister(m) \/ HandleRemember(m)
      PROVE  Told'
  <2>1. \E outcome : Returns(m, turns[m], outcome)
    BY <1>7, Zenon DEF HandleLocal, HandleRegister, HandleRemember, Escapes
  <2>2. turns[m].at = "handling"
    BY <1>7 DEF HandleLocal, HandleRegister, HandleRemember, Local, Asks, Handling
  <2> QED BY <1>1, <2>1, <2>2, ReturnsTold
<1>8. ASSUME NEW m \in Messages, HandleWork(m) PROVE Told'
  <2> DEFINE w == [turns[m] EXCEPT !.run = "STARTED", !.task = "RUNNING", !.before = said[SessionFor(m)]]
  <2>1. DOMAIN w = Fields /\ w.asks = turns[m].asks
    BY <1>1 DEF Fields
  <2>2. \/ /\ \E p : Turns(m, [w EXCEPT !.at = "answering", !.context = p])
           /\ UNCHANGED deliveryVars
        \/ Caught(m, w)
    BY <1>8, Zenon DEF HandleWork
  <2>3. turns[m].at = "handling" /\ turns[m].asks # None
    <3>1. turns[m].at = "handling"
      BY <1>8 DEF HandleWork, Works, Asks, Handling
    <3> QED BY <1>3, <3>1 DEF ToldOne
  <2> HIDE DEF w
  <2>4. CASE Caught(m, w)
    BY <1>1, <2>1, <2>3, <2>4, CaughtTold
  <2>5. ASSUME NEW p, Turns(m, [w EXCEPT !.at = "answering", !.context = p]), UNCHANGED deliveryVars
        PROVE  Told'
    <3> DEFINE u == [w EXCEPT !.at = "answering", !.context = p]
    <3>1. u.at = "answering" /\ u.asks = turns[m].asks
      BY <2>1 DEF Fields
    <3>2. Turns(m, u) /\ UNCHANGED <<deliveries, seen>> /\ turns[m].at # "replied"
      BY <2>3, <2>5 DEF deliveryVars
    <3> HIDE DEF u
    <3> QED BY <1>1, <2>3, <3>1, <3>2, AdvancesTold
  <2> QED BY <2>2, <2>4, <2>5
<1>9. ASSUME NEW m \in Messages, Answer(m) PROVE Told'
  <2> DEFINE t == [turns[m] EXCEPT !.run = "SUCCEEDED"]
  <2>1. \/ Returns(m, [t EXCEPT !.task = "COMPLETED"], "answer")
        \/ Caught(m, t)
    <3>1. PICK u \in Accepted(turns[m]) : \/ Returns(m, [u EXCEPT !.task = "COMPLETED"], "answer")
                                          \/ Caught(m, u)
      BY <1>9, Zenon DEF Answer
    <3> QED BY <3>1 DEF Accepted
  <2>2. /\ DOMAIN t = Fields /\ DOMAIN [t EXCEPT !.task = "COMPLETED"] = Fields
        /\ t.asks = turns[m].asks /\ [t EXCEPT !.task = "COMPLETED"].asks = turns[m].asks
    BY <1>1 DEF Fields
  <2>3. turns[m].at = "answering"
    BY <1>9 DEF Answer
  <2> HIDE DEF t
  <2> QED BY <1>1, <2>1, <2>2, <2>3, ReturnsTold, CaughtTold
<1>10. ASSUME NEW m \in Messages, NoAnswer(m) PROVE Told'
  <2>1. \/ Caught(m, turns[m])
        \/ \E status : Returns(m, [turns[m] EXCEPT !.run = "FAILED", !.task = status], "terminal")
    BY <1>10, Zenon DEF NoAnswer
  <2>2. turns[m].at = "answering"
    BY <1>10 DEF NoAnswer
  <2>3. ASSUME NEW status, Returns(m, [turns[m] EXCEPT !.run = "FAILED", !.task = status], "terminal")
        PROVE  Told'
    <3>1. /\ DOMAIN [turns[m] EXCEPT !.run = "FAILED", !.task = status] = Fields
          /\ [turns[m] EXCEPT !.run = "FAILED", !.task = status].asks = turns[m].asks
      BY <1>1 DEF Fields
    <3> QED BY <1>1, <2>2, <2>3, <3>1, ReturnsTold
  <2> QED BY <1>1, <2>1, <2>2, <2>3, CaughtTold
<1>11. ASSUME NEW ch \in Channels, Tick(ch) PROVE Told'
  BY <1>2, <1>11 DEF Tick, TypingTick
<1>12. MemoryWrites \/ UNCHANGED vars => Told'
  BY <1>2 DEF MemoryWrites, vars, deliveryVars
<1> QED
  BY <1>1, <1>4, <1>5, <1>6, <1>7, <1>8, <1>9, <1>10, <1>11, <1>12, DeliverTold, OverTold, Zenon DEF Next, Handle

(* Spec => []ReaderHasIt: what a verdict says was delivered is what the    *)
(* channel shows, every character of a text or every line of a diff in     *)
(* order, and what it shows is always a beginning of the reply with at     *)
(* most one file, whichever sends fail or lose their acknowledgement, for  *)
(* any texts and diffs, any limit, reserve and threshold.                  *)
THEOREM ReadersHaveIt == Spec => []ReaderHasIt
<1>1. Init => Told
  <2> SUFFICES ASSUME Init PROVE Told
    OBVIOUS
  <2>1. PICK inbox \in Inboxes : turns = [m \in Messages |-> NewTurn(inbox[m])]
    BY DEF Init
  <2>2. deliveries = [m \in Messages |-> None] /\ seen = [m \in Messages |-> << >>]
    BY DEF Init, DeliveryInit
  <2>3. ASSUME NEW m \in Messages PROVE ToldOne(turns[m], deliveries[m], seen[m])
    <3>1. turns[m].at = "unsent" /\ turns[m].asks = inbox[m] /\ deliveries[m] = None /\ seen[m] = << >>
      BY <2>1, <2>2 DEF NewTurn
    <3>2. inbox[m] # None => IsReply(inbox[m].body)
      BY TurnAssumption DEF IsReply
    <3> QED BY <3>1, <3>2 DEF ToldOne
  <2> QED BY <2>2, <2>3 DEF Told, DeliveryShape
<1>2. TurnInv /\ Told /\ [Next]_vars => Told'
  BY StepTold
<1>3. Told => ReaderHasIt
  <2> SUFFICES ASSUME Told PROVE ReaderHasIt
    OBVIOUS
  <2>1. ASSUME NEW m \in Messages, Sending(m) PROVE Reads(deliveries[m], seen[m])
    BY <2>1, SendingTold, DeliveredReads
  <2> QED BY <2>1, ReadsIsReaderHasIt
<1> QED
  BY <1>1, <1>2, <1>3, TurnsAlways, PTL DEF Spec


=============================================================================
