------------------------ MODULE SemanticHarness_proof ------------------------
(* What the semantic validation harness guarantees for any children,       *)
(* words, chunks and amounts of output, whichever step fails.              *)
EXTENDS SemanticHarness, SequenceTheorems, WellFoundedInduction, TLAPS

-----------------------------------------------------------------------------
(* Induction.                                                              *)

(* A set of numbers that has 0, and with each number the next, has all.    *)
LEMMA Induction ==
    ASSUME NEW T \in SUBSET Nat, 0 \in T, \A n \in T : n + 1 \in T
    PROVE  T = Nat
<1> SUFFICES ASSUME Nat \ T # {} PROVE FALSE
  OBVIOUS
<1>1. PICK n \in Nat \ T : \A m \in Nat \ T : ~(<<m, n>> \in OpToRel(<, Nat))
  BY WFMin, NatLessThanWellFounded
<1>2. \A m \in Nat \ T : ~(m < n)
  BY <1>1 DEF OpToRel
<1>3. n \in Nat /\ n \notin T /\ n # 0
  BY <1>1
<1>4. n - 1 \in Nat /\ n - 1 < n /\ (n - 1) + 1 = n
  <2> QED BY <1>3, SMT
<1>5. n - 1 \in T
  BY <1>2, <1>4
<1>6. (n - 1) + 1 \in T
  BY <1>5
<1> QED
  BY <1>3, <1>4, <1>6

(* The greatest of some numbers up to n.                                   *)
LEMMA Greatest ==
    ASSUME NEW n \in Nat, NEW S \in SUBSET (1..n), S # {}
    PROVE  Max(S) \in S /\ \A i \in S : i <= Max(S)
<1> DEFINE T == {m \in Nat : \A R \in SUBSET (1..m) : R # {} => \E x \in R : \A i \in R : x >= i}
<1>1. 0 \in T
  <2>1. 1..0 = {}
    OBVIOUS
  <2> QED BY <2>1
<1>2. ASSUME NEW m \in T PROVE m + 1 \in T
  <2> SUFFICES ASSUME NEW R \in SUBSET (1..(m + 1)), R # {}
               PROVE  \E x \in R : \A i \in R : x >= i
    BY <1>2
  <2>1. CASE m + 1 \in R
    BY <2>1, <1>2
  <2>2. CASE m + 1 \notin R
    <3>1. R \in SUBSET (1..m)
      BY <2>2, <1>2
    <3> QED BY <3>1, <1>2
  <2> QED BY <2>1, <2>2
<1>3. T = Nat
  <2> HIDE DEF T
  <2>1. T \in SUBSET Nat
    BY DEF T
  <2> QED BY <1>1, <1>2, <2>1, Induction
<1>4. \E x \in S : \A i \in S : x >= i
  BY <1>3
<1>5. Max(S) \in S /\ \A i \in S : Max(S) >= i
  BY <1>4, Zenon DEF Max
<1> QED
  BY <1>5

(* A recursion over the sets of positions, from the greatest down.         *)
Recursive(f, n, base, step) ==
    \A S \in SUBSET (1..n) :
        f[S] = IF S = {} THEN base ELSE step[<<Max(S), f[S \ {Max(S)}]>>]

(* It has a solution.                                                      *)
LEMMA Recursion ==
    ASSUME NEW n \in Nat, NEW T, NEW base \in T, NEW step \in [(1..n) \X T -> T]
    PROVE  \E f \in [SUBSET (1..n) -> T] : Recursive(f, n, base, step)
<1> DEFINE Solves(f, m) == Recursive(f, m, base, step)
           Solvable == {m \in Nat : m <= n => \E f \in [SUBSET (1..m) -> T] : Solves(f, m)}
<1>1. 0 \in Solvable
  <2> DEFINE f == [S \in SUBSET (1..0) |-> base]
  <2>1. f \in [SUBSET (1..0) -> T]
    OBVIOUS
  <2>2. \A S \in SUBSET (1..0) : S = {}
    OBVIOUS
  <2>3. Solves(f, 0)
    BY <2>2 DEF Recursive
  <2> QED BY <2>1, <2>3
<1>2. ASSUME NEW m \in Solvable PROVE m + 1 \in Solvable
  <2>0. m \in Nat /\ (m <= n => \E f \in [SUBSET (1..m) -> T] : Solves(f, m))
    BY <1>2
  <2> SUFFICES ASSUME m + 1 <= n
               PROVE  \E f \in [SUBSET (1..(m + 1)) -> T] : Solves(f, m + 1)
    <3>1. m + 1 \in Nat
      BY <2>0
    <3> HIDE DEF Solves
    <3> QED BY <3>1
  <2>00. m <= n
    BY <2>0, SMT
  <2>1. PICK g \in [SUBSET (1..m) -> T] : Solves(g, m)
    <3> HIDE DEF Solves
    <3> QED BY <2>0, <2>00
  <2> DEFINE f == [S \in SUBSET (1..(m + 1)) |->
                      IF m + 1 \in S THEN step[<<m + 1, g[S \ {m + 1}]>>] ELSE g[S]]
  <2>2. \A S \in SUBSET (1..(m + 1)) : S \ {m + 1} \in SUBSET (1..m)
    BY <2>0
  <2>3. \A S \in SUBSET (1..(m + 1)) : m + 1 \notin S => S \in SUBSET (1..m)
    BY <2>0
  <2>4. f \in [SUBSET (1..(m + 1)) -> T]
    <3>1. m + 1 \in 1..n
      BY <2>0
    <3> QED BY <2>2, <2>3, <3>1
  <2>5. ASSUME NEW S \in SUBSET (1..(m + 1))
        PROVE  f[S] = IF S = {} THEN base ELSE step[<<Max(S), f[S \ {Max(S)}]>>]
    <3>0. S # {} => Max(S) \in S /\ \A i \in S : i <= Max(S)
      <4>1. m + 1 \in Nat
        BY <2>0
      <4> QED BY Greatest, <4>1
    <3>1. CASE m + 1 \in S
      <4>1. Max(S) = m + 1
        <5>1. Max(S) \in 1..(m + 1) /\ m + 1 <= Max(S)
          BY <3>0, <3>1
        <5> QED BY <5>1, <2>0
      <4>2. f[S \ {m + 1}] = g[S \ {m + 1}]
        BY <2>2
      <4>3. f[S] = step[<<m + 1, g[S \ {m + 1}]>>]
        BY <3>1
      <4> QED BY <3>1, <4>1, <4>2, <4>3
    <3>2. CASE m + 1 \notin S
      <4>1. S \in SUBSET (1..m) /\ f[S] = g[S]
        BY <2>3, <3>2
      <4>2. f[S \ {Max(S)}] = g[S \ {Max(S)}]
        BY <2>3, <3>2
      <4> QED BY <4>1, <4>2, <2>1 DEF Recursive
    <3> QED BY <3>1, <3>2
  <2>6. Solves(f, m + 1)
    BY <2>5 DEF Recursive
  <2> QED BY <2>4, <2>6
<1>3. Solvable = Nat
  <2> HIDE DEF Solvable
  <2>1. Solvable \in SUBSET Nat
    BY DEF Solvable
  <2> QED BY <1>1, <1>2, <2>1, Induction
<1> QED
  <2>1. n \in Solvable
    BY <1>3
  <2>2. n <= n
    OBVIOUS
  <2>3. \E f \in [SUBSET (1..n) -> T] : Solves(f, n)
    <3> HIDE DEF Solves
    <3> QED BY <2>1, <2>2
  <2> QED BY <2>3

-----------------------------------------------------------------------------
(* What is left of a text when the terminal control sequences are gone.    *)

States == [control : BOOLEAN, out : Seq(Words)]

StepOf(acc, word) ==
    [control |-> IF acc.control THEN word # "end" ELSE word = "escape",
     out |-> IF Plain(word, acc.control) THEN Append(acc.out, word) ELSE acc.out]

(* One word more keeps the form of what is left.                           *)
LEMMA StepTyped ==
    ASSUME NEW acc \in States, NEW word \in Words
    PROVE  StepOf(acc, word) \in States
<1>1. acc.out \in Seq(Words) /\ Append(acc.out, word) \in Seq(Words)
  BY DEF States
<1> QED
  BY <1>1 DEF States, StepOf

(* The fold runs over the words in order.                                  *)
LEMMA Trace ==
    ASSUME NEW chunk \in Seq(Words), NEW c \in BOOLEAN
    PROVE  \E acc \in [0..Len(chunk) -> States] :
              /\ acc[0] = [control |-> c, out |-> <<>>]
              /\ \A i \in 1..Len(chunk) : acc[i] = StepOf(acc[i - 1], chunk[i])
              /\ Normalized(chunk, c) = acc[Len(chunk)]
<1> DEFINE n == Len(chunk)
           base == [control |-> c, out |-> <<>>]
           step == [x \in (1..n) \X States |-> StepOf(x[2], chunk[x[1]])]
<1>1. n \in Nat /\ DOMAIN chunk = 1..n /\ \A i \in 1..n : chunk[i] \in Words
  OBVIOUS
<1>2. base \in States
  BY DEF States
<1>3. step \in [(1..n) \X States -> States]
  BY <1>1, StepTyped
<1>4. PICK f \in [SUBSET (1..n) -> States] : Recursive(f, n, base, step)
  <2> HIDE DEF n, base, step
  <2>1. n \in Nat
    BY <1>1
  <2> QED BY <2>1, <1>2, <1>3, Recursion
<1>5. ASSUME NEW S \in SUBSET (1..n), S # {}
      PROVE  /\ Max(S) \in 1..n /\ S \ {Max(S)} \in SUBSET (1..n)
             /\ f[S] = StepOf(f[S \ {Max(S)}], chunk[Max(S)])
  <2>1. Max(S) \in S
    <3> HIDE DEF n
    <3> QED BY <1>1, <1>5, Greatest
  <2>2. Max(S) \in 1..n /\ S \ {Max(S)} \in SUBSET (1..n)
    BY <2>1
  <2>3. <<Max(S), f[S \ {Max(S)}]>> \in (1..n) \X States
    BY <2>2
  <2>4. f[S] = step[<<Max(S), f[S \ {Max(S)}]>>]
    BY <1>4, <1>5 DEF Recursive
  <2>5. step[<<Max(S), f[S \ {Max(S)}]>>] = StepOf(f[S \ {Max(S)}], chunk[Max(S)])
    BY <2>3
  <2> QED BY <2>2, <2>4, <2>5
<1>6. f = [S \in SUBSET DOMAIN chunk |->
              IF S = {} THEN base ELSE StepOf(f[S \ {Max(S)}], chunk[Max(S)])]
  <2>1. f[{}] = base
    BY <1>4 DEF Recursive
  <2> HIDE DEF n, base, step
  <2> QED BY <1>1, <1>5, <2>1
<1>7. Normalized(chunk, c) =
         (CHOOSE iter : iter = [S \in SUBSET DOMAIN chunk |->
              IF S = {} THEN base ELSE StepOf(iter[S \ {Max(S)}], chunk[Max(S)])])[DOMAIN chunk]
  BY DEF Normalized, FoldLeft, MapThenFoldSet, StepOf
<1>8. PICK g : /\ g = [S \in SUBSET DOMAIN chunk |->
                    IF S = {} THEN base ELSE StepOf(g[S \ {Max(S)}], chunk[Max(S)])]
               /\ Normalized(chunk, c) = g[DOMAIN chunk]
  <2> DEFINE G == CHOOSE iter : iter = [S \in SUBSET DOMAIN chunk |->
              IF S = {} THEN base ELSE StepOf(iter[S \ {Max(S)}], chunk[Max(S)])]
  <2>1. G = [S \in SUBSET DOMAIN chunk |->
              IF S = {} THEN base ELSE StepOf(G[S \ {Max(S)}], chunk[Max(S)])]
    <3> HIDE DEF base, step, n
    <3> QED BY <1>6, Zenon
  <2>2. Normalized(chunk, c) = G[DOMAIN chunk]
    BY <1>7
  <2> HIDE DEF G
  <2> QED BY <2>1, <2>2
<1> HIDE DEF base, step
<1> DEFINE acc == [m \in 0..n |-> g[1..m]]
<1>9. /\ acc[0] = base
      /\ \A i \in 1..n : acc[i] = StepOf(acc[i - 1], chunk[i])
  <2>1. 1..0 = {} /\ {} \in SUBSET DOMAIN chunk /\ 0 \in 0..n
    BY <1>1
  <2>2. g[{}] = base
    BY <1>8, <2>1
  <2>3. ASSUME NEW i \in 1..n
        PROVE  acc[i] = StepOf(acc[i - 1], chunk[i])
    <3>1. i \in Nat /\ i - 1 \in 0..n /\ i \in 0..n /\ 1..i \in SUBSET (1..n) /\ 1..i # {}
      BY <1>1
    <3>2. Max(1..i) \in 1..i /\ i <= Max(1..i)
      <4>1. i \in 1..i
        BY <3>1
      <4> QED BY <3>1, <4>1, Greatest
    <3>3. Max(1..i) = i
      BY <3>1, <3>2
    <3>4. (1..i) \ {i} = 1..(i - 1)
      BY <3>1
    <3>5. 1..i \in SUBSET DOMAIN chunk
      BY <1>1, <3>1
    <3>6. g[1..i] = StepOf(g[(1..i) \ {Max(1..i)}], chunk[Max(1..i)])
      BY <1>8, <3>1, <3>5
    <3> QED BY <3>1, <3>3, <3>4, <3>6
  <2> QED BY <2>1, <2>2, <2>3
<1>10. acc \in [0..n -> States]
  <2> DEFINE T == {m \in Nat : m <= n => acc[m] \in States}
  <2>1. 0 \in T
    BY <1>2, <1>9
  <2>2. ASSUME NEW m \in T PROVE m + 1 \in T
    <3>1. m \in Nat /\ (m <= n => acc[m] \in States)
      BY <2>2
    <3>2. SUFFICES ASSUME m + 1 <= n PROVE acc[m + 1] \in States
      BY <3>1
    <3>3. m <= n /\ m + 1 \in 1..n /\ (m + 1) - 1 = m
      BY <1>1, <3>1, <3>2
    <3>4. acc[m + 1] = StepOf(acc[m], chunk[m + 1])
      <4> HIDE DEF acc
      <4> QED BY <1>9, <3>3
    <3> HIDE DEF acc
    <3> QED BY <1>1, <3>1, <3>3, <3>4, StepTyped
  <2>3. T = Nat
    <3> HIDE DEF T
    <3>1. T \in SUBSET Nat
      BY DEF T
    <3> QED BY <2>1, <2>2, <3>1, Induction
  <2>4. \A m \in 0..n : acc[m] \in States
    <3> SUFFICES ASSUME NEW m \in 0..n PROVE acc[m] \in States
      OBVIOUS
    <3>1. m \in Nat /\ m <= n
      BY <1>1
    <3>2. m \in T
      <4> HIDE DEF T
      <4> QED BY <2>3, <3>1
    <3> HIDE DEF acc
    <3> QED BY <3>1, <3>2
  <2> QED BY <2>4
<1>11. Normalized(chunk, c) = acc[n]
  <2>1. n \in 0..n
    BY <1>1
  <2> QED BY <1>1, <1>8, <2>1
<1> QED
  <2> HIDE DEF acc
  <2> QED BY <1>9, <1>10, <1>11 DEF base


(* Nothing is left of nothing.                                             *)
LEMMA NormalizedEmpty ==
    ASSUME NEW c \in BOOLEAN
    PROVE  Normalized(<<>>, c) = [control |-> c, out |-> <<>>]
<1>1. <<>> \in Seq(Words) /\ Len(<<>>) = 0
  OBVIOUS
<1>2. PICK acc \in [0..Len(<<>>) -> States] :
         /\ acc[0] = [control |-> c, out |-> <<>>]
         /\ Normalized(<<>>, c) = acc[Len(<<>>)]
  BY <1>1, Trace, Zenon
<1> QED
  BY <1>1, <1>2

(* What is left of a text is a text.                                       *)
LEMMA NormalizedTyped ==
    ASSUME NEW chunk \in Seq(Words), NEW c \in BOOLEAN
    PROVE  Normalized(chunk, c) \in States
<1>1. Len(chunk) \in 0..Len(chunk)
  OBVIOUS
<1>2. PICK acc \in [0..Len(chunk) -> States] : Normalized(chunk, c) = acc[Len(chunk)]
  BY Trace
<1> QED
  BY <1>1, <1>2

(* One word more is read after the others.                                 *)
LEMMA NormalizedAppend ==
    ASSUME NEW chunk \in Seq(Words), NEW word \in Words, NEW c \in BOOLEAN
    PROVE  Normalized(Append(chunk, word), c) = StepOf(Normalized(chunk, c), word)
<1> DEFINE n == Len(chunk)
           longer == Append(chunk, word)
<1>1. /\ n \in Nat /\ longer \in Seq(Words) /\ Len(longer) = n + 1
      /\ \A i \in 1..n : longer[i] = chunk[i]
      /\ longer[n + 1] = word
  OBVIOUS
<1> HIDE DEF longer
<1>2. PICK a \in [0..n -> States] :
         /\ a[0] = [control |-> c, out |-> <<>>]
         /\ \A i \in 1..n : a[i] = StepOf(a[i - 1], chunk[i])
         /\ Normalized(chunk, c) = a[n]
  BY Trace
<1>3. PICK b \in [0..(n + 1) -> States] :
         /\ b[0] = [control |-> c, out |-> <<>>]
         /\ \A i \in 1..(n + 1) : b[i] = StepOf(b[i - 1], longer[i])
         /\ Normalized(longer, c) = b[n + 1]
  BY <1>1, Trace
<1> HIDE DEF n
<1> DEFINE T == {m \in Nat : m <= n => a[m] = b[m]}
<1>4. 0 \in T
  BY <1>2, <1>3
<1>5. ASSUME NEW m \in T PROVE m + 1 \in T
  <2>1. m \in Nat /\ (m <= n => a[m] = b[m])
    BY <1>5
  <2>2. SUFFICES ASSUME m + 1 <= n PROVE a[m + 1] = b[m + 1]
    BY <2>1
  <2>3. m <= n /\ m + 1 \in 1..n /\ m + 1 \in 1..(n + 1) /\ (m + 1) - 1 = m
    BY <1>1, <2>1, <2>2
  <2> QED BY <1>1, <1>2, <1>3, <2>1, <2>3
<1>6. T = Nat
  <2> HIDE DEF T
  <2>1. T \in SUBSET Nat
    BY DEF T
  <2> QED BY <1>4, <1>5, <2>1, Induction
<1>7. a[n] = b[n]
  <2>1. n \in T
    <3> HIDE DEF T
    <3> QED BY <1>1, <1>6
  <2>2. n <= n
    BY <1>1
  <2> QED BY <2>1, <2>2
<1>8. n + 1 \in 1..(n + 1) /\ (n + 1) - 1 = n
  BY <1>1
<1> QED
  BY <1>1, <1>2, <1>3, <1>7, <1>8 DEF longer

(* A text is read part by part: the second part from where the first left  *)
(* off.                                                                    *)
LEMMA NormalizedConcat ==
    ASSUME NEW a \in Seq(Words), NEW c \in BOOLEAN, NEW b \in Seq(Words)
    PROVE  LET first == Normalized(a, c)
               second == Normalized(b, first.control)
           IN  Normalized(a \o b, c) = [control |-> second.control, out |-> first.out \o second.out]
<1> DEFINE first == Normalized(a, c)
           Second(s) == Normalized(s, first.control)
           Joined(s) == [control |-> Second(s).control, out |-> first.out \o Second(s).out]
           T == {m \in Nat : \A s \in Seq(Words) : Len(s) = m => Normalized(a \o s, c) = Joined(s)}
<1>1. first \in States /\ first.control \in BOOLEAN /\ first.out \in Seq(Words)
  BY NormalizedTyped DEF States
<1>2. 0 \in T
  <2> SUFFICES ASSUME NEW s \in Seq(Words), Len(s) = 0
               PROVE  Normalized(a \o s, c) = Joined(s)
    OBVIOUS
  <2>1. s = <<>> /\ a \o s = a
    OBVIOUS
  <2>2. Second(s) = [control |-> first.control, out |-> <<>>]
    BY <1>1, <2>1, NormalizedEmpty
  <2>3. first.out \o <<>> = first.out
    BY <1>1
  <2>4. first = [control |-> first.control, out |-> first.out]
    BY <1>1 DEF States
  <2>5. Normalized(a \o s, c) = first
    BY <2>1
  <2> HIDE DEF first, Second
  <2> QED BY <2>2, <2>3, <2>4, <2>5
<1>3. ASSUME NEW m \in T PROVE m + 1 \in T
  <2>1. m \in Nat /\ \A s \in Seq(Words) : Len(s) = m => Normalized(a \o s, c) = Joined(s)
    BY <1>3
  <2> SUFFICES ASSUME NEW s \in Seq(Words), Len(s) = m + 1
               PROVE  Normalized(a \o s, c) = Joined(s)
    <3>1. m + 1 \in Nat
      BY <2>1
    <3> HIDE DEF Joined
    <3> QED BY <3>1
  <2>2. s # <<>>
    BY <2>1
  <2>3. PICK r \in Seq(Words), word \in Words : s = Append(r, word)
    BY <2>2, SequenceEmptyOrAppend
  <2>4. Len(r) = m
    BY <2>1, <2>3
  <2>5. a \o r \in Seq(Words) /\ a \o s = Append(a \o r, word)
    BY <2>3
  <2>6. Normalized(a \o s, c) = StepOf(Joined(r), word)
    <3>1. Normalized(a \o r, c) = Joined(r)
      BY <2>1, <2>4
    <3> QED BY <2>5, <3>1, NormalizedAppend
  <2>7. Second(s) = StepOf(Second(r), word) /\ Second(r) \in States
    BY <1>1, <2>3, NormalizedAppend, NormalizedTyped
  <2> HIDE DEF first, Second
  <2>8. first.out \o Append(Second(r).out, word) = Append(first.out \o Second(r).out, word)
    BY <1>1, <2>7 DEF States
  <2>9. /\ Second(s).control = IF Second(r).control THEN word # "end" ELSE word = "escape"
        /\ Second(s).out = IF Plain(word, Second(r).control)
                           THEN Append(Second(r).out, word) ELSE Second(r).out
    BY <2>7 DEF StepOf
  <2>10. /\ StepOf(Joined(r), word).control = Second(s).control
         /\ StepOf(Joined(r), word).out = first.out \o Second(s).out
    BY <2>8, <2>9 DEF StepOf
  <2>11. StepOf(Joined(r), word) =
           [control |-> StepOf(Joined(r), word).control, out |-> StepOf(Joined(r), word).out]
    BY DEF StepOf
  <2> QED
    BY <2>6, <2>10, <2>11
<1>4. T = Nat
  <2> HIDE DEF T
  <2>1. T \in SUBSET Nat
    BY DEF T
  <2> QED BY <1>2, <1>3, <2>1, Induction
<1>5. Len(b) \in Nat
  OBVIOUS
<1>6. Len(b) \in T
  <2> HIDE DEF T
  <2> QED BY <1>4, <1>5
<1> QED
  BY <1>6


-----------------------------------------------------------------------------
(* A window on a text.                                                     *)

(* The least of some numbers from 1 on.                                    *)
LEMMA Least ==
    ASSUME NEW S \in SUBSET (Nat \ {0}), S # {}
    PROVE  Min(S) \in S /\ \A i \in S : Min(S) <= i
<1>1. S \in SUBSET Nat
  OBVIOUS
<1>2. PICK n \in S : \A m \in S : ~(<<m, n>> \in OpToRel(<, Nat))
  BY <1>1, WFMin, NatLessThanWellFounded
<1>3. ASSUME NEW m \in S PROVE n <= m
  <2>1. m \in Nat /\ n \in Nat
    BY <1>1
  <2>2. ~(m < n)
    BY <1>2, <2>1 DEF OpToRel
  <2> QED BY <2>1, <2>2
<1>4. \E x \in S : \A y \in S : x =< y
  BY <1>3
<1> QED
  BY <1>4, Zenon DEF Min

(* The first marker of a window and its last pull.                         *)
LEMMA FirstMarker ==
    ASSUME NEW w \in Seq(Words), MarkersAt(w) # {}
    PROVE  \E i \in MarkersAt(w) :
              /\ \A x \in MarkersAt(w) : i <= x
              /\ LastPull(w) \in PullsAfter(w, i)
              /\ \A y \in PullsAfter(w, i) : y <= LastPull(w)
<1> DEFINE i == Min(MarkersAt(w))
<1>1. i \in MarkersAt(w) /\ \A x \in MarkersAt(w) : i <= x
  <2>1. MarkersAt(w) \in SUBSET (Nat \ {0})
    BY DEF MarkersAt
  <2> QED BY <2>1, Least
<1>2. PullsAfter(w, i) # {}
  BY <1>1 DEF MarkersAt
<1>3. PullsAfter(w, i) \in SUBSET (1..Len(w)) /\ Len(w) \in Nat
  BY DEF PullsAfter
<1>4. /\ Max(PullsAfter(w, i)) \in PullsAfter(w, i)
      /\ \A y \in PullsAfter(w, i) : y <= Max(PullsAfter(w, i))
  <2> HIDE DEF i
  <2> QED BY <1>2, <1>3, Greatest
<1> QED
  BY <1>1, <1>4 DEF LastPull

(* There is only one such pull.                                            *)
LEMMA TheLastPull ==
    ASSUME NEW w \in Seq(Words), NEW i \in MarkersAt(w), \A x \in MarkersAt(w) : i <= x,
           NEW j \in PullsAfter(w, i), \A y \in PullsAfter(w, i) : y <= j
    PROVE  LastPull(w) = j
<1>1. PICK k \in MarkersAt(w) :
              /\ \A x \in MarkersAt(w) : k <= x
              /\ LastPull(w) \in PullsAfter(w, k)
              /\ \A y \in PullsAfter(w, k) : y <= LastPull(w)
  BY FirstMarker
<1>2. i \in Nat /\ k \in Nat /\ i <= k /\ k <= i
  BY <1>1 DEF MarkersAt
<1>3. k = i
  BY <1>2
<1>4. LastPull(w) \in Nat /\ j \in Nat
  BY <1>1 DEF PullsAfter
<1> QED
  BY <1>1, <1>3, <1>4

(* The newest words: the ones after the first k.                           *)
Forgotten(w) == IF Len(w) > History THEN Len(w) - History ELSE 0

(* They are as many as History allows, in their order.                     *)
LEMMA NewestWords ==
    ASSUME NEW w \in Seq(Words)
    PROVE  /\ Forgotten(w) \in 0..Len(w) /\ History \in Nat
           /\ Newest(w) \in Seq(Words)
           /\ Len(Newest(w)) = Len(w) - Forgotten(w)
           /\ \A x \in 1..(Len(w) - Forgotten(w)) : Newest(w)[x] = w[x + Forgotten(w)]
<1> DEFINE n == Len(w)
           m == n - History + 1
           k == Forgotten(w)
<1>1. n \in Nat /\ History \in Nat /\ m \in Int
  BY GapAssumption DEF History, Span, RightContext
<1>2. k \in 0..n
  BY <1>1 DEF Forgotten
<1>3. Max({1, m}) = k + 1
  <2>1. k + 1 \in {1, m} /\ \A y \in {1, m} : k + 1 >= y
    BY <1>1 DEF Forgotten
  <2>2. k + 1 \in Int
    BY <1>2
  <2>3. ASSUME NEW x \in {1, m}, \A y \in {1, m} : x >= y PROVE x = k + 1
    BY <1>1, <2>1, <2>2, <2>3
  <2> HIDE DEF k, m
  <2> QED BY <2>1, <2>3, Zenon DEF Max
<1>4. Newest(w) = SubSeq(w, k + 1, n)
  BY <1>3 DEF Newest
<1>5. \A x \in (k + 1)..n : w[x] \in Words
  BY <1>1, <1>2
<1> HIDE DEF k, n
<1>6. k + 1 \in Int /\ n \in Int
  BY <1>1, <1>2
<1>7. /\ Newest(w) \in Seq(Words)
      /\ Len(Newest(w)) = IF k + 1 <= n THEN n - (k + 1) + 1 ELSE 0
      /\ \A x \in 1..(n - (k + 1) + 1) : Newest(w)[x] = w[(k + 1) + x - 1]
  BY <1>4, <1>5, <1>6, SubSeqProperties
<1>8. Len(Newest(w)) = n - k /\ n - (k + 1) + 1 = n - k
  BY <1>1, <1>2, <1>7
<1>9. \A x \in 1..(n - k) : Newest(w)[x] = w[x + k]
  <2> SUFFICES ASSUME NEW x \in 1..(n - k) PROVE Newest(w)[x] = w[x + k]
    OBVIOUS
  <2>1. (k + 1) + x - 1 = x + k
    BY <1>1, <1>2
  <2> QED BY <1>7, <1>8, <2>1
<1> QED
  BY <1>1, <1>2, <1>7, <1>8, <1>9 DEF k, n


(* What is read after some words have been forgotten is the rest of the    *)
(* whole.                                                                  *)
LEMMA AfterForgetting ==
    ASSUME NEW w \in Seq(Words), NEW more \in Seq(Words)
    PROVE  LET k == Forgotten(w)
               full == w \o more
               window == Newest(w) \o more
           IN  /\ window \in Seq(Words) /\ full \in Seq(Words)
               /\ k \in 0..Len(w) /\ Len(w) \in Nat /\ Len(more) \in Nat
               /\ Len(full) = Len(w) + Len(more)
               /\ Len(window) = Len(full) - k
               /\ \A x \in 1..(Len(full) - k) : window[x] = full[x + k]
               /\ \A x \in 1..Len(w) : full[x] = w[x]
<1> DEFINE k == Forgotten(w)
           newest == Newest(w)
           n == Len(w)
           full == w \o more
           window == newest \o more
<1>1. /\ n \in Nat /\ Len(more) \in Nat /\ k \in 0..n
      /\ newest \in Seq(Words) /\ Len(newest) = n - k
      /\ \A x \in 1..(n - k) : newest[x] = w[x + k]
  <2>1. n \in Nat /\ Len(more) \in Nat
    OBVIOUS
  <2> QED BY <2>1, NewestWords, Zenon
<1> HIDE DEF k, newest
<1>2. /\ full \in Seq(Words) /\ Len(full) = n + Len(more)
      /\ \A x \in 1..(n + Len(more)) : full[x] = IF x <= n THEN w[x] ELSE more[x - n]
  BY ConcatProperties
<1>3. /\ window \in Seq(Words) /\ Len(window) = (n - k) + Len(more)
      /\ \A x \in 1..((n - k) + Len(more)) :
            window[x] = IF x <= n - k THEN newest[x] ELSE more[x - (n - k)]
  <2>1. /\ window \in Seq(Words) /\ Len(window) = Len(newest) + Len(more)
        /\ \A x \in 1..(Len(newest) + Len(more)) :
              window[x] = IF x <= Len(newest) THEN newest[x] ELSE more[x - Len(newest)]
    BY <1>1, ConcatProperties
  <2>2. Len(newest) = n - k
    BY <1>1
  <2> HIDE DEF n, window
  <2> QED BY <2>1, <2>2, Zenon
<1> HIDE DEF full, window, n
<1>4. ASSUME NEW x \in 1..(Len(full) - k) PROVE window[x] = full[x + k]
  <2>1. x \in Nat /\ x \in 1..((n - k) + Len(more)) /\ x + k \in 1..(n + Len(more))
    BY <1>1, <1>2
  <2>2. window[x] = IF x <= n - k THEN newest[x] ELSE more[x - (n - k)]
    BY <1>3, <2>1
  <2>3. full[x + k] = IF x + k <= n THEN w[x + k] ELSE more[(x + k) - n]
    BY <1>2, <2>1
  <2>4. x <= n - k <=> x + k <= n
    BY <1>1, <2>1
  <2>5. x - (n - k) = (x + k) - n
    BY <1>1, <2>1
  <2>6. x <= n - k => newest[x] = w[x + k]
    BY <1>1, <2>1
  <2> QED BY <2>2, <2>3, <2>4, <2>5, <2>6
<1>5. Len(window) = Len(full) - k
  BY <1>1, <1>2, <1>3
<1>6. ASSUME NEW x \in 1..n PROVE full[x] = w[x]
  <2>1. x \in 1..(n + Len(more)) /\ x <= n
    BY <1>1
  <2> QED BY <1>2, <2>1
<1> QED
  BY <1>1, <1>2, <1>3, <1>4, <1>5, <1>6 DEF full, window, n, k, newest

(* A marker that is not seen any more when the oldest words are forgotten  *)
(* was seen before: History words hold the longest marker and what decides *)
(* whether it is one.                                                      *)
LEMMA Forgetting ==
    ASSUME NEW w \in Seq(Words), NEW more \in Seq(Words), NEW final \in BOOLEAN,
           Matches(w \o more, final)
    PROVE  Matches(w, FALSE) \/ Matches(Newest(w) \o more, final)
<1> DEFINE k == Forgotten(w)
           n == Len(w)
           full == w \o more
           window == Newest(w) \o more
           N == Len(full)
<1>1. /\ window \in Seq(Words) /\ full \in Seq(Words)
      /\ k \in 0..n /\ n \in Nat /\ Len(more) \in Nat
      /\ N = n + Len(more)
      /\ Len(window) = N - k
      /\ \A x \in 1..(N - k) : window[x] = full[x + k]
      /\ \A x \in 1..n : full[x] = w[x]
  BY AfterForgetting
<1>2. k = 0 \/ k = n - (Gap + 3)
  BY <1>1, GapAssumption DEF Forgotten, History, Span, RightContext
<1>3. Matches(full, final)
  OBVIOUS
<1> SUFFICES ASSUME ~Matches(window, final) PROVE Matches(w, FALSE)
  OBVIOUS
<1>4. DOMAIN window = 1..(N - k) /\ DOMAIN full = 1..N /\ DOMAIN w = 1..n
  BY <1>1
<1> HIDE DEF k, full, window, n, N
<1>5. CASE Contains(full, "bar")
  <2>1. PICK x \in 1..N : full[x] = "bar"
    BY <1>5 DEF Contains, N
  <2>2. CASE x <= k
    <3>1. x \in 1..n
      BY <1>1, <2>2
    <3>2. w[x] = "bar"
      BY <1>1, <2>1, <3>1
    <3>3. Contains(w, "bar")
      BY <3>1, <3>2 DEF Contains, n
    <3> QED BY <3>3 DEF Matches
  <2>3. CASE x > k
    <3>1. x - k \in 1..(N - k) /\ (x - k) + k = x
      BY <1>1, <2>3
    <3>2. window[x - k] = "bar"
      BY <1>1, <2>1, <3>1
    <3>3. Contains(window, "bar")
      BY <1>1, <3>1, <3>2 DEF Contains
    <3> QED BY <3>3 DEF Matches
  <2>4. x <= k \/ x > k
    BY <1>1
  <2> QED BY <2>2, <2>3, <2>4, Zenon
<1>6. CASE MarkersAt(full) # {} /\ ~Harmless(full) /\ ~Undecided(full, final)
  <2>1. PICK i \in MarkersAt(full) :
              /\ \A x \in MarkersAt(full) : i <= x
              /\ LastPull(full) \in PullsAfter(full, i)
              /\ \A y \in PullsAfter(full, i) : y <= LastPull(full)
    BY <1>1, <1>6, FirstMarker
  <2> DEFINE j == LastPull(full)
  <2>2. /\ i \in 1..N /\ full[i] = "model"
        /\ j \in (i + 1)..(i + 1 + Gap) /\ j \in 1..N /\ full[j] = "pull"
    BY <1>4, <2>1 DEF MarkersAt, PullsAfter
  <2>3. /\ ~(j < N /\ full[j + 1] = "request")
        /\ ~(~final /\ j = N)
    BY <1>6 DEF Harmless, Undecided, N
  <2>4. \A y \in PullsAfter(full, i) : y <= j
    BY <2>1
  <2> HIDE DEF j
  <2>5. /\ i \in Nat /\ j \in Nat /\ k \in Nat /\ N \in Nat /\ Gap \in Nat
        /\ i < j /\ j <= i + 1 + Gap /\ j <= N /\ i >= 1
    BY <1>1, <2>2, GapAssumption
  <2>6. CASE i > k
    <3> DEFINE a == i - k
               b == j - k
    <3>1. /\ a \in 1..(N - k) /\ a + k = i
          /\ b \in 1..(N - k) /\ b + k = j /\ b \in (a + 1)..(a + 1 + Gap)
      BY <2>5, <2>6
    <3>2. b \in PullsAfter(window, a)
      <4>1. window[b] = "pull"
        BY <1>1, <2>2, <3>1
      <4> QED BY <1>4, <3>1, <4>1 DEF PullsAfter
    <3>3. a \in MarkersAt(window)
      <4>1. window[a] = "model"
        BY <1>1, <2>2, <3>1
      <4> HIDE DEF a, b
      <4> QED BY <1>4, <3>1, <3>2, <4>1 DEF MarkersAt
    <3>4. ASSUME NEW x \in 1..(N - k), NEW y \in PullsAfter(window, x)
          PROVE  y + k \in PullsAfter(full, x + k)
      <4>1. y \in (x + 1)..(x + 1 + Gap) /\ y \in 1..(N - k) /\ window[y] = "pull"
        BY <1>4, <3>4 DEF PullsAfter
      <4>2. y + k \in 1..N /\ full[y + k] = "pull"
        BY <1>1, <2>5, <4>1
      <4>3. y + k \in ((x + k) + 1)..((x + k) + 1 + Gap)
        BY <2>5, <4>1
      <4> QED BY <1>4, <4>2, <4>3 DEF PullsAfter
    <3>5. ASSUME NEW x \in MarkersAt(window) PROVE a <= x
      <4>1. x \in 1..(N - k) /\ window[x] = "model" /\ PullsAfter(window, x) # {}
        BY <1>4 DEF MarkersAt
      <4>2. x + k \in 1..N /\ full[x + k] = "model"
        BY <1>1, <2>5, <4>1
      <4>3. PullsAfter(full, x + k) # {}
        BY <3>4, <4>1
      <4>4. x + k \in MarkersAt(full)
        BY <1>4, <4>2, <4>3 DEF MarkersAt
      <4>5. i <= x + k
        BY <2>1, <4>4
      <4> QED BY <2>5, <4>1, <4>5
    <3>6. ASSUME NEW y \in PullsAfter(window, a) PROVE y <= b
      <4>1. y + k \in PullsAfter(full, i)
        <5> HIDE DEF a, b
        <5> QED BY <3>1, <3>4
      <4>2. y + k <= j /\ y \in Nat
        BY <2>4, <4>1, <1>4, <2>5 DEF PullsAfter
      <4> QED BY <2>5, <4>2
    <3>7. LastPull(window) = b
      <4> HIDE DEF a, b
      <4> QED BY <1>1, <3>2, <3>3, <3>5, <3>6, TheLastPull
    <3>8. ~Undecided(window, final)
      <4>1. b = N - k => j = N
        BY <2>5
      <4> QED BY <1>1, <2>3, <3>7, <4>1 DEF Undecided
    <3>9. ~Harmless(window)
      <4>1. CASE b < N - k
        <5>1. b + 1 \in 1..(N - k) /\ (b + 1) + k = j + 1 /\ j < N
          BY <2>5, <3>1, <4>1
        <5>2. window[b + 1] = full[j + 1]
          BY <1>1, <5>1
        <5> QED BY <1>1, <2>3, <3>7, <5>1, <5>2 DEF Harmless
      <4>2. CASE ~(b < N - k)
        BY <1>1, <3>7, <4>2 DEF Harmless
      <4> QED BY <4>1, <4>2
    <3>10. Matches(window, final)
      BY <3>3, <3>8, <3>9 DEF Matches
    <3> QED BY <3>10
  <2>7. CASE i <= k
    <3>1. /\ k = n - (Gap + 3) /\ n \in Nat /\ n <= N
          /\ i \in 1..n /\ j \in 1..n /\ j + 1 \in 1..n /\ j < n
      BY <1>1, <1>2, <2>5, <2>7
    <3>2. ASSUME NEW x \in 1..n, NEW y \in PullsAfter(w, x)
          PROVE  y \in PullsAfter(full, x)
      BY <1>1, <1>4, <3>1, <3>2 DEF PullsAfter
    <3>3. j \in PullsAfter(w, i)
      BY <1>1, <1>4, <2>2, <3>1 DEF PullsAfter
    <3>4. i \in MarkersAt(w)
      BY <1>1, <1>4, <2>2, <3>1, <3>3 DEF MarkersAt
    <3>5. ASSUME NEW x \in MarkersAt(w) PROVE i <= x
      <4>1. x \in 1..n /\ w[x] = "model" /\ PullsAfter(w, x) # {}
        BY <1>4 DEF MarkersAt
      <4>2. x \in 1..N /\ full[x] = "model"
        BY <1>1, <3>1, <4>1
      <4>3. x \in MarkersAt(full)
        BY <1>4, <3>2, <4>1, <4>2 DEF MarkersAt
      <4> QED BY <2>1, <4>3
    <3>6. \A y \in PullsAfter(w, i) : y <= j
      BY <2>4, <3>1, <3>2
    <3>7. LastPull(w) = j
      BY <3>3, <3>4, <3>5, <3>6, TheLastPull
    <3>8. w[j + 1] # "request"
      <4>1. j < N
        BY <3>1, <1>1
      <4> QED BY <1>1, <2>3, <3>1, <4>1
    <3>9. ~Harmless(w)
      BY <3>7, <3>8 DEF Harmless
    <3>10. ~Undecided(w, FALSE)
      BY <2>5, <3>1, <3>7 DEF Undecided, n
    <3> QED BY <3>4, <3>9, <3>10 DEF Matches
  <2>8. i > k \/ i <= k
    BY <2>5
  <2> QED BY <2>6, <2>7, <2>8, Zenon
<1>7. \/ Contains(full, "bar")
      \/ MarkersAt(full) # {} /\ ~Harmless(full) /\ ~Undecided(full, final)
  BY <1>3 DEF Matches
<1> QED
  BY <1>5, <1>6, <1>7, Zenon


(* Words forgotten early would be forgotten by now.                        *)
LEMMA NewestOfNewest ==
    ASSUME NEW w \in Seq(Words), NEW more \in Seq(Words)
    PROVE  Newest(Newest(w) \o more) = Newest(w \o more)
<1> DEFINE k == Forgotten(w)
           n == Len(w)
           full == w \o more
           window == Newest(w) \o more
           N == Len(full)
           K == Forgotten(full)
           L == Forgotten(window)
           a == Newest(window)
           b == Newest(full)
<1>1. /\ window \in Seq(Words) /\ full \in Seq(Words)
      /\ k \in 0..n /\ n \in Nat /\ Len(more) \in Nat
      /\ N = n + Len(more)
      /\ Len(window) = N - k
      /\ \A x \in 1..(N - k) : window[x] = full[x + k]
  BY AfterForgetting
<1>2. /\ K \in 0..N /\ History \in Nat
      /\ b \in Seq(Words) /\ Len(b) = N - K
      /\ \A x \in 1..(N - K) : b[x] = full[x + K]
  BY <1>1, NewestWords
<1>3. /\ L \in 0..(N - k)
      /\ a \in Seq(Words) /\ Len(a) = (N - k) - L
      /\ \A x \in 1..((N - k) - L) : a[x] = window[x + L]
  <2>1. /\ L \in 0..Len(window)
        /\ a \in Seq(Words) /\ Len(a) = Len(window) - L
        /\ \A x \in 1..(Len(window) - L) : a[x] = window[x + L]
    BY <1>1, NewestWords
  <2>2. Len(window) = N - k
    BY <1>1
  <2> HIDE DEF window, N, k, L, a
  <2> QED BY <2>1, <2>2, Zenon
<1>4. L + k = K
  <2>1. /\ K = IF N > History THEN N - History ELSE 0
        /\ k = IF n > History THEN n - History ELSE 0
        /\ L = IF Len(window) > History THEN Len(window) - History ELSE 0
    BY DEF Forgotten
  <2> HIDE DEF window, N, k, L, n, K
  <2> QED BY <1>1, <1>2, <2>1
<1> HIDE DEF window, full, N, k, L, n, K, a, b
<1>5. Len(a) = Len(b)
  <2>1. N \in Nat /\ k \in Nat /\ L \in Nat /\ K \in Nat
    BY <1>1, <1>2, <1>3
  <2>2. (N - k) - L = N - K
    BY <1>4, <2>1
  <2> QED BY <1>2, <1>3, <2>2
<1>6. ASSUME NEW x \in 1..Len(a) PROVE a[x] = b[x]
  <2>1. /\ x \in 1..((N - k) - L) /\ x \in 1..(N - K) /\ x + L \in 1..(N - k)
        /\ (x + L) + k = x + K
    BY <1>1, <1>2, <1>3, <1>4, <1>5
  <2>2. a[x] = window[x + L] /\ b[x] = full[x + K] /\ window[x + L] = full[(x + L) + k]
    BY <1>1, <1>2, <1>3, <2>1
  <2> QED BY <2>1, <2>2
<1>7. a = b
  BY <1>2, <1>3, <1>5, <1>6, SeqEqual
<1> QED
  BY <1>7 DEF a, b, full, window

-----------------------------------------------------------------------------
(* The scanner.                                                            *)

Remains(text) == Normalized(text, FALSE)

(* What a scanner that has found nothing knows of the text it has read.    *)
Follows(scanner, text) ==
    /\ scanner.found \in BOOLEAN
    /\ ~scanner.found =>
          /\ scanner.control = Remains(text).control
          /\ scanner.history = Newest(Remains(text).out)
          /\ ~Matches(Remains(text).out, FALSE)

(* A new scanner has read nothing.                                         *)
LEMMA FollowsFromTheStart == Follows(Scanner, <<>>)
<1>1. Remains(<<>>) = [control |-> FALSE, out |-> <<>>]
  BY NormalizedEmpty DEF Remains
<1>2. <<>> \in Seq(Words) /\ Len(<<>>) = 0
  OBVIOUS
<1>3. Newest(<<>>) = <<>>
  <2>1. Newest(<<>>) \in Seq(Words) /\ Forgotten(<<>>) \in 0..0 /\ Len(Newest(<<>>)) = 0 - Forgotten(<<>>)
    BY <1>2, NewestWords
  <2>2. Len(Newest(<<>>)) = 0
    BY <2>1
  <2> QED BY <2>1, <2>2
<1>4. ~Matches(<<>>, FALSE)
  BY <1>2 DEF Matches, Contains, MarkersAt
<1>5. Scanner.found = FALSE /\ Scanner.control = FALSE /\ Scanner.history = <<>>
  BY DEF Scanner
<1>6. Remains(<<>>).control = FALSE /\ Remains(<<>>).out = <<>>
  BY <1>1
<1> QED
  BY <1>3, <1>4, <1>5, <1>6, Zenon DEF Follows

(* A chunk more, however the text is cut.                                  *)
LEMMA FollowsChunk ==
    ASSUME NEW text \in Seq(Words), NEW chunk \in Seq(Words), NEW scanner, Follows(scanner, text)
    PROVE  Follows(Scan(scanner, chunk, FALSE), text \o chunk)
<1> DEFINE before == Remains(text)
           normal == Normalized(chunk, scanner.control)
           after == Remains(text \o chunk)
           window == scanner.history \o normal.out
           next == Scan(scanner, chunk, FALSE)
<1>1. CASE scanner.found
  BY <1>1 DEF Follows, Scan
<1>2. CASE ~scanner.found
  <2>1. /\ scanner.control = before.control /\ scanner.history = Newest(before.out)
        /\ ~Matches(before.out, FALSE)
    BY <1>2 DEF Follows
  <2>2. before \in States /\ before.control \in BOOLEAN /\ before.out \in Seq(Words)
    BY NormalizedTyped DEF States, Remains
  <2>3. normal \in States /\ normal.control \in BOOLEAN /\ normal.out \in Seq(Words)
    BY <2>1, <2>2, NormalizedTyped DEF States
  <2>4. after = [control |-> normal.control, out |-> before.out \o normal.out]
    BY <2>1, NormalizedConcat DEF Remains
  <2>5. /\ next.found = Matches(window, FALSE)
        /\ next.control = normal.control
        /\ ~next.found => next.history = Newest(window)
    <3> HIDE DEF window, normal
    <3> QED BY <1>2 DEF Scan, window, normal
  <2> HIDE DEF before, normal, after, next
  <2>6. Matches(window, FALSE) \in BOOLEAN
    BY DEF Matches
  <2>7. SUFFICES ASSUME ~Matches(window, FALSE)
                 PROVE  /\ Newest(window) = Newest(after.out)
                        /\ ~Matches(after.out, FALSE)
    <3>1. after.control = normal.control
      BY <2>4
    <3>2. Follows(next, text \o chunk) <=>
             /\ next.found \in BOOLEAN
             /\ ~next.found =>
                   /\ next.control = after.control
                   /\ next.history = Newest(after.out)
                   /\ ~Matches(after.out, FALSE)
      BY Zenon DEF Follows, after
    <3> HIDE DEF window
    <3> QED BY <2>5, <2>6, <3>1, <3>2, Zenon DEF next
  <2>8. window = Newest(before.out) \o normal.out /\ after.out = before.out \o normal.out
    BY <2>1, <2>4
  <2>9. Newest(window) = Newest(after.out)
    BY <2>2, <2>3, <2>8, NewestOfNewest
  <2>10. FALSE \in BOOLEAN
    OBVIOUS
  <2>11. ~Matches(before.out \o normal.out, FALSE)
    <3> HIDE DEF window
    <3> QED BY <2>1, <2>2, <2>3, <2>7, <2>8, <2>10, Forgetting, Zenon
  <2> QED BY <2>8, <2>9, <2>11
<1>3. scanner.found \in BOOLEAN
  BY DEF Follows
<1> QED BY <1>1, <1>2, <1>3

(* At the end of the text, a trace of a download has been found: the text  *)
(* is as good as read at once.                                             *)
LEMMA NothingIsMissed ==
    ASSUME NEW text \in Seq(Words), NEW scanner, Follows(scanner, text), HasMarker(text)
    PROVE  Finish(scanner).found
<1>1. CASE scanner.found
  BY <1>1 DEF Finish, Scan
<1>2. CASE ~scanner.found
  <2> DEFINE before == Remains(text)
  <2>1. /\ scanner.control = before.control /\ scanner.history = Newest(before.out)
        /\ ~Matches(before.out, FALSE)
    BY <1>2 DEF Follows
  <2>2. before.control \in BOOLEAN /\ before.out \in Seq(Words)
    BY NormalizedTyped DEF States, Remains
  <2>3. Normalized(<<>>, scanner.control) = [control |-> before.control, out |-> <<>>]
    BY <2>1, <2>2, NormalizedEmpty
  <2>4. Matches(before.out, TRUE)
    BY DEF HasMarker, Remains
  <2> HIDE DEF before
  <2>5. Newest(before.out) \in Seq(Words) /\ <<>> \in Seq(Words) /\ TRUE \in BOOLEAN
    BY <2>2, NewestWords
  <2>6. before.out \o <<>> = before.out /\ scanner.history \o <<>> = Newest(before.out) \o <<>>
    BY <2>1, <2>2
  <2>7. Matches(before.out \o <<>>, TRUE)
    BY <2>4, <2>6
  <2>8. Matches(Newest(before.out) \o <<>>, TRUE)
    BY <2>1, <2>2, <2>5, <2>7, Forgetting, Zenon
  <2>9. Finish(scanner).found = Matches(scanner.history \o <<>>, TRUE)
    <3>1. Finish(scanner) =
             [history |-> IF Matches(scanner.history \o Normalized(<<>>, scanner.control).out, TRUE)
                          THEN <<>> ELSE Newest(scanner.history \o Normalized(<<>>, scanner.control).out),
              control |-> Normalized(<<>>, scanner.control).control,
              found |-> Matches(scanner.history \o Normalized(<<>>, scanner.control).out, TRUE)]
      BY <1>2, Zenon DEF Finish, Scan
    <3>2. Normalized(<<>>, scanner.control).out = <<>>
      BY <2>3
    <3> DEFINE m == Matches(scanner.history \o <<>>, TRUE)
               kept == IF m THEN <<>> ELSE Newest(scanner.history \o <<>>)
               c == Normalized(<<>>, scanner.control).control
    <3>3. Finish(scanner) = [history |-> kept, control |-> c, found |-> m]
      BY <3>1, <3>2, Zenon
    <3> HIDE DEF m, kept, c
    <3>4. Finish(scanner).found = m
      BY <3>3
    <3> QED BY <3>4 DEF m
  <2> QED BY <2>6, <2>8, <2>9
<1> QED BY <1>1, <1>2


(* A text with the trace of a download is found out, however many chunks   *)
(* it comes in and wherever it is cut: what scan() and finish() of the     *)
(* download marker scanner promise.                                        *)
THEOREM NoMarkerIsEverMissed ==
    ASSUME NEW n \in Nat, NEW chunk \in [1..n -> Seq(Words)],
           NEW text \in [0..n -> Seq(Words)], NEW scanner,
           text[0] = <<>>, \A i \in 1..n : text[i] = text[i - 1] \o chunk[i],
           scanner[0] = Scanner, \A i \in 1..n : scanner[i] = Scan(scanner[i - 1], chunk[i], FALSE),
           HasMarker(text[n])
    PROVE  Finish(scanner[n]).found
<1> DEFINE T == {m \in Nat : m <= n => Follows(scanner[m], text[m])}
<1>1. 0 \in T
  BY FollowsFromTheStart
<1>2. ASSUME NEW m \in T PROVE m + 1 \in T
  <2>1. m \in Nat /\ (m <= n => Follows(scanner[m], text[m]))
    BY <1>2
  <2>2. SUFFICES ASSUME m + 1 <= n PROVE Follows(scanner[m + 1], text[m + 1])
    BY <2>1
  <2>3. m <= n /\ m \in 0..n /\ m + 1 \in 1..n /\ (m + 1) - 1 = m
    BY <2>1, <2>2
  <2>4. Follows(Scan(scanner[m], chunk[m + 1], FALSE), text[m] \o chunk[m + 1])
    BY <2>1, <2>3, FollowsChunk
  <2>5. /\ scanner[m + 1] = Scan(scanner[m], chunk[m + 1], FALSE)
        /\ text[m + 1] = text[m] \o chunk[m + 1]
    BY <2>3
  <2> QED BY <2>4, <2>5
<1>3. n \in T
  <2> HIDE DEF T
  <2>1. T \in SUBSET Nat
    BY DEF T
  <2>2. T = Nat
    BY <1>1, <1>2, <2>1, Induction
  <2> QED BY <2>2
<1>4. Follows(scanner[n], text[n])
  BY <1>3
<1> QED
  BY <1>4, NothingIsMissed

-----------------------------------------------------------------------------
(* A child.                                                                *)

Scanners == [history : Seq(Words), control : BOOLEAN, found : BOOLEAN]

Calls ==
    [status : {"RUNNING", "EXITED"}, code : {0, 1, None},
     input : {"PENDING", "WRITTEN", "BROKEN", "REPORTED"},
     text : [Streams -> Seq(Words)], scanner : [Streams -> Scanners],
     limited : BOOLEAN, timedOut : BOOLEAN, stdinFailed : BOOLEAN,
     killRequested : BOOLEAN, killEscalated : BOOLEAN, closing : BOOLEAN]

(* What the adapter has seen of a child is what it wrote: its scanners     *)
(* follow its streams, too much is noticed, nobody waits for its stdin     *)
(* when it is gone, and a stdin that broke was held against it.            *)
CallInv(c) ==
    /\ c \in Calls
    /\ \A s \in Streams : Follows(c.scanner[s], c.text[s])
    /\ ~BlockedOutput(c) => \A s \in Streams : Len(c.text[s]) <= MaxCapture
    /\ c.closing => c.status = "EXITED"
    /\ c.status = "EXITED" => c.input # "PENDING"
    /\ c.input = "REPORTED" => c.stdinFailed

(* A scanner stays a scanner.                                              *)
LEMMA ScanTyped ==
    ASSUME NEW scanner \in Scanners, NEW chunk \in Seq(Words)
    PROVE  Scan(scanner, chunk, FALSE) \in Scanners
<1> DEFINE normal == Normalized(chunk, scanner.control)
           window == scanner.history \o normal.out
           m == Matches(window, FALSE)
           kept == IF m THEN <<>> ELSE Newest(window)
<1>1. scanner.history \in Seq(Words) /\ scanner.control \in BOOLEAN
  BY DEF Scanners
<1>2. normal.control \in BOOLEAN /\ normal.out \in Seq(Words)
  BY <1>1, NormalizedTyped DEF States
<1> HIDE DEF normal
<1>3. window \in Seq(Words)
  BY <1>1, <1>2
<1>4. Newest(window) \in Seq(Words)
  <2> HIDE DEF window
  <2> QED BY <1>3, NewestWords
<1>5. <<>> \in Seq(Words)
  OBVIOUS
<1>6. kept \in Seq(Words)
  <2> HIDE DEF window, m
  <2> QED BY <1>4, <1>5
<1>7. m \in BOOLEAN
  BY Zenon DEF Matches
<1>8. Scan(scanner, chunk, FALSE) =
         IF scanner.found THEN scanner ELSE [history |-> kept, control |-> normal.control, found |-> m]
  BY Zenon DEF Scan, normal
<1> HIDE DEF kept, m
<1>9. [history |-> kept, control |-> normal.control, found |-> m] \in Scanners
  BY <1>2, <1>6, <1>7 DEF Scanners
<1> QED
  BY <1>8, <1>9, Zenon

(* The child just started.                                                 *)
LEMMA SpawnedCall ==
    ASSUME NEW c \in Spawned
    PROVE  CallInv(c)
<1>1. Scanner \in Scanners /\ Scanner.found = FALSE /\ <<>> \in Seq(Words) /\ Len(<<>>) = 0
  BY DEF Scanner, Scanners
<1>2. /\ NewCall \in Calls /\ NewCall.text = [s \in Streams |-> <<>>]
      /\ NewCall.scanner = [s \in Streams |-> Scanner]
      /\ ~NewCall.closing /\ NewCall.status = "RUNNING" /\ NewCall.input # "REPORTED"
  <2> DEFINE i == IF phase = "GENERATE" THEN "PENDING" ELSE "WRITTEN"
             text == [s \in Streams |-> <<>>]
             scanner == [s \in Streams |-> Scanner]
  <2>1. i \in {"PENDING", "WRITTEN"}
    OBVIOUS
  <2>2. text \in [Streams -> Seq(Words)] /\ scanner \in [Streams -> Scanners]
    BY <1>1
  <2>3. NewCall = [status |-> "RUNNING", code |-> None, input |-> i, text |-> text, scanner |-> scanner,
                   limited |-> FALSE, timedOut |-> FALSE, stdinFailed |-> FALSE,
                   killRequested |-> FALSE, killEscalated |-> FALSE, closing |-> FALSE]
    BY DEF NewCall
  <2> HIDE DEF i, text, scanner
  <2>4. /\ NewCall \in Calls /\ NewCall.text = text /\ NewCall.scanner = scanner
        /\ ~NewCall.closing /\ NewCall.status = "RUNNING" /\ NewCall.input # "REPORTED"
    BY <2>1, <2>2, <2>3 DEF Calls
  <2> QED BY <2>4 DEF text, scanner
<1>22. /\ c \in Calls /\ c.text = [s \in Streams |-> <<>>] /\ c.scanner = [s \in Streams |-> Scanner]
      /\ ~c.closing /\ c.status = "RUNNING" /\ (c.input = "REPORTED" => c.stdinFailed)
  BY <1>2 DEF Spawned, Calls
<1>3. \A s \in Streams : c.text[s] = <<>> /\ c.scanner[s] = Scanner
  BY <1>22
<1>4. \A s \in Streams : Follows(c.scanner[s], c.text[s]) /\ Len(c.text[s]) <= MaxCapture
  BY <1>1, <1>3, FollowsFromTheStart, HarnessAssumption
<1> QED
  BY <1>22, <1>4 DEF CallInv

(* A chunk of its output.                                                  *)
LEMMA AppendedCall ==
    ASSUME NEW c, CallInv(c), NEW s \in Streams, NEW chunk \in Seq(Words), ~c.scanner[s].found
    PROVE  CallInv(Appended(c, s, chunk))
<1> DEFINE text == [c.text EXCEPT ![s] = c.text[s] \o chunk]
           scanner == [c.scanner EXCEPT ![s] = Scan(c.scanner[s], chunk, FALSE)]
           read == [c EXCEPT !.text = text, !.scanner = scanner]
           next == Appended(c, s, chunk)
           over == ~BlockedOutput(read) /\ Len(read.text[s]) > MaxCapture
<1>1. /\ c \in Calls /\ c.text \in [Streams -> Seq(Words)] /\ c.scanner \in [Streams -> Scanners]
      /\ \A r \in Streams : Follows(c.scanner[r], c.text[r])
  BY DEF CallInv, Calls
<1>2. text \in [Streams -> Seq(Words)] /\ scanner \in [Streams -> Scanners]
  <2>1. c.text[s] \o chunk \in Seq(Words) /\ Scan(c.scanner[s], chunk, FALSE) \in Scanners
    <3>1. c.text[s] \in Seq(Words) /\ c.scanner[s] \in Scanners
      BY <1>1
    <3>2. c.text[s] \o chunk \in Seq(Words)
      BY <3>1
    <3>3. Scan(c.scanner[s], chunk, FALSE) \in Scanners
      BY <3>1, ScanTyped, Zenon
    <3> QED BY <3>2, <3>3
  <2> QED BY <1>1, <2>1
<1>3. \A r \in Streams : Follows(scanner[r], text[r])
  <2>1. Follows(Scan(c.scanner[s], chunk, FALSE), c.text[s] \o chunk)
    BY <1>1, FollowsChunk
  <2> QED BY <1>1, <2>1
<1>4. \A r \in Streams \ {s} : text[r] = c.text[r] /\ scanner[r] = c.scanner[r]
  BY <1>1
<1> HIDE DEF text, scanner
<1>5. /\ read \in Calls /\ read.text = text /\ read.scanner = scanner
      /\ read.limited = c.limited /\ read.closing = c.closing /\ read.status = c.status
      /\ read.input = c.input /\ read.stdinFailed = c.stdinFailed
  BY <1>1, <1>2 DEF Calls
<1> HIDE DEF read
<1>6. next = IF over THEN [[read EXCEPT !.limited = TRUE] EXCEPT !.killRequested = TRUE]
             ELSE IF Detected(read) /\ ~Detected(c) THEN [read EXCEPT !.killRequested = TRUE] ELSE read
  <2>1. ~(over /\ Detected(read))
    BY DEF BlockedOutput
  <2>2. next = CASE over -> Terminated([read EXCEPT !.limited = TRUE])
                 [] Detected(read) /\ ~Detected(c) -> Terminated(read)
                 [] OTHER -> read
    BY DEF Appended, read, text, scanner
  <2> HIDE DEF over, next
  <2> QED BY <2>1, <2>2 DEF Terminated
<1>7. /\ next \in Calls /\ next.text = text /\ next.scanner = scanner
      /\ next.closing = c.closing /\ next.status = c.status
      /\ next.input = c.input /\ next.stdinFailed = c.stdinFailed
      /\ next.limited = (over \/ c.limited)
  <2> HIDE DEF over, next
  <2>1. over \in BOOLEAN
    BY DEF over
  <2>2. CASE over
    BY <1>5, <1>6, <2>2 DEF Calls
  <2>3. CASE ~over /\ Detected(read) /\ ~Detected(c)
    BY <1>5, <1>6, <2>3 DEF Calls
  <2>4. CASE ~over /\ ~(Detected(read) /\ ~Detected(c))
    BY <1>5, <1>6, <2>4 DEF Calls
  <2> QED BY <2>1, <2>2, <2>3, <2>4
<1>8. ASSUME ~BlockedOutput(next), NEW r \in Streams PROVE Len(text[r]) <= MaxCapture
  <2>1. ~over /\ ~c.limited /\ ~Detected(next)
    BY <1>7, <1>8 DEF BlockedOutput
  <2>2. \A q \in Streams : ~scanner[q].found
    BY <1>7, <2>1 DEF Detected
  <2>3. ~BlockedOutput(read)
    BY <1>5, <2>1, <2>2 DEF BlockedOutput, Detected
  <2>4. CASE r = s
    BY <1>2, <1>5, <2>1, <2>3, <2>4, HarnessAssumption
  <2>5. CASE r # s
    <3>1. ~BlockedOutput(c)
      BY <1>4, <2>1, <2>2 DEF BlockedOutput, Detected
    <3> QED BY <1>4, <2>5, <3>1 DEF CallInv
  <2> QED BY <2>4, <2>5
<1> HIDE DEF next
<1>9. /\ c.closing => c.status = "EXITED"
      /\ c.status = "EXITED" => c.input # "PENDING"
      /\ c.input = "REPORTED" => c.stdinFailed
  BY DEF CallInv
<1>10. CallInv(next)
  BY <1>3, <1>7, <1>8, <1>9 DEF CallInv
<1> QED
  BY <1>10 DEF next


-----------------------------------------------------------------------------
(* Judgements.                                                             *)

(* A check that fails, or is not decided, is not passed.                   *)
LEMMA NoPass ==
    ASSUME NEW checks, NEW c \in DOMAIN checks, checks[c] \in {"FAIL", "INDETERMINATE"}
    PROVE  Verdict(checks) # "AUTOMATED_PASS"
<1> DEFINE outcomes == {checks[d] : d \in DOMAIN checks}
<1>1. checks[c] \in outcomes
  OBVIOUS
<1>2. Verdict(checks) = CASE "FAIL" \in outcomes -> "AUTOMATED_FAIL"
          [] "FAIL" \notin outcomes /\ (outcomes = {} \/ "INDETERMINATE" \in outcomes) -> "HUMAN_REVIEW_REQUIRED"
          [] OTHER -> "AUTOMATED_PASS"
  BY DEF Verdict
<1> HIDE DEF outcomes
<1>3. CASE "FAIL" \in outcomes
  BY <1>2, <1>3
<1>4. CASE "FAIL" \notin outcomes
  <2>1. "INDETERMINATE" \in outcomes
    BY <1>1, <1>4
  <2> QED BY <1>2, <1>4, <2>1
<1> QED BY <1>3, <1>4

(* What an answer of any length is: a sequence of propositions.            *)
LEMMA AnswersAreSequences ==
    ASSUME NEW props \in Answers
    PROVE  \E n \in Nat : DOMAIN props = 1..n /\ Len(props) = n /\ props \in [1..n -> StatePropositions]
<1>1. PICK n \in 1..MaxPropositions : props \in [1..n -> StatePropositions]
  BY DEF Answers
<1>2. n \in Nat
  BY ChecksAssumption
<1>3. Len(props) = n
  BY <1>1, <1>2
<1> QED BY <1>1, <1>2, <1>3

(* A claim that no words take back is no retraction.                       *)
LEMMA StandingIsNotRetracted ==
    ASSUME NEW props \in Answers, StandingClaim(props), NEW flags
    PROVE  Scope(props, flags) = "DEFINITE"
<1>1. PICK i \in Present(props) : ~TakenBack(props, i)
  BY DEF StandingClaim
<1>2. PICK n \in Nat : DOMAIN props = 1..n /\ Len(props) = n /\ props \in [1..n -> StatePropositions]
  BY AnswersAreSequences
<1>3. i \in 1..n /\ Present(props) # {} /\ i \in Nat
  BY <1>1, <1>2 DEF Present
<1>4. ASSUME NEW S \in SUBSET Retracting(props), S # {}
      PROVE  Min(S) \in S /\ Min(S) \in 1..n /\ props[Min(S)].retracts
  <2>1. S \in SUBSET (Nat \ {0})
    BY <1>2 DEF Retracting
  <2>2. Min(S) \in S
    BY <1>4, <2>1, Least
  <2> QED BY <1>2, <2>2 DEF Retracting
<1>5. ASSUME NEW j \in i..n, props[j].retracts, j = i => ~props[j].rest.claims,
             NEW k \in j..n, Doubtful(props[k])
      PROVE  FALSE
  BY <1>1, <1>2, <1>5 DEF TakenBack
<1>6. ~ExplicitRetraction(props)
  <2> SUFFICES ASSUME ExplicitRetraction(props) PROVE FALSE
    OBVIOUS
  <2>1. PICK first : first = Min(Retracting(props))
    OBVIOUS
  <2>2. /\ first \in 1..n /\ props[first].retracts
        /\ props[first].rest.word \/ \E x \in (first + 1)..n : props[x].word
        /\ ~props[first].rest.claims /\ ((first + 1)..n) \cap Present(props) = {}
    BY <1>2, <1>4, <2>1 DEF ExplicitRetraction
  <2>3. i <= first
    BY <1>1, <1>3, <2>2
  <2>4. \E k \in first..n : Doubtful(props[k])
    <3>1. CASE props[first].rest.word
      <4>1. props[first].word
        BY <1>2, <2>2, <3>1 DEF StatePropositions
      <4> QED BY <2>2, <4>1 DEF Doubtful
    <3>2. CASE \E x \in (first + 1)..n : props[x].word
      BY <2>2, <3>2 DEF Doubtful
    <3> QED BY <2>2, <3>1, <3>2
  <2> QED BY <1>3, <1>5, <2>2, <2>3, <2>4
<1>7. ~Retracted(props)
  <2> DEFINE doubts == {x \in Retracting(props) : Doubtful(props[x])}
  <2> SUFFICES ASSUME doubts # {}, \A x \in Present(props) : x < Min(doubts) PROVE FALSE
    BY <1>6 DEF Retracted
  <2>1. PICK d : d = Min(doubts)
    OBVIOUS
  <2>2. d \in doubts /\ d \in 1..n /\ props[d].retracts
    BY <1>4, <2>1
  <2>3. Doubtful(props[d]) /\ i < d
    BY <1>1, <2>1, <2>2
  <2> HIDE DEF doubts
  <2> QED BY <1>3, <1>5, <2>2, <2>3
<1> QED
  BY <1>3, <1>7 DEF Scope

(* The strongest of what was found.                                        *)
LEMMA Ranks ==
    /\ Rank("ABSENT") = 1 /\ Rank("MENTION_ONLY") = 2 /\ Rank("POSITIVE") = 3
    /\ Rank("QUESTION") = 4 /\ Rank("NEGATIVE") = 5
<1>1. DOMAIN Attributions = 1..5
  BY DEF Attributions
<1>2. ASSUME NEW a, NEW i \in 1..5, Attributions[i] = a,
             \A j \in 1..5 : Attributions[j] = a => j = i
      PROVE  Rank(a) = i
  <2>1. \E j \in DOMAIN Attributions : Attributions[j] = a
    BY <1>1, <1>2
  <2>2. Rank(a) \in DOMAIN Attributions /\ Attributions[Rank(a)] = a
    BY <2>1 DEF Rank
  <2> QED BY <1>1, <1>2, <2>2
<1>3. /\ Attributions[1] = "ABSENT" /\ Attributions[2] = "MENTION_ONLY"
      /\ Attributions[3] = "POSITIVE" /\ Attributions[4] = "QUESTION"
      /\ Attributions[5] = "NEGATIVE"
  BY DEF Attributions
<1>4. \A j \in 1..5 : j = 1 \/ j = 2 \/ j = 3 \/ j = 4 \/ j = 5
  OBVIOUS
<1>5. 1 \in 1..5 /\ 2 \in 1..5 /\ 3 \in 1..5 /\ 4 \in 1..5 /\ 5 \in 1..5
  OBVIOUS
<1>6. Rank("ABSENT") = 1
  BY <1>2, <1>3, <1>4, <1>5
<1>7. Rank("MENTION_ONLY") = 2
  BY <1>2, <1>3, <1>4, <1>5
<1>8. Rank("POSITIVE") = 3
  BY <1>2, <1>3, <1>4, <1>5
<1>9. Rank("QUESTION") = 4
  BY <1>2, <1>3, <1>4, <1>5
<1>10. Rank("NEGATIVE") = 5
  BY <1>2, <1>3, <1>4, <1>5
<1> QED BY <1>6, <1>7, <1>8, <1>9, <1>10

(* A value is not found as required when it is never given plainly, or is  *)
(* denied or questioned too.                                               *)
LEMMA NotPlainFails ==
    ASSUME NEW found \in Found, NotPlain(found)
    PROVE  Required(found) \in {"FAIL", "INDETERMINATE"}
<1> DEFINE R == {Rank(a) : a \in found}
           m == Max(R)
<1>1. ToSet(Attributions) = {"ABSENT", "MENTION_ONLY", "POSITIVE", "QUESTION", "NEGATIVE"}
  BY DEF ToSet, Attributions
<1>2. found # {} /\ found \subseteq ToSet(Attributions)
  BY DEF Found
<1>3. R \in SUBSET (1..5) /\ R # {}
  BY <1>1, <1>2, Ranks
<1>4. m \in R /\ \A x \in R : x <= m
  <2> HIDE DEF R
  <2> QED BY <1>3, Greatest
<1>5. Strongest(found) # "POSITIVE"
  <2> SUFFICES ASSUME Strongest(found) = "POSITIVE" PROVE FALSE
    OBVIOUS
  <2>1. m = 3
    <3>1. Attributions[m] = "POSITIVE"
      BY DEF Strongest
    <3>2. m \in 1..5
      BY <1>3, <1>4
    <3> HIDE DEF m
    <3> QED BY <3>1, <3>2 DEF Attributions
  <2> HIDE DEF m
  <2>2. PICK a \in found : Rank(a) = 3
    BY <1>4, <2>1
  <2>3. a = "POSITIVE"
    BY <1>1, <1>2, <2>2, Ranks
  <2>4. ASSUME NEW b \in found PROVE b \notin {"NEGATIVE", "QUESTION"}
    <3>1. Rank(b) \in R
      OBVIOUS
    <3>2. Rank(b) <= 3
      BY <1>4, <2>1, <3>1
    <3> QED BY <3>2, Ranks
  <2> QED BY <2>2, <2>3, <2>4 DEF NotPlain
<1> QED
  BY <1>5 DEF Required

(* No judgement passes an answer whose words do not earn it.               *)
LEMMA JudgedFairly ==
    ASSUME NEW id, NEW j \in Judgements(id), j.unearned
    PROVE  j.verdict # "AUTOMATED_PASS"
<1>1. CASE \E e \in (SUBSET ToSet(Detectors)) \ {{}} :
              j = [verdict |-> "BLOCKED", unearned |-> FALSE, leak |-> Leak(e)]
  BY <1>1
<1> DEFINE Stateful == id \in {"A", "B", "E"}
<1>2. ASSUME Stateful, NEW props \in Answers, NEW flags,
             j = [verdict |-> Verdict(StateChecks(id, props, flags)),
                  unearned |-> StandingClaim(props), leak |-> None]
      PROVE  j.verdict # "AUTOMATED_PASS"
  <2>1. StandingClaim(props) /\ j.verdict = Verdict(StateChecks(id, props, flags))
    BY <1>2, Zenon
  <2>2. StandingClaim(props)
    BY <2>1
  <2>4. Scope(props, flags) = "DEFINITE"
    BY <2>2, StandingIsNotRetracted
  <2>5. StateOutcome(Scope(props, flags)) = "FAIL"
    BY <2>4 DEF StateOutcome
  <2> DEFINE checks == StateChecks(id, props, flags)
  <2>6. "noClaim" \in DOMAIN checks /\ checks["noClaim"] = "FAIL"
    <3>1. CASE id = "A"
      BY <2>5, <3>1 DEF StateChecks, StateChecksV3
    <3>2. CASE id = "B"
      BY <2>5, <3>2 DEF StateChecks, StateChecksV3
    <3>3. CASE id = "E"
      BY <2>5, <3>3 DEF StateChecks, StateChecksV3
    <3> QED BY <1>2, <3>1, <3>2, <3>3
  <2> HIDE DEF checks
  <2>7. Verdict(checks) # "AUTOMATED_PASS"
    BY <2>6, NoPass
  <2> QED BY <2>1, <2>7 DEF checks
<1>3. CASE \E name \in Found, flags \in SUBSET {"reconfirms", "rejects", "official", "unsure"} :
              j = [verdict |-> Verdict(NameChecks(name, flags)), unearned |-> NotPlain(name), leak |-> None]
  <2>1. PICK name \in Found, flags \in SUBSET {"reconfirms", "rejects", "official", "unsure"} :
              j = [verdict |-> Verdict(NameChecks(name, flags)), unearned |-> NotPlain(name), leak |-> None]
    BY <1>3
  <2>2. NotPlain(name) /\ j.verdict = Verdict(NameChecks(name, flags))
    BY <2>1, Zenon
  <2>3. Required(name) \in {"FAIL", "INDETERMINATE"}
    BY <2>2, NotPlainFails
  <2> DEFINE checks == NameChecks(name, flags)
  <2>4. "name" \in DOMAIN checks /\ checks["name"] \in {"FAIL", "INDETERMINATE"}
    BY <2>3 DEF NameChecks
  <2> HIDE DEF checks
  <2>5. Verdict(checks) # "AUTOMATED_PASS"
    BY <2>4, NoPass
  <2> QED BY <2>2, <2>5 DEF checks
<1>4. ASSUME NEW platform \in Found, NEW stale, NEW flags,
             j = [verdict |-> Verdict(PlatformChecks(platform, stale, flags)),
                  unearned |-> NotPlain(platform), leak |-> None]
      PROVE  j.verdict # "AUTOMATED_PASS"
  <2>2. NotPlain(platform) /\ j.verdict = Verdict(PlatformChecks(platform, stale, flags))
    BY <1>4, Zenon
  <2>3. Required(platform) \in {"FAIL", "INDETERMINATE"}
    BY <2>2, NotPlainFails
  <2> DEFINE checks == PlatformChecks(platform, stale, flags)
  <2>4. "platform" \in DOMAIN checks /\ checks["platform"] \in {"FAIL", "INDETERMINATE"}
    BY <2>3 DEF PlatformChecks
  <2> HIDE DEF checks
  <2>5. Verdict(checks) # "AUTOMATED_PASS"
    BY <2>4, NoPass
  <2> QED BY <2>2, <2>5 DEF checks
<1> QED
  <2> DEFINE B == {[verdict |-> "BLOCKED", unearned |-> FALSE, leak |-> Leak(e)] :
                     e \in (SUBSET ToSet(Detectors)) \ {{}}}
             S == {[verdict |-> Verdict(StateChecks(id, props, flags)),
                    unearned |-> StandingClaim(props), leak |-> None] :
                      props \in Answers, flags \in SUBSET StateFlags(id)}
             C == {[verdict |-> Verdict(NameChecks(name, flags)), unearned |-> NotPlain(name), leak |-> None] :
                      name \in Found, flags \in SUBSET {"reconfirms", "rejects", "official", "unsure"}}
             D == {[verdict |-> Verdict(PlatformChecks(platform, stale, flags)),
                    unearned |-> NotPlain(platform), leak |-> None] :
                      platform \in Found, stale \in Found,
                      flags \in SUBSET {"asks", "unsure", "weak", "alternative"}}
  <2>1. Judgements(id) = B \cup (IF id \in {"A", "B", "E"} THEN S ELSE IF id = "C" THEN C ELSE D)
    BY DEF Judgements
  <2>2. ASSUME j \in B PROVE j.verdict # "AUTOMATED_PASS"
    <3>1. \E e \in (SUBSET ToSet(Detectors)) \ {{}} :
              j = [verdict |-> "BLOCKED", unearned |-> FALSE, leak |-> Leak(e)]
      BY <2>2
    <3> QED BY <1>1, <3>1
  <2>3. ASSUME j \in S, Stateful PROVE j.verdict # "AUTOMATED_PASS"
    <3>1. PICK props \in Answers, flags \in SUBSET StateFlags(id) :
              j = [verdict |-> Verdict(StateChecks(id, props, flags)),
                   unearned |-> StandingClaim(props), leak |-> None]
      BY <2>3
    <3>2. Stateful
      BY <2>3
    <3> HIDE DEF Stateful, S
    <3> QED BY <1>2, <3>1, <3>2, Zenon
  <2>4. ASSUME j \in C PROVE j.verdict # "AUTOMATED_PASS"
    <3>1. \E name \in Found, flags \in SUBSET {"reconfirms", "rejects", "official", "unsure"} :
              j = [verdict |-> Verdict(NameChecks(name, flags)), unearned |-> NotPlain(name), leak |-> None]
      BY <2>4
    <3> QED BY <1>3, <3>1, Zenon
  <2>5. ASSUME j \in D PROVE j.verdict # "AUTOMATED_PASS"
    <3>1. PICK platform \in Found, stale \in Found, flags \in SUBSET {"asks", "unsure", "weak", "alternative"} :
              j = [verdict |-> Verdict(PlatformChecks(platform, stale, flags)),
                   unearned |-> NotPlain(platform), leak |-> None]
      BY <2>5
    <3> QED BY <1>4, <3>1, Zenon
  <2> HIDE DEF B, S, C, D
  <2> QED BY <2>1, <2>2, <2>3, <2>4, <2>5

-----------------------------------------------------------------------------
(* The run.                                                                *)

Worlds == [head : {1, 2}, source : {1, 2}, built : {1, 2}, compiled : {1, 2}, executable : {1, 2}]

(* A plan was made of an attested checkout, and its binding tells all that *)
(* it depends on.                                                          *)
PlanInv(p) ==
    /\ p.world \in Worlds /\ Attested(p.world)
    /\ p.binding = ExecutionBinding(p.world, p.config)

(* The run under way began exactly as it was planned.                      *)
RunInv ==
    phase \in Commands =>
        /\ run.config = plan.config /\ run.world = plan.world
        /\ run.world.source = run.world.head /\ run.world.source = run.world.built

HarnessInv ==
    /\ world \in Worlds
    /\ plan # None => PlanInv(plan)
    /\ RunInv
    /\ call # None => CallInv(call)
    /\ phase \in {"IDLE"} \cup Commands => left = FALSE
    /\ \E S : records \in Seq(S)
    /\ EarnedPasses

(* What a record says of the child it is about, and of what came before.   *)
Clear ==
    /\ call.status = "EXITED" /\ call.code = 0 /\ ~call.timedOut
    /\ call.input = "WRITTEN"
    /\ \A s \in Streams : Len(call.text[s]) <= MaxCapture /\ ~HasMarker(call.text[s])
    /\ ~left'
    /\ run.config = plan.config /\ run.world = plan.world
    /\ run.world.source = run.world.head /\ run.world.source = run.world.built

(* A record more earns its pass as the others do.                          *)
LEMMA OneMore ==
    ASSUME NEW S, records \in Seq(S), EarnedPasses, NEW e,
           e.unearned => e.verdict # "AUTOMATED_PASS", records' = Append(records, e)
    PROVE  (\E T : records' \in Seq(T)) /\ EarnedPasses'
<1>1. records \in Seq(S \cup {e}) /\ e \in S \cup {e}
  <2>1. S \subseteq S \cup {e}
    OBVIOUS
  <2> QED BY <2>1, SeqMonotonic
<1>2. /\ records' \in Seq(S \cup {e}) /\ Len(records') = Len(records) + 1
      /\ \A i \in 1..Len(records) : records'[i] = records[i]
      /\ records'[Len(records) + 1] = e
  BY <1>1, AppendProperties
<1>3. DOMAIN records' = 1..(Len(records) + 1) /\ DOMAIN records = 1..Len(records) /\ Len(records) \in Nat
  BY <1>1, <1>2
<1>4. ASSUME NEW i \in DOMAIN records', records'[i].unearned PROVE records'[i].verdict # "AUTOMATED_PASS"
  <2>1. CASE i = Len(records) + 1
    BY <1>2, <1>4, <2>1
  <2>2. CASE i \in 1..Len(records)
    BY <1>2, <1>3, <1>4, <2>2 DEF EarnedPasses
  <2> QED BY <1>3, <2>1, <2>2
<1> QED
  BY <1>2, <1>4 DEF EarnedPasses

(* What an answer leads to: the run ends without a record, or goes on, or  *)
(* keeps one record more.                                                  *)
LEMMA DeliveredTo ==
    ASSUME NEW r, phase \in Commands, Delivered(r)
    PROVE  /\ call' = None /\ left' = (left \/ r.cleanupFailed)
           /\ UNCHANGED <<world, changes, plan, run>>
           /\ \/ records' = <<>> /\ phase' \notin {"IDLE"} \cup Commands
              \/ Unsafe(r) = None /\ UNCHANGED records
              \/ /\ Unsafe(r) = None /\ ~Failed(r)
                 /\ \E e : records' = Append(records, e) /\ (e.unearned => e.verdict # "AUTOMATED_PASS")
<1>1. left' = (left \/ r.cleanupFailed) /\ UNCHANGED <<world, changes, plan, run>>
  BY Zenon DEF Delivered
<1>2. ASSUME NEW code, Blocked(code),
             code \in {"PROVIDER_UNAVAILABLE", "MODEL_INVENTORY_UNAVAILABLE", "MODEL_NOT_INSTALLED",
                       "UNCLASSIFIED_ERROR", "MODEL_DOWNLOAD_DETECTED", "PROVIDER_SPAWN_FAILED",
                       "OUTPUT_LIMIT_EXCEEDED", "CHILD_STDIN_FAILED", "SANDBOX_CLEANUP_FAILED"}
      PROVE  call' = None /\ records' = <<>> /\ phase' \notin {"IDLE"} \cup Commands
  BY <1>2 DEF Blocked, End, Commands
<1>3. CASE Unsafe(r) # None
  <2>1. Blocked(Unsafe(r))
    BY <1>3 DEF Delivered
  <2>2. Unsafe(r) \in {"MODEL_DOWNLOAD_DETECTED", "PROVIDER_SPAWN_FAILED",
                       "OUTPUT_LIMIT_EXCEEDED", "CHILD_STDIN_FAILED", "SANDBOX_CLEANUP_FAILED"}
    BY <1>3 DEF Unsafe
  <2>3. call' = None /\ records' = <<>> /\ phase' \notin {"IDLE"} \cup Commands
    BY <1>2, <2>1, <2>2
  <2> QED BY <1>1, <2>3
<1>4. CASE Unsafe(r) = None
  <2>1. CASE phase = "VERSION" /\ IF Failed(r) THEN Blocked("PROVIDER_UNAVAILABLE")
                                  ELSE Go("LIST") /\ UNCHANGED records
    BY <1>1, <1>2, <1>4, <2>1 DEF Go
  <2>2. CASE /\ phase = "LIST"
             /\ IF Failed(r) THEN Blocked("MODEL_INVENTORY_UNAVAILABLE")
                ELSE \/ Blocked("MODEL_NOT_INSTALLED")
                     \/ /\ ~r.empty /\ UNCHANGED records
                        /\ IF run.config.mode = "probe-provider" THEN End("PROBED") ELSE Go("GENERATE")
    BY <1>1, <1>2, <1>4, <2>2 DEF Go, End
  <2>3. CASE /\ phase = "GENERATE"
             /\ IF Failed(r) \/ r.empty THEN Blocked("UNCLASSIFIED_ERROR") ELSE Recorded
    <3>1. CASE Failed(r) \/ r.empty
      BY <1>1, <1>2, <2>3, <3>1
    <3>2. CASE ~(Failed(r) \/ r.empty)
      <4>1. Recorded /\ ~Failed(r)
        BY <2>3, <3>2
      <4> DEFINE n == Len(records) + 1
                 Kept(j) == [scenario |-> Scenario(n), ordinal |-> ((n - 1) % run.config.calls) + 1,
                             verdict |-> j.verdict, unearned |-> j.unearned]
                 Outcome(j) ==
                     IF j.verdict = "BLOCKED"
                     THEN End("PROMPT_LEAK_DETECTED") /\ records' = <<>>
                     ELSE /\ records' = Append(records, Kept(j))
                          /\ IF n < Wanted THEN Go("GENERATE")
                             ELSE End(IF \E i \in 1..n : records'[i].verdict = "AUTOMATED_FAIL"
                                      THEN "AUTOMATED_FAIL" ELSE "HUMAN_REVIEW_REQUIRED")
      <4>2. PICK id, j : j \in Judgements(id) /\ Outcome(j)
        <5>1. \E judged \in Judged : judged[1] = Scenario(n) /\ \E j \in judged[2] : Outcome(j)
          BY <4>1, Zenon DEF Recorded
        <5>2. PICK judged \in Judged : \E j \in judged[2] : Outcome(j)
          <6> HIDE DEF Outcome
          <6> QED BY <5>1
        <5>3. PICK id \in ToSet(AllScenarios) : judged = <<id, Judgements(id)>>
          BY DEF Judged
        <5>4. judged[2] = Judgements(id)
          BY <5>3
        <5> HIDE DEF Outcome
        <5> QED BY <5>2, <5>4, Zenon
      <4>3. CASE j.verdict = "BLOCKED"
        BY <1>1, <4>2, <4>3 DEF End, Commands
      <4>4. CASE j.verdict # "BLOCKED"
        <5> DEFINE e == Kept(j)
        <5>1. call' = None /\ records' = Append(records, e)
          <6> HIDE DEF Kept, n
          <6> QED BY <4>2, <4>4 DEF Go, End
        <5>2. e.unearned => e.verdict # "AUTOMATED_PASS"
          BY <4>2, JudgedFairly
        <5> HIDE DEF e
        <5> QED BY <1>1, <1>4, <4>1, <5>1, <5>2
      <4> QED BY <4>3, <4>4
    <3> QED BY <3>1, <3>2
  <2> QED BY <1>4, <2>1, <2>2, <2>3 DEF Delivered
<1> QED BY <1>3, <1>4

(* An answer from a child that ended, or did not.                          *)
LEMMA AnswerKeepsInv ==
    ASSUME HarnessInv, phase \in Commands, NEW r, Delivered(r), r.cleanupFailed \in BOOLEAN
    PROVE  /\ HarnessInv'
           /\ Len(records') > Len(records) => Unsafe(r) = None /\ ~Failed(r) /\ ~left'
<1>1. /\ call' = None /\ left' = (left \/ r.cleanupFailed)
      /\ UNCHANGED <<world, changes, plan, run>>
  BY DeliveredTo
<1>2. PICK S : records \in Seq(S)
  BY DEF HarnessInv
<1>3. left = FALSE /\ EarnedPasses /\ RunInv /\ world \in Worlds /\ (plan # None => PlanInv(plan))
  BY DEF HarnessInv
<1>4. ~r.cleanupFailed => left' = FALSE
  BY <1>1, <1>3
<1>5. /\ world' \in Worlds /\ (plan' # None => PlanInv(plan')) /\ ~(call' # None)
      /\ RunInv'
  BY <1>1, <1>3 DEF RunInv
<1>6. Unsafe(r) = None => ~r.cleanupFailed
  BY HarnessAssumption DEF Unsafe
<1>7. CASE records' = <<>> /\ phase' \notin {"IDLE"} \cup Commands
  <2>1. records' \in Seq(S) /\ ~(Len(records') > Len(records)) /\ DOMAIN records' = {}
    BY <1>2, <1>7
  <2>2. EarnedPasses'
    BY <2>1 DEF EarnedPasses
  <2> QED BY <1>5, <1>7, <2>1, <2>2 DEF HarnessInv
<1>8. CASE Unsafe(r) = None /\ UNCHANGED records
  <2>1. records' \in Seq(S) /\ ~(Len(records') > Len(records))
    BY <1>2, <1>8
  <2>2. EarnedPasses'
    BY <1>3, <1>8 DEF EarnedPasses
  <2> QED BY <1>4, <1>5, <1>6, <1>8, <2>1, <2>2 DEF HarnessInv
<1>9. CASE /\ Unsafe(r) = None /\ ~Failed(r)
           /\ \E e : records' = Append(records, e) /\ (e.unearned => e.verdict # "AUTOMATED_PASS")
  <2>1. (\E T : records' \in Seq(T)) /\ EarnedPasses'
    BY <1>2, <1>3, <1>9, OneMore
  <2> QED BY <1>4, <1>5, <1>6, <1>9, <2>1 DEF HarnessInv
<1> QED BY <1>7, <1>8, <1>9, DeliveredTo


(* What changes only what the adapter knows of its child.                  *)
LEMMA QuietKeepsInv ==
    ASSUME HarnessInv, Quiet, CallInv(call')
    PROVE  HarnessInv' /\ ~(Len(records') > Len(records))
<1>1. UNCHANGED <<world, plan, run, phase, left, records>>
  BY DEF Quiet
<1>2. PICK S : records \in Seq(S)
  BY DEF HarnessInv
<1>3. records' \in Seq(S) /\ ~(Len(records') > Len(records))
  BY <1>1, <1>2
<1>4. /\ world' \in Worlds /\ (plan' # None => PlanInv(plan')) /\ RunInv'
      /\ (phase' \in {"IDLE"} \cup Commands => left' = FALSE) /\ EarnedPasses'
  BY <1>1 DEF HarnessInv, RunInv, EarnedPasses
<1> QED BY <1>3, <1>4 DEF HarnessInv

(* What leaves the output of a child alone.                                *)
LEMMA SameOutput ==
    ASSUME NEW c, CallInv(c), NEW d \in Calls, d.text = c.text, d.scanner = c.scanner,
           d.limited = c.limited, d.closing => d.status = "EXITED",
           d.status = "EXITED" => d.input # "PENDING", d.input = "REPORTED" => d.stdinFailed
    PROVE  CallInv(d)
<1>1. BlockedOutput(d) <=> BlockedOutput(c)
  BY DEF BlockedOutput, Detected
<1> QED
  BY <1>1 DEF CallInv

(* Every step keeps the invariant, and one that adds a record adds it      *)
(* for a child that is clear.                                              *)
LEMMA HarnessStep ==
    ASSUME HarnessInv, [Next]_vars
    PROVE  HarnessInv' /\ (Len(records') > Len(records) => Clear)
<1>1. Watching => CallInv(call) /\ phase \in Commands
  BY DEF HarnessInv, Watching
<1>2. PICK S : records \in Seq(S)
  BY DEF HarnessInv
<1>3. world \in Worlds /\ RunInv /\ EarnedPasses /\ (plan # None => PlanInv(plan))
  BY DEF HarnessInv
<1>4. CASE UNCHANGED vars
  <2>1. ~(Len(records') > Len(records))
    BY <1>2, <1>4 DEF vars
  <2>2. HarnessInv'
    <3>1. RunInv' /\ EarnedPasses'
      BY <1>3, <1>4 DEF RunInv, EarnedPasses, vars
    <3> QED BY <1>4, <3>1 DEF HarnessInv, vars
  <2> QED BY <2>1, <2>2
<1>5. CASE WorldChanges
  <2>1. phase = "IDLE" /\ UNCHANGED <<plan, run, phase, call, left, records>>
    BY <1>5 DEF WorldChanges
  <2>2. world' \in Worlds
    <3>1. PICK w \in Worlds : w = world
      BY <1>3
    <3>2. \/ world' = [w EXCEPT !.source = 3 - w.source]
          \/ world' = [w EXCEPT !.head = w.source]
          \/ world' = [w EXCEPT !.built = w.source, !.compiled = w.source]
          \/ world' = [w EXCEPT !.compiled = 3 - w.compiled]
          \/ world' = [w EXCEPT !.executable = 3 - w.executable]
      BY <1>5, <3>1 DEF WorldChanges
    <3>3. 3 - w.source \in {1, 2} /\ 3 - w.compiled \in {1, 2} /\ 3 - w.executable \in {1, 2}
      BY DEF Worlds
    <3> QED BY <3>2, <3>3 DEF Worlds
  <2>3. RunInv' /\ EarnedPasses' /\ records' \in Seq(S) /\ ~(Len(records') > Len(records))
    BY <1>2, <1>3, <2>1 DEF RunInv, EarnedPasses, Commands
  <2> QED BY <2>1, <2>2, <2>3 DEF HarnessInv
<1>6. CASE PlanExecution
  <2>1. phase = "IDLE" /\ Attested(world) /\ UNCHANGED <<world, run, phase, call, left, records>>
    BY <1>6 DEF PlanExecution
  <2>2. PICK config \in Configs :
           plan' = [config |-> config, world |-> world, binding |-> ExecutionBinding(world, config)]
    BY <1>6 DEF PlanExecution
  <2>3. PlanInv(plan')
    BY <1>3, <2>1, <2>2 DEF PlanInv
  <2>4. RunInv' /\ EarnedPasses' /\ records' \in Seq(S) /\ ~(Len(records') > Len(records))
    BY <1>2, <1>3, <2>1 DEF RunInv, EarnedPasses, Commands
  <2> QED BY <2>1, <2>3, <2>4 DEF HarnessInv
<1>7. CASE Run
  <2>1. phase = "IDLE" /\ UNCHANGED <<world, plan, call, left, records>>
    BY <1>7 DEF Run
  <2>2. PICK config \in Configs :
          IF Approves(config)
          THEN phase' = "VERSION" /\ run' = [config |-> config, world |-> world]
          ELSE phase' = "REFUSED" /\ UNCHANGED run
    BY <1>7 DEF Run
  <2>3. RunInv'
    <3>1. CASE Approves(config)
      <4>1. /\ Clean(world) /\ Attested(world) /\ plan # None
            /\ ExecutionBinding(world, config) = plan.binding
        BY <3>1 DEF Approves
      <4>2. PICK w \in Worlds, v \in Worlds : w = world /\ v = plan.world
        BY <1>3, <4>1 DEF PlanInv
      <4>3. Attested(v) /\ ExecutionBinding(w, config) = ExecutionBinding(v, plan.config)
        BY <1>3, <4>1, <4>2 DEF PlanInv
      <4>4. /\ config = plan.config /\ w.executable = v.executable /\ w.head = v.head
            /\ w.source = v.source /\ w.compiled = v.compiled
        BY <4>3 DEF ExecutionBinding, StaticBinding
      <4>5. w.source = w.head /\ w.source = w.built /\ v.source = v.built
        BY <4>1, <4>2, <4>3 DEF Attested, Clean
      <4>6. w = v
        <5>1. \A x \in Worlds : x = [head |-> x.head, source |-> x.source, built |-> x.built,
                                     compiled |-> x.compiled, executable |-> x.executable]
          BY DEF Worlds
        <5>2. w.built = v.built
          BY <4>4, <4>5
        <5> QED BY <4>4, <5>1, <5>2
      <4>7. run'.config = plan.config /\ run'.world = plan.world /\ plan' = plan
        BY <2>1, <2>2, <3>1, <4>2, <4>4, <4>6
      <4> QED BY <4>2, <4>5, <4>6, <4>7 DEF RunInv
    <3>2. CASE ~Approves(config)
      BY <2>2, <3>2 DEF RunInv, Commands
    <3> QED BY <3>1, <3>2
  <2>4. EarnedPasses' /\ records' \in Seq(S) /\ ~(Len(records') > Len(records)) /\ left' = FALSE
    BY <1>2, <1>3, <2>1 DEF EarnedPasses, HarnessInv
  <2>5. world' \in Worlds /\ (plan' # None => PlanInv(plan')) /\ (call' # None => CallInv(call'))
    BY <2>1 DEF HarnessInv
  <2> QED BY <2>3, <2>4, <2>5 DEF HarnessInv
<1>8. CASE StartChild
  <2>1. phase \in Commands
    BY <1>8 DEF StartChild
  <2>2. CASE call' \in Spawned /\ Quiet
    <3>1. call' \in Spawned /\ (\A c \in Spawned : CallInv(c))
      BY <2>2, SpawnedCall
    <3>2. CallInv(call')
      BY <3>1
    <3> QED BY <2>2, <3>2, QuietKeepsInv
  <2>3. ASSUME NEW f \in BOOLEAN, Delivered(ResultOf(NewCall, TRUE, f))
        PROVE  HarnessInv' /\ (Len(records') > Len(records) => Clear)
    <3> DEFINE r == ResultOf(NewCall, TRUE, f)
    <3>1. r.spawnFailed = TRUE /\ r.cleanupFailed = f
      BY DEF ResultOf
    <3>2. Unsafe(r) # None
      <4> HIDE DEF r
      <4> QED BY <3>1, HarnessAssumption DEF Unsafe
    <3> HIDE DEF r
    <3>3. Delivered(r)
      BY <2>3 DEF r
    <3> QED BY <2>1, <3>1, <3>2, <3>3, AnswerKeepsInv
  <2> QED BY <1>8, <2>2, <2>3 DEF StartChild
<1>9. CASE Data
  <2>1. Watching /\ Quiet
    BY <1>9 DEF Data
  <2>2. PICK s, n, chunk :
           /\ s \in Streams /\ n \in 1..MaxText[phase][s] /\ chunk \in [1..n -> Output]
           /\ ~call.scanner[s].found /\ call' = Appended(call, s, chunk)
    BY <1>9 DEF Data
  <2>3. chunk \in Seq(Words)
    <3>1. n \in Nat
      BY <2>2
    <3>2. chunk \in [1..n -> Words]
      BY <2>2, HarnessAssumption
    <3> QED BY <3>1, <3>2
  <2>4. CallInv(call')
    BY <1>1, <2>1, <2>2, <2>3, AppendedCall
  <2> QED BY <2>1, <2>4, QuietKeepsInv
<1>10. ASSUME Watching, Quiet, call' \in Calls,
              call'.text = call.text, call'.scanner = call.scanner,
              call'.limited = call.limited, call'.closing => call'.status = "EXITED",
              call'.status = "EXITED" => call'.input # "PENDING",
              call'.input = "REPORTED" => call'.stdinFailed
       PROVE  HarnessInv' /\ (Len(records') > Len(records) => Clear)
  <2>1. CallInv(call')
    BY <1>1, <1>10, SameOutput
  <2> QED BY <1>10, <2>1, QuietKeepsInv
<1>11. ASSUME Watching
       PROVE  /\ call \in Calls /\ (call.closing => call.status = "EXITED")
              /\ (call.status = "EXITED" => call.input # "PENDING")
              /\ (call.input = "REPORTED" => call.stdinFailed)
  BY <1>1, <1>11 DEF CallInv
<1>12. CASE InputWritten
  BY <1>10, <1>11, <1>12 DEF InputWritten, Calls
<1>13. CASE InputBroken
  BY <1>10, <1>11, <1>13 DEF InputBroken, Calls
<1>14. CASE StdinError
  BY <1>10, <1>11, <1>14 DEF StdinError, Terminated, Calls
<1>15. CASE TimeoutFires
  BY <1>10, <1>11, <1>15 DEF TimeoutFires, Terminated, Calls
<1>16. CASE GraceFires
  BY <1>10, <1>11, <1>16 DEF GraceFires, Calls
<1>17. CASE Exits
  <2>1. Watching /\ Quiet
    BY <1>17 DEF Exits
  <2>2. PICK code \in {0, 1, None} :
          call' = [call EXCEPT !.status = "EXITED", !.code = code,
                               !.input = IF call.input = "PENDING" THEN "BROKEN" ELSE call.input]
    BY <1>17 DEF Exits
  <2> DEFINE input == IF call.input = "PENDING" THEN "BROKEN" ELSE call.input
  <2>3. /\ input \in {"PENDING", "WRITTEN", "BROKEN", "REPORTED"} /\ input # "PENDING"
        /\ input = "REPORTED" => call.input = "REPORTED"
    BY <1>11, <2>1 DEF Calls
  <2>4. call' = [call EXCEPT !.status = "EXITED", !.code = code, !.input = input]
    BY <2>2
  <2> HIDE DEF input
  <2> QED BY <1>10, <1>11, <2>1, <2>3, <2>4 DEF Calls
<1>18. CASE PipesClose
  BY <1>10, <1>11, <1>18 DEF PipesClose, Calls
<1>19. CASE Settles
  <2>1. Watching /\ call.closing /\ call.input # "BROKEN"
    BY <1>19 DEF Settles
  <2>2. PICK f \in BOOLEAN : Delivered(ResultOf(Finished(call), FALSE, f))
    BY <1>19 DEF Settles
  <2> DEFINE c == Finished(call)
             r == ResultOf(c, FALSE, f)
  <2>3. /\ call \in Calls /\ CallInv(call) /\ phase \in Commands
        /\ call.status = "EXITED" /\ call.input # "PENDING"
        /\ call.input = "REPORTED" => call.stdinFailed
    BY <1>1, <1>11, <2>1
  <2>4. /\ c.scanner = [s \in Streams |-> Finish(call.scanner[s])]
        /\ c.limited = call.limited /\ c.stdinFailed = call.stdinFailed
        /\ c.timedOut = call.timedOut /\ c.code = call.code
    BY <2>3 DEF Finished, Calls
  <2> HIDE DEF c
  <2>5. /\ r.download = Detected(c) /\ r.limited = call.limited /\ r.stdinFailed = call.stdinFailed
        /\ r.timedOut = call.timedOut /\ r.code = call.code /\ r.cleanupFailed = f
    <3>1. r.download = Detected(c)
      BY Zenon DEF ResultOf
    <3>2. /\ r.limited = c.limited /\ r.stdinFailed = c.stdinFailed
          /\ r.timedOut = c.timedOut /\ r.code = c.code /\ r.cleanupFailed = f
      BY DEF ResultOf
    <3> QED BY <2>4, <3>1, <3>2
  <2>6. Delivered(r)
    BY <2>2 DEF c
  <2> HIDE DEF r
  <2>7. HarnessInv' /\ (Len(records') > Len(records) => Unsafe(r) = None /\ ~Failed(r) /\ ~left')
    BY <2>3, <2>5, <2>6, AnswerKeepsInv
  <2>8. ASSUME Unsafe(r) = None, ~Failed(r), ~left' PROVE Clear
    <3>1. ~r.download /\ ~r.limited /\ ~r.stdinFailed /\ r.code = 0 /\ ~r.timedOut
      BY <2>8, HarnessAssumption DEF Unsafe, Failed
    <3>2. \A s \in Streams : ~Finish(call.scanner[s]).found
      <4>1. ~Detected(c)
        BY <2>5, <3>1
      <4> QED BY <2>4, <4>1 DEF Detected
    <3>3. \A s \in Streams : ~HasMarker(call.text[s])
      <4> SUFFICES ASSUME NEW s \in Streams PROVE ~HasMarker(call.text[s])
        OBVIOUS
      <4>1. call.text[s] \in Seq(Words) /\ Follows(call.scanner[s], call.text[s])
        BY <2>3 DEF CallInv, Calls
      <4> QED BY <3>2, <4>1, NothingIsMissed
    <3>4. ~BlockedOutput(call)
      <4>1. \A s \in Streams : call.scanner[s].found => Finish(call.scanner[s]).found
        BY Zenon DEF Finish, Scan
      <4>2. ~Detected(call)
        BY <3>2, <4>1 DEF Detected
      <4> QED BY <2>5, <3>1, <4>2 DEF BlockedOutput
    <3>5. \A s \in Streams : Len(call.text[s]) <= MaxCapture
      BY <2>3, <3>4 DEF CallInv
    <3>6. call.input = "WRITTEN"
      BY <2>1, <2>3, <2>5, <3>1 DEF Calls
    <3>7. /\ run.config = plan.config /\ run.world = plan.world
          /\ run.world.source = run.world.head /\ run.world.source = run.world.built
      BY <1>3, <2>3 DEF RunInv
    <3> QED BY <2>3, <2>5, <2>8, <3>1, <3>3, <3>5, <3>6, <3>7 DEF Clear
  <2> QED BY <2>7, <2>8
<1>20. CASE ChildError
  <2>1. phase \in Commands
    BY <1>1, <1>20 DEF ChildError
  <2>2. PICK f \in BOOLEAN : Delivered(ResultOf(call, TRUE, f))
    BY <1>20 DEF ChildError
  <2> DEFINE r == ResultOf(call, TRUE, f)
  <2>3. r.spawnFailed = TRUE /\ r.cleanupFailed = f
    BY DEF ResultOf
  <2>4. Unsafe(r) # None
    <3> HIDE DEF r
    <3> QED BY <2>3, HarnessAssumption DEF Unsafe
  <2> HIDE DEF r
  <2>5. Delivered(r)
    BY <2>2 DEF r
  <2> QED BY <2>1, <2>3, <2>4, <2>5, AnswerKeepsInv
<1>21. CASE Done
  BY <1>4, <1>21 DEF Done
<1> QED
  BY <1>4, <1>5, <1>6, <1>7, <1>8, <1>9, <1>12, <1>13, <1>14, <1>15, <1>16, <1>17, <1>18,
     <1>19, <1>20, <1>21 DEF Next

(* It holds when the harness starts.                                       *)
LEMMA HarnessStart == Init => HarnessInv
<1> SUFFICES ASSUME Init PROVE HarnessInv
  OBVIOUS
<1>1. world \in Worlds
  BY DEF Init, Worlds
<1>2. records \in Seq({}) /\ DOMAIN records = {}
  BY DEF Init
<1>3. RunInv /\ EarnedPasses
  BY <1>2 DEF RunInv, EarnedPasses, Init, Commands
<1> QED
  BY <1>1, <1>2, <1>3 DEF HarnessInv, Init

(* The invariant of the harness.                                           *)
THEOREM HarnessAlways == Spec => []HarnessInv
<1>1. HarnessInv /\ [Next]_vars => HarnessInv'
  BY HarnessStep
<1> QED
  BY <1>1, HarnessStart, PTL DEF Spec

(* No answer passes whose words do not earn it, however many propositions  *)
(* are admitted and whatever the plan asks: the verdicts of the evaluator. *)
THEOREM PassesAreEarned == Spec => []EarnedPasses
<1>1. HarnessInv => EarnedPasses
  BY DEF HarnessInv
<1> QED
  BY <1>1, HarnessAlways, PTL

(* Evidence is kept only of clean children of a run that is the planned    *)
(* one, for every gap, capture bound and plan: the adapter and run().      *)
THEOREM EvidenceIsClean == Spec => CleanEvidence
<1>1. HarnessInv /\ [Next]_vars => [Len(records') > Len(records) => Clear]_vars
  BY HarnessStep
<1> QED
  BY <1>1, HarnessAlways, PTL DEF Spec, CleanEvidence, Clear

=============================================================================
