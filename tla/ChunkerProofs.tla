--------------------------- MODULE ChunkerProofs ---------------------------
(***************************************************************************)
(* Theorems about Chunker, for files of any length, any lines, any options *)
(* and any nodes: the types, that every chunk fits, that chunks name their *)
(* lines and that no text is lost or repeated.  Well holds the types and   *)
(* what the loop knows of the window and the buffer; that the buffer fits  *)
(* whenever it is not empty is what makes the flushes fit.  Named says     *)
(* which lines the buffer and the chunks come from.  WindowInv says that   *)
(* the chunks of a call have the ink of the lines before the buffer, and   *)
(* FileInv that what must be kept is in the chunks, in the call or in a    *)
(* section that is left.                                                   *)
(***************************************************************************)
EXTENDS Chunker, SequenceTheorems, FiniteSetTheorems, WellFoundedInduction, TLAPS

-----------------------------------------------------------------------------
(* Numbers.                                                                *)

LEMMA Less == IsWellFoundedOn({s \in Nat \X Nat : s[1] < s[2]}, Nat)
  BY NatLessThanWellFounded DEF OpToRel

LEMMA Least ==
  ASSUME NEW T, T \subseteq Nat, T # {}
  PROVE  \E n \in T : \A m \in T : n <= m
<1> DEFINE R == {s \in Nat \X Nat : s[1] < s[2]}
<1>1. PICK n \in T : \A m \in T : ~ (<<m, n>> \in R)
  BY Less, WFMin
<1>2. ASSUME NEW m \in T PROVE n <= m
  <2>1. <<m, n>> \in Nat \X Nat /\ ~ (<<m, n>> \in R)
    BY <1>1
  <2>2. QED
    BY <2>1
<1>3. QED
  BY <1>2

LEMMA MinIs ==
  ASSUME NEW T, T \subseteq Nat, T # {}
  PROVE  Min(T) \in T /\ \A m \in T : Min(T) <= m
BY Least DEF Min

LEMMA MaxIs ==
  ASSUME NEW b \in Nat, NEW T, T \subseteq 1 .. b, T # {}
  PROVE  Max(T) \in T /\ \A m \in T : m <= Max(T)
<1> DEFINE D == {b - x : x \in T}
<1>1. D \subseteq Nat /\ D # {}
  <2>1. ASSUME NEW x \in T PROVE b - x \in Nat
    <3>1. x \in Nat /\ x <= b
      OBVIOUS
    <3>2. QED
      BY <3>1
  <2>2. PICK x : x \in T
    OBVIOUS
  <2>3. b - x \in D
    BY <2>2
  <2>4. QED
    BY <2>1, <2>3
<1>2. PICK n \in D : \A m \in D : n <= m
  <2> HIDE DEF D
  <2>1. QED
    BY <1>1, Least
<1>3. PICK x \in T : n = b - x
  BY <1>2
<1>4. ASSUME NEW y \in T PROVE x >= y
  <2>1. b - x <= b - y /\ x \in Nat /\ y \in Nat
    BY <1>2, <1>3
  <2>2. QED
    BY <2>1
<1>5. QED
  BY <1>4 DEF Max

\* The set form of induction: no operator has to be passed to a theorem.
LEMMA Induct ==
  ASSUME NEW T, 0 \in T, \A n \in T : n + 1 \in T
  PROVE  Nat \subseteq T
<1>1. SUFFICES ASSUME Nat \ T # {} PROVE FALSE
  OBVIOUS
<1>2. PICK n \in Nat \ T : \A m \in Nat \ T : n <= m
  BY <1>1, Least
<1>3. n # 0 /\ n - 1 \in Nat
  BY <1>2
<1>4. n - 1 \in T
  BY <1>2, <1>3
<1>5. (n - 1) + 1 \in T
  BY <1>4
<1>6. QED
  BY <1>2, <1>3, <1>5

LEMMA LargerIs ==
  ASSUME NEW a \in Nat, NEW b \in Nat
  PROVE  Larger(a, b) \in Nat /\ Larger(a, b) >= a /\ Larger(a, b) >= b
BY DEF Larger

-----------------------------------------------------------------------------
(* Folds.  A fold over 1 .. n takes the greatest index off at every step.  *)

\* f evaluates the fold whose steps are G.
Folding(f, n, base, G) ==
  f = [s \in SUBSET (1 .. n) |-> IF s = {} THEN base ELSE G[<<Max(s), f[s \ {Max(s)}]>>]]

LEMMA FoldExists ==
  ASSUME NEW n \in Nat, NEW A, NEW base \in A, NEW G, \A i \in 1 .. n, a \in A : G[<<i, a>>] \in A
  PROVE  \E f \in [SUBSET (1 .. n) -> A] : Folding(f, n, base, G)
<1> DEFINE Step(f, k) == f = [s \in SUBSET (1 .. k) |->
                               IF s = {} THEN base ELSE G[<<Max(s), f[s \ {Max(s)}]>>]]
           Done == {k \in Nat : k <= n => \E f \in [SUBSET (1 .. k) -> A] : Step(f, k)}
<1>1. 0 \in Done
  <2> DEFINE f == [s \in SUBSET (1 .. 0) |-> base]
  <2>1. SUBSET (1 .. 0) = {{}}
    OBVIOUS
  <2>2. f = [s \in SUBSET (1 .. 0) |->
               IF s = {} THEN base ELSE G[<<Max(s), f[s \ {Max(s)}]>>]]
    BY <2>1
  <2>3. f \in [SUBSET (1 .. 0) -> A] /\ Step(f, 0)
    BY <2>2
  <2>4. QED
    BY <2>3
<1>2. ASSUME NEW k \in Done PROVE k + 1 \in Done
  <2>1. SUFFICES ASSUME k + 1 <= n
                 PROVE  \E f \in [SUBSET (1 .. k + 1) -> A] : Step(f, k + 1)
    <3>1. k + 1 \in Nat
      OBVIOUS
    <3> HIDE DEF Step
    <3>2. QED
      BY <3>1
  <2>2. k \in Nat /\ k <= n /\ k + 1 \in 1 .. n
    BY <2>1
  <2>3. PICK f \in [SUBSET (1 .. k) -> A] : Step(f, k)
    BY <2>2
  <2> DEFINE g == [s \in SUBSET (1 .. k + 1) |->
                     IF k + 1 \in s THEN G[<<k + 1, f[s \ {k + 1}]>>] ELSE f[s]]
             h == [s \in SUBSET (1 .. k + 1) |->
                     IF s = {} THEN base ELSE G[<<Max(s), g[s \ {Max(s)}]>>]]
  <2>4. ASSUME NEW s \in SUBSET (1 .. k + 1)
        PROVE  g[s] \in A /\ g[s] = h[s]
    <3>1. CASE k + 1 \in s
      <4>1. s \ {k + 1} \in SUBSET (1 .. k)
        BY <2>2
      <4>2. Max(s) \in s /\ \A m \in s : m <= Max(s)
        <5>1. k + 1 \in Nat /\ s # {}
          BY <2>2, <3>1
        <5>2. QED
          BY <5>1, MaxIs
      <4>3. Max(s) = k + 1
        <5>1. k + 1 <= Max(s) /\ Max(s) \in 1 .. k + 1
          BY <3>1, <4>2
        <5> HIDE DEF g, h
        <5>2. QED
          BY <2>2, <5>1
      <4>4. g[s \ {k + 1}] = f[s \ {k + 1}] /\ f[s \ {k + 1}] \in A
        BY <2>2, <4>1
      <4>5. QED
        BY <2>2, <3>1, <4>3, <4>4
    <3>2. CASE k + 1 \notin s
      <4>1. s \in SUBSET (1 .. k)
        BY <2>2, <3>2
      <4>2. CASE s = {}
        <5>1. f[{}] = base
          BY <2>3
        <5>2. QED
          BY <4>2, <5>1
      <4>3. CASE s # {}
        <5>1. Max(s) \in s
          BY <2>2, <4>1, <4>3, MaxIs
        <5>2. s \ {Max(s)} \in SUBSET (1 .. k) /\ k + 1 \notin s \ {Max(s)}
              /\ s \ {Max(s)} \in SUBSET (1 .. k + 1)
          BY <3>2, <4>1
        <5>3. g[s \ {Max(s)}] = f[s \ {Max(s)}]
          BY <5>2
        <5>4. f[s] = G[<<Max(s), f[s \ {Max(s)}]>>] /\ f[s] \in A
          BY <2>3, <4>1, <4>3
        <5>5. g[s] = f[s]
          BY <3>2
        <5>6. QED
          BY <4>3, <5>3, <5>4, <5>5
      <4>4. QED
        BY <4>2, <4>3
    <3>3. QED
      BY <3>1, <3>2
  <2>5. g = h
    BY <2>4
  <2>6. g \in [SUBSET (1 .. k + 1) -> A]
    BY <2>4
  <2>7. Step(g, k + 1)
    BY <2>5
  <2> HIDE DEF g, Step
  <2>8. QED
    BY <2>6, <2>7
<1> HIDE DEF Done
<1>3. Nat \subseteq Done
  BY <1>1, <1>2, Induct
<1>4. QED
  BY <1>3 DEF Done, Folding

\* What every step of a fold keeps holds of its result.
LEMMA FoldStays ==
  ASSUME NEW n \in Nat, NEW A, NEW h, h[{}] \in A,
         \A s \in SUBSET (1 .. n) : s # {} /\ h[s \ {Max(s)}] \in A => h[s] \in A
  PROVE  h[1 .. n] \in A
<1> DEFINE Done == {k \in Nat : k <= n => h[1 .. k] \in A}
<1>1. 0 \in Done
  <2>1. 1 .. 0 = {}
    OBVIOUS
  <2>2. QED
    BY <2>1
<1>2. ASSUME NEW k \in Done PROVE k + 1 \in Done
  <2>1. SUFFICES ASSUME k + 1 <= n PROVE h[1 .. k + 1] \in A
    <3>1. k + 1 \in Nat
      OBVIOUS
    <3>2. QED
      BY <3>1
  <2>2. /\ k \in Nat /\ h[1 .. k] \in A
        /\ 1 .. k + 1 \in SUBSET (1 .. n) /\ 1 .. k + 1 # {}
    <3>1. k \in Nat /\ k <= n /\ h[1 .. k] \in A
      BY <2>1
    <3>2. k + 1 \in 1 .. k + 1 /\ \A i \in 1 .. k + 1 : i \in 1 .. n
      BY <2>1, <3>1
    <3> HIDE DEF Done
    <3>3. QED
      BY <3>1, <3>2
  <2>3. Max(1 .. k + 1) \in 1 .. k + 1 /\ \A m \in 1 .. k + 1 : m <= Max(1 .. k + 1)
    <3>1. k + 1 \in Nat
      BY <2>2
    <3>2. QED
      BY <2>2, <3>1, MaxIs
  <2>4. Max(1 .. k + 1) = k + 1
    BY <2>2, <2>3
  <2>5. (1 .. k + 1) \ {Max(1 .. k + 1)} = 1 .. k
    BY <2>2, <2>4
  <2>6. QED
    BY <2>2, <2>5
<1> HIDE DEF Done
<1>3. Nat \subseteq Done
  BY <1>1, <1>2, Induct
<1>4. QED
  BY <1>3 DEF Done

-----------------------------------------------------------------------------
(* Text.                                                                   *)

Chars == [at : Nat \X Nat, ink : BOOLEAN]
Texts == Seq(Seq(Chars))

\* The sum over the lines, of which Length is one less.
Ends(ls) == FoldLeft(LAMBDA n, l : n + Len(l) + 1, 0, ls)

LEMMA EndsIs ==
  ASSUME NEW ls \in Texts
  PROVE  /\ Ends(ls) \in Nat
         /\ Len(ls) = 1 => Ends(ls) = Len(ls[1]) + 1
<1> DEFINE n == Len(ls)
           Adds(f) == f = [s \in SUBSET (1 .. n) |->
                             IF s = {} THEN 0 ELSE f[s \ {Max(s)}] + Len(ls[Max(s)]) + 1]
           iter == CHOOSE f : Adds(f)
           G == [p \in (1 .. n) \X Nat |-> p[2] + Len(ls[p[1]]) + 1]
<1>1. n \in Nat /\ DOMAIN ls = 1 .. n /\ \A i \in 1 .. n : ls[i] \in Seq(Chars) /\ Len(ls[i]) \in Nat
  BY DEF Texts
<1>2. \A i \in 1 .. n, a \in Nat : G[<<i, a>>] = a + Len(ls[i]) + 1 /\ G[<<i, a>>] \in Nat
  BY <1>1
<1> HIDE DEF n, G
<1>3. PICK g \in [SUBSET (1 .. n) -> Nat] : Folding(g, n, 0, G)
  <2>1. 0 \in Nat
    OBVIOUS
  <2>2. \A i \in 1 .. n, a \in Nat : G[<<i, a>>] \in Nat
    BY <1>2
  <2>3. n \in Nat
    BY <1>1
  <2>4. QED
    BY <2>1, <2>2, <2>3, FoldExists
<1>4. Adds(g)
  <2> DEFINE h == [s \in SUBSET (1 .. n) |->
                     IF s = {} THEN 0 ELSE g[s \ {Max(s)}] + Len(ls[Max(s)]) + 1]
  <2>1. ASSUME NEW s \in SUBSET (1 .. n) PROVE g[s] = h[s]
    <3>1. CASE s = {}
      BY <1>3, <3>1 DEF Folding
    <3>2. CASE s # {}
      <4>1. Max(s) \in 1 .. n
        BY <1>1, <3>2, MaxIs
      <4>2. g[s \ {Max(s)}] \in Nat
        BY <1>3
      <4>3. g[s] = G[<<Max(s), g[s \ {Max(s)}]>>]
        BY <1>3, <3>2 DEF Folding
      <4>4. g[s] = g[s \ {Max(s)}] + Len(ls[Max(s)]) + 1
        BY <1>2, <4>1, <4>2, <4>3
      <4>5. QED
        BY <3>2, <4>4
    <3>3. QED
      BY <3>1, <3>2
  <2>2. g = h
    <3>1. g = [s \in SUBSET (1 .. n) |-> g[s]]
      OBVIOUS
    <3>2. QED
      BY <2>1, <3>1
  <2>3. QED
    BY <2>2
<1>5. Adds(iter)
  <2> HIDE DEF Adds
  <2>1. QED
    BY <1>4
<1> HIDE DEF iter
<1>6. iter[{}] = 0
  BY <1>5
<1>7. ASSUME NEW s \in SUBSET (1 .. n), s # {}
      PROVE  iter[s] = iter[s \ {Max(s)}] + Len(ls[Max(s)]) + 1
  BY <1>5, <1>7
<1> HIDE DEF Adds
<1>8. ASSUME NEW s \in SUBSET (1 .. n), s # {}, iter[s \ {Max(s)}] \in Nat
      PROVE  iter[s] \in Nat
  <2>1. Max(s) \in 1 .. n
    BY <1>1, <1>8, MaxIs
  <2>2. Len(ls[Max(s)]) \in Nat
    BY <1>1, <2>1
  <2>3. iter[s] = iter[s \ {Max(s)}] + Len(ls[Max(s)]) + 1
    BY <1>7, <1>8
  <2>4. QED
    BY <1>8, <2>2, <2>3
<1>9. iter[1 .. n] \in Nat
  <2>1. iter[{}] \in Nat
    BY <1>6
  <2>2. QED
    BY <1>1, <1>8, <2>1, FoldStays
<1>10. Ends(ls) = iter[1 .. n]
  BY <1>1 DEF Ends, FoldLeft, MapThenFoldSet, iter, Adds
<1>11. ASSUME n = 1 PROVE iter[1 .. n] = Len(ls[1]) + 1
  <2>1. 1 .. n = {1}
    BY <1>11
  <2>2. Max({1}) = 1
    <3>1. {1} \subseteq 1 .. 1 /\ 1 \in Nat
      OBVIOUS
    <3>2. Max({1}) \in {1}
      BY <3>1, MaxIs
    <3>3. QED
      BY <3>2
  <2>3. {1} \ {1} = {}
    OBVIOUS
  <2>4. Len(ls[1]) \in Nat
    BY <1>1, <1>11
  <2>5. iter[{1}] = iter[{}] + Len(ls[1]) + 1
    BY <1>7, <2>1, <2>2, <2>3
  <2>6. iter[{1}] = Len(ls[1]) + 1
    BY <1>6, <2>4, <2>5
  <2>7. QED
    BY <2>1, <2>6
<1>12. QED
  BY <1>9, <1>10, <1>11 DEF n

LEMMA LengthIs ==
  ASSUME NEW ls \in Texts
  PROVE  /\ Length(ls) \in Int
         /\ Len(ls) = 1 => Length(ls) = Len(ls[1])
<1>1. Length(ls) = IF ls = <<>> THEN 0 ELSE Ends(ls) - 1
  BY DEF Length, Ends
<1>2. Len(ls) = 1 => Len(ls[1]) \in Nat /\ ls # <<>>
  BY DEF Texts
<1>3. QED
  BY <1>1, <1>2, EndsIs

LEMMA InkIs ==
  ASSUME NEW l \in Seq(Chars)
  PROVE  Ink(l) \subseteq 1 .. Len(l)
BY DEF Ink

LEMMA EmptyLength == Length(<<>>) = 0
  BY DEF Length

\* A part of a line, and the lines that are left, when the blank ends are cut.
LEMMA PartIs ==
  ASSUME NEW l \in Seq(Chars), NEW a \in Nat \ {0}, NEW b \in 0 .. Len(l)
  PROVE  /\ SubSeq(l, a, b) \in Seq(Chars)
         /\ Len(SubSeq(l, a, b)) = IF a <= b THEN b - a + 1 ELSE 0
<1>1. a \in Int /\ b \in Int /\ \A i \in a .. b : l[i] \in Chars
  <2>1. Len(l) \in Nat /\ \A i \in 1 .. Len(l) : l[i] \in Chars
    OBVIOUS
  <2>2. \A i \in a .. b : i \in 1 .. Len(l)
    BY <2>1
  <2>3. QED
    BY <2>1, <2>2
<1>2. QED
  BY <1>1, SubSeqProperties

\* Trim drops the blank lines before lo and after hi, and of line i what is before
\* from[i] and after upto[i].
Trimmed(ls, lo, hi, from, upto) ==
  /\ lo <= hi
  /\ \A i \in 1 .. Len(ls) : ~ Blank(ls[i]) => lo <= i /\ i <= hi
  /\ Trim(ls) = [i \in 1 .. hi - lo + 1 |->
                   SubSeq(ls[lo + i - 1], from[lo + i - 1], upto[lo + i - 1])]
  /\ \A i \in 1 .. Len(ls) : /\ from[i] # 0 /\ upto[i] <= Len(ls[i])
                             /\ Ink(ls[i]) \subseteq from[i] .. upto[i]

LEMMA TrimShape ==
  ASSUME NEW ls \in Texts, \E i \in 1 .. Len(ls) : ~ Blank(ls[i])
  PROVE  \E lo, hi \in 1 .. Len(ls), from, upto \in [1 .. Len(ls) -> Nat] :
           Trimmed(ls, lo, hi, from, upto)
<1> DEFINE inky == {i \in DOMAIN ls : ~ Blank(ls[i])}
           lo == Min(inky)
           hi == Max(inky)
           left(i) == IF i = lo THEN Min(Ink(ls[i])) ELSE 1
           right(i) == IF i = hi THEN Max(Ink(ls[i])) ELSE Len(ls[i])
           from == [i \in 1 .. Len(ls) |-> left(i)]
           upto == [i \in 1 .. Len(ls) |-> right(i)]
<1>1. Len(ls) \in Nat /\ DOMAIN ls = 1 .. Len(ls)
      /\ \A i \in 1 .. Len(ls) : ls[i] \in Seq(Chars) /\ Len(ls[i]) \in Nat
  BY DEF Texts
<1>2. inky # {} /\ inky \subseteq 1 .. Len(ls) /\ inky \subseteq Nat
  BY <1>1
<1>3. Trim(ls) = [i \in 1 .. hi - lo + 1 |->
                    SubSeq(ls[lo + i - 1], left(lo + i - 1), right(lo + i - 1))]
  <2>1. Trim(ls) = IF inky = {} THEN <<>>
                   ELSE [i \in 1 .. hi - lo + 1 |->
                           SubSeq(ls[lo + i - 1], left(lo + i - 1), right(lo + i - 1))]
    BY DEF Trim
  <2>2. QED
    BY <1>2, <2>1
<1>4. /\ lo \in inky /\ hi \in inky
      /\ \A i \in inky : lo <= i /\ i <= hi
  <2> HIDE DEF inky
  <2>1. lo \in inky /\ \A i \in inky : lo <= i
    BY <1>2, MinIs
  <2>2. hi \in inky /\ \A i \in inky : i <= hi
    BY <1>1, <1>2, MaxIs
  <2>3. QED
    BY <2>1, <2>2
<1>5. lo \in 1 .. Len(ls) /\ hi \in 1 .. Len(ls) /\ lo <= hi /\ hi - lo + 1 <= Len(ls)
  BY <1>1, <1>2, <1>4
<1>6. ASSUME NEW i \in inky
      PROVE  /\ Min(Ink(ls[i])) \in 1 .. Len(ls[i]) /\ Max(Ink(ls[i])) \in 1 .. Len(ls[i])
             /\ \A c \in Ink(ls[i]) : Min(Ink(ls[i])) <= c /\ c <= Max(Ink(ls[i]))
  <2>1. ls[i] \in Seq(Chars) /\ Len(ls[i]) \in Nat /\ Ink(ls[i]) # {}
    BY <1>1 DEF Blank
  <2>2. Ink(ls[i]) \subseteq 1 .. Len(ls[i])
    BY <2>1, InkIs
  <2>3. Ink(ls[i]) \subseteq Nat
    BY <2>2
  <2>4. Min(Ink(ls[i])) \in Ink(ls[i]) /\ \A m \in Ink(ls[i]) : Min(Ink(ls[i])) <= m
    BY <2>1, <2>3, MinIs
  <2>5. Max(Ink(ls[i])) \in Ink(ls[i]) /\ \A m \in Ink(ls[i]) : m <= Max(Ink(ls[i]))
    BY <2>1, <2>2, MaxIs
  <2>6. QED
    BY <2>2, <2>4, <2>5
<1>7. ASSUME NEW i \in 1 .. Len(ls)
      PROVE  /\ left(i) \in Nat /\ left(i) # 0 /\ right(i) \in Nat /\ right(i) <= Len(ls[i])
             /\ Ink(ls[i]) \subseteq left(i) .. right(i)
  <2>1. ls[i] \in Seq(Chars) /\ Len(ls[i]) \in Nat /\ Ink(ls[i]) \subseteq 1 .. Len(ls[i])
    BY <1>1, InkIs
  <2> HIDE DEF inky
  <2>2. left(i) \in Nat /\ left(i) # 0 /\ \A c \in Ink(ls[i]) : left(i) <= c
    <3>1. CASE i = lo
      BY <1>4, <1>6, <2>1, <3>1
    <3>2. CASE i # lo
      BY <2>1, <3>2
    <3>3. QED
      BY <3>1, <3>2
  <2>3. right(i) \in Nat /\ right(i) <= Len(ls[i]) /\ \A c \in Ink(ls[i]) : c <= right(i)
    <3>1. CASE i = hi
      BY <1>4, <1>6, <2>1, <3>1
    <3>2. CASE i # hi
      BY <2>1, <3>2
    <3>3. QED
      BY <3>1, <3>2
  <2> HIDE DEF left, right
  <2>4. QED
    BY <2>1, <2>2, <2>3
<1>8. \A i \in 1 .. Len(ls) : ~ Blank(ls[i]) => lo <= i /\ i <= hi
  BY <1>1, <1>4
<1> HIDE DEF inky, lo, hi, left, right
<1>9. from \in [1 .. Len(ls) -> Nat] /\ upto \in [1 .. Len(ls) -> Nat]
  BY <1>7
<1>10. \A i \in 1 .. Len(ls) : from[i] = left(i) /\ upto[i] = right(i)
  OBVIOUS
<1>11. Trim(ls) = [i \in 1 .. hi - lo + 1 |->
                     SubSeq(ls[lo + i - 1], from[lo + i - 1], upto[lo + i - 1])]
  <2>1. \A i \in 1 .. hi - lo + 1 : lo + i - 1 \in 1 .. Len(ls)
    BY <1>1, <1>5
  <2> HIDE DEF from, upto
  <2>2. QED
    BY <1>3, <1>10, <2>1
<1> HIDE DEF from, upto
<1>12. \A i \in 1 .. Len(ls) : /\ from[i] # 0 /\ upto[i] <= Len(ls[i])
                               /\ Ink(ls[i]) \subseteq from[i] .. upto[i]
  BY <1>7, <1>10
<1>13. Trimmed(ls, lo, hi, from, upto)
  BY <1>5, <1>8, <1>11, <1>12 DEF Trimmed
<1>14. QED
  BY <1>5, <1>9, <1>13

LEMMA TrimBlank ==
  ASSUME NEW ls \in Texts, \A i \in 1 .. Len(ls) : Blank(ls[i])
  PROVE  Trim(ls) = <<>>
<1>1. {i \in DOMAIN ls : ~ Blank(ls[i])} = {}
  <2>1. DOMAIN ls = 1 .. Len(ls)
    BY DEF Texts
  <2>2. QED
    BY <2>1
<1>2. QED
  BY <1>1 DEF Trim

LEMMA TrimIs ==
  ASSUME NEW ls \in Texts
  PROVE  /\ Trim(ls) \in Texts
         /\ Len(ls) = 1 => Length(Trim(ls)) <= Len(ls[1])
         /\ \A i \in 1 .. Len(ls) : ~ Blank(ls[i]) => Trim(ls) # <<>>
<1>1. Len(ls) \in Nat /\ \A i \in 1 .. Len(ls) : ls[i] \in Seq(Chars) /\ Len(ls[i]) \in Nat
  BY DEF Texts
<1>2. CASE \A i \in 1 .. Len(ls) : Blank(ls[i])
  <2>1. Trim(ls) = <<>> /\ <<>> \in Texts
    BY <1>2, TrimBlank DEF Texts
  <2>2. QED
    BY <1>1, <1>2, <2>1, EmptyLength
<1>3. CASE \E i \in 1 .. Len(ls) : ~ Blank(ls[i])
  <2>1. PICK lo, hi \in 1 .. Len(ls), from, upto \in [1 .. Len(ls) -> Nat] :
        Trimmed(ls, lo, hi, from, upto)
    BY <1>3, TrimShape
  <2>2. hi - lo + 1 \in Nat /\ 1 \in 1 .. hi - lo + 1
    BY <1>1, <2>1 DEF Trimmed
  <2>3. ASSUME NEW i \in 1 .. Len(ls)
        PROVE  /\ SubSeq(ls[i], from[i], upto[i]) \in Seq(Chars)
               /\ Len(SubSeq(ls[i], from[i], upto[i])) <= Len(ls[i])
    <3> DEFINE a == from[i]  b == upto[i]  l == ls[i]
    <3>1. a \in Nat \ {0} /\ b \in 0 .. Len(l) /\ l \in Seq(Chars) /\ Len(l) \in Nat
      <4>1. ls[i] \in Seq(Chars) /\ Len(ls[i]) \in Nat
        BY <1>1
      <4>2. from[i] \in Nat /\ from[i] # 0 /\ upto[i] \in Nat /\ upto[i] <= Len(ls[i])
        BY <2>1 DEF Trimmed
      <4>3. QED
        BY <4>1, <4>2
    <3> HIDE DEF a, b, l
    <3>2. SubSeq(l, a, b) \in Seq(Chars) /\ Len(SubSeq(l, a, b)) = IF a <= b THEN b - a + 1 ELSE 0
      BY <3>1, PartIs
    <3>3. Len(SubSeq(l, a, b)) <= Len(l)
      BY <3>1, <3>2
    <3>4. QED
      BY <3>2, <3>3 DEF a, b, l
  <2>4. \A i \in 1 .. hi - lo + 1 : lo + i - 1 \in 1 .. Len(ls)
    BY <1>1, <2>1
  <2>5. Trim(ls) \in [1 .. hi - lo + 1 -> Seq(Chars)]
    BY <2>1, <2>3, <2>4 DEF Trimmed
  <2>6. Trim(ls) \in Texts
    BY <2>2, <2>5, SeqDef DEF Texts
  <2>7. Trim(ls) # <<>>
    BY <2>2, <2>5
  <2>8. ASSUME Len(ls) = 1 PROVE Length(Trim(ls)) <= Len(ls[1])
    <3>1. lo = 1 /\ hi = 1 /\ hi - lo + 1 = 1 /\ lo + 1 - 1 = 1
      BY <2>8
    <3>2. Trim(ls)[1] = SubSeq(ls[1], from[1], upto[1])
      BY <2>1, <2>2, <3>1 DEF Trimmed
    <3>3. DOMAIN Trim(ls) = 1 .. 1
      BY <2>5, <3>1
    <3>4. Len(Trim(ls)) = 1
      BY <2>6, <3>3 DEF Texts
    <3>5. Length(Trim(ls)) = Len(Trim(ls)[1])
      BY <2>6, <3>4, LengthIs
    <3>6. 1 \in 1 .. Len(ls)
      BY <2>8
    <3>7. QED
      BY <2>3, <3>2, <3>5, <3>6
  <2>9. QED
    BY <2>6, <2>7, <2>8
<1>4. QED
  BY <1>2, <1>3

-----------------------------------------------------------------------------
(* Chunks.                                                                 *)

Fitting ==
  {c \in [text : Texts \ {<<>>}, first : Nat, last : Nat, index : Nat] :
     c.first <= c.last /\ Length(c.text) <= MaxChunkChars}

LEMMA OptionsAre ==
  ASSUME options \in Options
  PROVE  /\ MaxChunkChars \in Nat \ {0} /\ ChunkLines \in Nat \ {0}
         /\ WindowStep \in 1 .. ChunkLines
<1>1. options.chunkLines \in Nat /\ options.overlapLines \in Nat /\ options.maxChunkChars \in Nat
  BY ChunkerAssumption
<1>2. MaxChunkChars \in Nat \ {0} /\ ChunkLines \in Nat \ {0}
  BY <1>1 DEF MaxChunkChars, ChunkLines, Larger
<1>3. Smaller(options.overlapLines, ChunkLines - 1) \in 0 .. ChunkLines - 1
  BY <1>1, <1>2 DEF Smaller
<1>4. QED
  BY <1>2, <1>3 DEF WindowStep

LEMMA PushedIs ==
  ASSUME options \in Options, NEW cs \in Seq(Fitting), NEW ls \in Texts,
         NEW first \in Nat, NEW last \in Nat, first <= last,
         Length(Trim(ls)) <= MaxChunkChars
  PROVE  Pushed(cs, ls, first, last) \in Seq(Fitting)
<1> DEFINE text == Trim(ls)
           c == [text |-> text, first |-> first, last |-> last, index |-> Len(cs)]
<1>1. text \in Texts
  BY TrimIs
<1>2. Pushed(cs, ls, first, last) = IF text = <<>> THEN cs ELSE Append(cs, c)
  BY DEF Pushed
<1>3. ASSUME text # <<>> PROVE c \in Fitting
  <2>1. Len(cs) \in Nat
    OBVIOUS
  <2> HIDE DEF text
  <2>2. c \in [text : Texts \ {<<>>}, first : Nat, last : Nat, index : Nat]
    BY <1>1, <1>3, <2>1
  <2>3. Length(c.text) <= MaxChunkChars
    BY DEF text
  <2>4. QED
    BY <2>2, <2>3 DEF Fitting
<1> HIDE DEF c, text
<1>4. QED
  BY <1>2, <1>3

\* The pieces of a line begin where the one before ended, and none is too long.
LEMMA PieceIs ==
  ASSUME options \in Options, NEW l \in Seq(Chars), NEW i \in Nat \ {0}
  PROVE  /\ <<Piece(l, i)>> \in Texts
         /\ Length(Trim(<<Piece(l, i)>>)) <= MaxChunkChars
<1> DEFINE M == MaxChunkChars
           a == (i - 1) * M + 1
           b == Smaller(i * M, Len(l))
<1>1. M \in Nat \ {0} /\ Len(l) \in Nat
  BY OptionsAre
<1> HIDE DEF M
<1>2. PICK k \in Nat : k = (i - 1) * M
  <2>1. i - 1 \in Nat
    OBVIOUS
  <2>2. (i - 1) * M \in Nat
    BY <1>1, <2>1
  <2>3. QED
    BY <2>2
<1>3. i * M = k + M
  BY <1>1, <1>2
<1>4. a = k + 1 /\ b \in 0 .. Len(l) /\ b <= k + M
  BY <1>1, <1>2, <1>3 DEF Smaller
<1>5. Piece(l, i) = SubSeq(l, a, b)
  BY DEF Piece, M
<1> HIDE DEF a, b
<1>6. Piece(l, i) \in Seq(Chars) /\ Len(Piece(l, i)) <= M
  <2>1. a \in Nat \ {0}
    BY <1>2, <1>4
  <2>2. SubSeq(l, a, b) \in Seq(Chars)
        /\ Len(SubSeq(l, a, b)) = IF a <= b THEN b - a + 1 ELSE 0
    BY <1>4, <2>1, PartIs
  <2>3. (IF a <= b THEN b - a + 1 ELSE 0) <= M
    BY <1>1, <1>2, <1>4
  <2>4. QED
    BY <1>5, <2>2, <2>3
<1>7. <<Piece(l, i)>> \in Texts /\ Len(<<Piece(l, i)>>) = 1 /\ <<Piece(l, i)>>[1] = Piece(l, i)
  BY <1>6 DEF Texts
<1>8. Length(Trim(<<Piece(l, i)>>)) <= Len(Piece(l, i)) /\ Trim(<<Piece(l, i)>>) \in Texts
  BY <1>7, TrimIs
<1>9. Length(Trim(<<Piece(l, i)>>)) \in Int
  BY <1>8, LengthIs
<1>10. QED
  <2>1. Len(Piece(l, i)) \in Nat
    BY <1>6
  <2>2. QED
    BY <1>1, <1>6, <1>7, <1>8, <1>9, <2>1 DEF M

\* The pieces of a line.
Count(l) == (Len(l) + MaxChunkChars - 1) \div MaxChunkChars

LEMMA CountIs ==
  ASSUME options \in Options, NEW l \in Seq(Chars)
  PROVE  Count(l) \in Nat /\ Count(l) * MaxChunkChars \in Nat /\ Count(l) * MaxChunkChars >= Len(l)
<1>1. MaxChunkChars \in Nat \ {0} /\ Len(l) \in Nat
  BY OptionsAre
<1>2. ASSUME NEW x \in Nat, NEW y \in Nat \ {0}
      PROVE  /\ (x + y - 1) \div y \in Nat
             /\ ((x + y - 1) \div y) * y \in Nat
             /\ ((x + y - 1) \div y) * y >= x
  <2>1. PICK z \in Nat : z = x + y - 1
    <3>1. x + y - 1 \in Nat
      OBVIOUS
    <3>2. QED
      BY <3>1
  <2>2. z \div y \in Nat /\ z % y \in 0 .. y - 1 /\ z = y * (z \div y) + (z % y)
    OBVIOUS
  <2>3. PICK q \in Nat : q = z \div y
    BY <2>2
  <2>4. q * y = y * q /\ q * y \in Nat
    OBVIOUS
  <2>5. PICK r \in 0 .. y - 1 : r = z % y
    BY <2>2
  <2>6. PICK k \in Nat : k = q * y
    BY <2>4
  <2>7. z = k + r
    BY <2>2, <2>3, <2>4, <2>5, <2>6
  <2>8. k >= x
    BY <2>1, <2>5, <2>7
  <2>9. QED
    BY <2>1, <2>3, <2>6, <2>8
<1>3. QED
  BY <1>1, <1>2 DEF Count

\* f has the chunks before and after each piece.
Cuts(f, cs, l, n) ==
  /\ f[0] = cs /\ f[Count(l)] = Pieces(cs, l, n)
  /\ \A k \in 0 .. Count(l) - 1 : f[k + 1] = Pushed(f[k], <<Piece(l, k + 1)>>, n, n)

LEMMA PiecesFold ==
  ASSUME options \in Options, NEW l \in Seq(Chars), NEW n \in Nat, NEW A, NEW cs \in A,
         \A i \in Nat \ {0}, acc \in A : Pushed(acc, <<Piece(l, i)>>, n, n) \in A
  PROVE  \E f : Cuts(f, cs, l, n)
<1> DEFINE count == Count(l)
           is == [i \in 1 .. count |-> i]
           Adds(f) == f = [s \in SUBSET (1 .. count) |->
                             IF s = {} THEN cs
                             ELSE Pushed(f[s \ {Max(s)}], <<Piece(l, is[Max(s)])>>, n, n)]
           iter == CHOOSE f : Adds(f)
           G == [p \in (1 .. count) \X A |-> Pushed(p[2], <<Piece(l, is[p[1]])>>, n, n)]
<1>1. count \in Nat
  BY CountIs
<1>2. DOMAIN is = 1 .. count /\ \A i \in 1 .. count : is[i] = i
  OBVIOUS
<1> HIDE DEF count, is
<1>3. ASSUME NEW i \in 1 .. count, NEW acc \in A
      PROVE  Pushed(acc, <<Piece(l, is[i])>>, n, n) \in A
  <2>1. is[i] \in Nat \ {0}
    BY <1>1, <1>2
  <2>2. QED
    BY <2>1
<1>4. \A i \in 1 .. count, acc \in A :
        /\ G[<<i, acc>>] = Pushed(acc, <<Piece(l, is[i])>>, n, n)
        /\ G[<<i, acc>>] \in A
  BY <1>3
<1> HIDE DEF G
<1>5. PICK g \in [SUBSET (1 .. count) -> A] : Folding(g, count, cs, G)
  <2>1. \A i \in 1 .. count, acc \in A : G[<<i, acc>>] \in A
    BY <1>4
  <2>2. QED
    BY <1>1, <2>1, FoldExists
<1>6. Adds(g)
  <2> DEFINE h == [s \in SUBSET (1 .. count) |->
                     IF s = {} THEN cs
                     ELSE Pushed(g[s \ {Max(s)}], <<Piece(l, is[Max(s)])>>, n, n)]
  <2>1. ASSUME NEW s \in SUBSET (1 .. count) PROVE g[s] = h[s]
    <3>1. CASE s = {}
      BY <1>5, <3>1 DEF Folding
    <3>2. CASE s # {}
      <4>1. Max(s) \in 1 .. count
        BY <1>1, <3>2, MaxIs
      <4>2. g[s \ {Max(s)}] \in A
        BY <1>5
      <4>3. g[s] = G[<<Max(s), g[s \ {Max(s)}]>>]
        BY <1>5, <3>2 DEF Folding
      <4>4. g[s] = Pushed(g[s \ {Max(s)}], <<Piece(l, is[Max(s)])>>, n, n)
        BY <1>4, <4>1, <4>2, <4>3
      <4>5. QED
        BY <3>2, <4>4
    <3>3. QED
      BY <3>1, <3>2
  <2>2. g = h
    <3>1. g = [s \in SUBSET (1 .. count) |-> g[s]]
      OBVIOUS
    <3>2. QED
      BY <2>1, <3>1
  <2>3. QED
    BY <2>2
<1>7. Adds(iter)
  <2> HIDE DEF Adds
  <2>1. QED
    BY <1>6
<1> HIDE DEF iter
<1>8. iter[{}] = cs
  BY <1>7
<1> DEFINE f == [k \in 0 .. count |-> iter[1 .. k]]
<1>9. f[0] = cs
  <2>1. 0 \in 0 .. count /\ 1 .. 0 = {}
    BY <1>1
  <2>2. QED
    BY <1>8, <2>1
<1>10. ASSUME NEW k \in 0 .. count - 1
       PROVE  f[k + 1] = Pushed(f[k], <<Piece(l, k + 1)>>, n, n)
  <2>1. /\ k \in Nat /\ k \in 0 .. count /\ k + 1 \in 0 .. count /\ k + 1 \in 1 .. count
        /\ k + 1 \in 1 .. k + 1
    BY <1>1
  <2>2. 1 .. k + 1 \in SUBSET (1 .. count) /\ 1 .. k + 1 # {}
    <3>1. \A i \in 1 .. k + 1 : i \in 1 .. count
      BY <1>1, <2>1
    <3>2. QED
      BY <2>1, <3>1
  <2>3. Max(1 .. k + 1) \in 1 .. k + 1 /\ \A m \in 1 .. k + 1 : m <= Max(1 .. k + 1)
    <3>1. k + 1 \in Nat
      BY <2>1
    <3>2. QED
      BY <2>2, <3>1, MaxIs
  <2>4. Max(1 .. k + 1) = k + 1
    BY <2>1, <2>3
  <2>5. (1 .. k + 1) \ {Max(1 .. k + 1)} = 1 .. k
    BY <2>1, <2>4
  <2>6. iter[1 .. k + 1] = Pushed(iter[1 .. k], <<Piece(l, is[k + 1])>>, n, n)
    BY <1>7, <2>2, <2>4, <2>5
  <2>7. QED
    BY <1>2, <2>1, <2>6
<1>11. f[count] = Pieces(cs, l, n)
  <2>1. Pieces(cs, l, n) = iter[1 .. count]
    BY <1>2 DEF Pieces, FoldLeft, MapThenFoldSet, iter, Adds, count, is, Count
  <2>2. count \in 0 .. count
    BY <1>1
  <2>3. QED
    BY <2>1, <2>2
<1> HIDE DEF f
<1>12. QED
  BY <1>9, <1>10, <1>11 DEF count, Cuts

\* What every piece keeps of the chunks, all of them keep.
LEMMA PiecesStay ==
  ASSUME options \in Options, NEW l \in Seq(Chars), NEW n \in Nat, NEW A, NEW cs \in A,
         \A i \in Nat \ {0}, acc \in A : Pushed(acc, <<Piece(l, i)>>, n, n) \in A
  PROVE  Pieces(cs, l, n) \in A
<1>1. PICK f : Cuts(f, cs, l, n)
  BY PiecesFold
<1>2. Count(l) \in Nat
  BY CountIs
<1> DEFINE done == {k \in Nat : k <= Count(l) => f[k] \in A}
<1>3. 0 \in done
  BY <1>1 DEF Cuts
<1>4. ASSUME NEW k \in done PROVE k + 1 \in done
  <2>1. SUFFICES ASSUME k + 1 <= Count(l) PROVE f[k + 1] \in A
    OBVIOUS
  <2>2. k \in 0 .. Count(l) - 1 /\ k + 1 \in Nat \ {0} /\ f[k] \in A
    BY <1>2, <2>1
  <2>3. f[k + 1] = Pushed(f[k], <<Piece(l, k + 1)>>, n, n)
    BY <1>1, <2>2 DEF Cuts
  <2>4. QED
    BY <2>2, <2>3
<1>5. Nat \subseteq done
  <2> HIDE DEF done
  <2>1. QED
    BY <1>3, <1>4, Induct
<1>6. f[Count(l)] \in A
  BY <1>2, <1>5
<1>7. QED
  BY <1>1, <1>6 DEF Cuts

LEMMA PiecesAre ==
  ASSUME options \in Options, NEW cs \in Seq(Fitting), NEW l \in Seq(Chars), NEW n \in Nat
  PROVE  Pieces(cs, l, n) \in Seq(Fitting)
<1>1. ASSUME NEW i \in Nat \ {0}, NEW acc \in Seq(Fitting)
      PROVE  Pushed(acc, <<Piece(l, i)>>, n, n) \in Seq(Fitting)
  <2>1. n <= n /\ <<Piece(l, i)>> \in Texts
        /\ Length(Trim(<<Piece(l, i)>>)) <= MaxChunkChars
    BY PieceIs
  <2>2. QED
    BY <2>1, PushedIs
<1>2. QED
  BY <1>1, PiecesStay

-----------------------------------------------------------------------------
(* Types.                                                                  *)

Spans == {s \in [first : Nat \ {0}, last : Nat] : s.first <= s.last /\ s.last <= Len(file)}

Given ==
  /\ mode \in Modes \cup {"line-window"} /\ options \in Options
  /\ file \in Seq(LineKinds) /\ file # <<>>
  /\ nodes \subseteq {s \in Spans : ~ Blank(Line(s.first))}
  /\ sections \subseteq Spans /\ (mode = "tree-sitter" => sections \subseteq nodes)

\* The windows of the lines that are cut, and what is gathered of them.
Gathered ==
  /\ part \in [lines : Texts, base : Nat \ {0}] /\ start \in Nat /\ line \in Nat
  /\ buffer \in [lines : Texts, first : Nat]
  /\ pc = "windows" => start < Len(part.lines) /\ start + line <= WindowEnd
  /\ buffer.lines # <<>> => /\ buffer.first < part.base + start + line
                            /\ Length(Trim(buffer.lines)) <= MaxChunkChars

Well ==
  /\ pc \in {"split", "sections", "windows", "done"}
  /\ Given /\ Gathered
  /\ cut \in Seq(Fitting) /\ chunks \in Seq(Fitting)

LEMMA LineIs ==
  ASSUME file \in Seq(LineKinds), NEW n \in 1 .. Len(file)
  PROVE  Line(n) \in Seq(Chars)
<1>1. file[n] \in LineKinds /\ n \in Nat
  BY ElementOfSeq
<1>2. file[n].ink \in Seq(BOOLEAN)
  BY <1>1, ChunkerAssumption
<1> DEFINE ink == file[n].ink
<1>3. Len(ink) \in Nat /\ DOMAIN ink = 1 .. Len(ink) /\ \A c \in 1 .. Len(ink) : ink[c] \in BOOLEAN
  BY <1>2, ElementOfSeq
<1>4. Line(n) = [c \in 1 .. Len(ink) |-> [at |-> <<n, c>>, ink |-> ink[c]]]
  BY <1>3 DEF Line
<1> HIDE DEF ink
<1>5. \A c \in 1 .. Len(ink) : [at |-> <<n, c>>, ink |-> ink[c]] \in Chars
  BY <1>1, <1>3 DEF Chars
<1>6. Line(n) \in [1 .. Len(ink) -> Chars]
  BY <1>4, <1>5
<1>7. QED
  BY <1>3, <1>6, SeqDef

LEMMA LinesAre ==
  ASSUME file \in Seq(LineKinds), NEW s \in Spans
  PROVE  /\ LinesOf(s) \in Texts /\ Len(LinesOf(s)) = s.last - s.first + 1
         /\ \A i \in 1 .. s.last - s.first + 1 : LinesOf(s)[i] = Line(s.first + i - 1)
<1> DEFINE n == s.last - s.first + 1
<1>1. s.first \in Nat \ {0} /\ s.last \in Nat /\ s.first <= s.last /\ s.last <= Len(file) /\ n \in Nat
  BY DEF Spans
<1>2. LinesOf(s) = [i \in 1 .. n |-> Line(s.first + i - 1)]
  BY DEF LinesOf
<1> HIDE DEF n
<1>3. ASSUME NEW i \in 1 .. n PROVE Line(s.first + i - 1) \in Seq(Chars)
  <2>1. s.first + i - 1 \in 1 .. Len(file)
    BY <1>1 DEF n
  <2>2. QED
    BY <2>1, LineIs
<1>4. LinesOf(s) \in [1 .. n -> Seq(Chars)]
  BY <1>2, <1>3
<1>5. LinesOf(s) \in Texts
  BY <1>1, <1>4, SeqDef DEF Texts
<1>6. Len(LinesOf(s)) = n
  BY <1>1, <1>2, <1>5 DEF Texts
<1>7. QED
  BY <1>2, <1>5, <1>6 DEF n

LEMMA FirstIs ==
  ASSUME NEW ss, ss \subseteq Spans, ss # {}
  PROVE  First(ss) \in ss
<1> DEFINE T == {s.first : s \in ss}
<1>1. T \subseteq Nat /\ T # {}
  BY DEF Spans
<1>2. PICK n \in T : \A m \in T : n <= m
  <2> HIDE DEF T
  <2>1. QED
    BY <1>1, Least
<1>3. PICK s \in ss : n = s.first
  BY <1>2
<1>4. \A t \in ss : s.first <= t.first
  BY <1>2, <1>3
<1>5. QED
  BY <1>4 DEF First

LEMMA NodesAre ==
  ASSUME file \in Seq(LineKinds), NEW ns \in NodeSets, \A n \in ns : n.last <= Len(file)
  PROVE  ns \subseteq Spans
<1> DEFINE spans == {s \in [first : 1 .. MaxLines, last : 1 .. MaxLines] : s.first <= s.last}
<1>1. ASSUME NEW n \in ns PROVE n \in spans
  <2> HIDE DEF spans
  <2>1. ns \in {{}} \cup {{p, q} : p, q \in spans}
    BY DEF NodeSets, spans
  <2>2. QED
    BY <2>1
<1>2. \A n \in spans : n \in [first : Nat \ {0}, last : Nat] /\ n.first <= n.last
  BY ChunkerAssumption
<1>3. QED
  BY <1>1, <1>2 DEF Spans

LEMMA SectionsAre ==
  ASSUME file \in Seq(LineKinds)
  PROVE  MarkdownSections \subseteq Spans /\ Paragraphs \subseteq Spans
<1>1. Len(file) \in Nat /\ Lines = 1 .. Len(file)
  BY DEF Lines
<1>2. ASSUME NEW n \in Lines, NEW T, T \subseteq n .. Len(file), Len(file) \in T
      PROVE  [first |-> n, last |-> Min(T)] \in Spans
  <2>1. n \in Nat \ {0} /\ T \subseteq Nat /\ T # {}
    BY <1>1, <1>2
  <2>2. Min(T) \in T
    BY <2>1, MinIs
  <2>3. n <= Min(T) /\ Min(T) <= Len(file) /\ Min(T) \in Nat
    <3>1. Min(T) \in n .. Len(file)
      BY <1>2, <2>2
    <3>2. QED
      BY <1>1, <2>1, <3>1
  <2> DEFINE m == Min(T)
  <2> HIDE DEF m
  <2>4. [first |-> n, last |-> m] \in Spans
    BY <2>1, <2>3 DEF Spans, m
  <2>5. QED
    BY <2>4 DEF m
<1>3. MarkdownSections \subseteq Spans
  <2> DEFINE starts == {n \in Lines : n = 1 \/ (file[n].heading /\ ~ InFence(n))}
             ends(n) == {m \in n .. Len(file) : m = Len(file) \/ m + 1 \in starts}
  <2>1. ASSUME NEW n \in Lines
        PROVE  ends(n) \subseteq n .. Len(file) /\ Len(file) \in ends(n)
    BY <1>1
  <2>2. MarkdownSections = {[first |-> n, last |-> Min(ends(n))] : n \in starts}
    BY DEF MarkdownSections
  <2>3. \A n \in starts : n \in Lines
    OBVIOUS
  <2> HIDE DEF starts, ends
  <2>4. QED
    BY <1>2, <2>1, <2>2, <2>3
<1>4. Paragraphs \subseteq Spans
  <2> DEFINE blank(n) == n \notin Lines \/ Blank(Line(n))
             starts == {n \in Lines : ~ blank(n) /\ blank(n - 1)}
             ends(n) == {m \in n .. Len(file) : blank(m + 1)}
  <2>1. ASSUME NEW n \in Lines
        PROVE  ends(n) \subseteq n .. Len(file) /\ Len(file) \in ends(n)
    BY <1>1
  <2>2. Paragraphs = {[first |-> n, last |-> Min(ends(n))] : n \in starts}
    BY DEF Paragraphs
  <2>3. \A n \in starts : n \in Lines
    OBVIOUS
  <2> HIDE DEF starts, ends
  <2>4. QED
    BY <1>2, <2>1, <2>2, <2>3
<1>5. QED
  BY <1>3, <1>4

-----------------------------------------------------------------------------
(* The steps.                                                              *)

LEMMA SameSpans ==
  ASSUME UNCHANGED input
  PROVE  /\ Spans' = Spans /\ Fitting' = Fitting /\ MaxChunkChars' = MaxChunkChars
         /\ ChunkLines' = ChunkLines /\ WindowStep' = WindowStep
         /\ \A n : Line(n)' = Line(n)
BY DEF input, Spans, Fitting, MaxChunkChars, ChunkLines, WindowStep, Line

\* A call of chunkFileWithLineWindows, for lines that are not empty.
LEMMA WindowsGather ==
  ASSUME Given, UNCHANGED input, NEW ls \in Texts, ls # <<>>, NEW base \in Nat \ {0},
         Windows(ls, base)
  PROVE  /\ pc' = "windows" /\ cut' = <<>> /\ Gathered'
<1>1. /\ part' = [lines |-> ls, base |-> base] /\ start' = 0 /\ line' = 0
      /\ buffer' = [lines |-> <<>>, first |-> base] /\ cut' = <<>> /\ pc' = "windows"
  BY DEF Windows
<1>2. Len(ls) \in Nat \ {0} /\ <<>> \in Texts
  BY DEF Texts
<1>3. part'.lines = ls /\ buffer'.lines = <<>>
  BY <1>1
<1>4. part' \in [lines : Texts, base : Nat \ {0}] /\ buffer' \in [lines : Texts, first : Nat]
  BY <1>1, <1>2
<1>5. ChunkLines \in Nat \ {0} /\ ChunkLines' = ChunkLines
  BY OptionsAre, SameSpans DEF Given
<1>6. WindowEnd' >= 0
  BY <1>1, <1>2, <1>3, <1>5 DEF WindowEnd, Smaller
<1>7. QED
  BY <1>1, <1>2, <1>3, <1>4, <1>6 DEF Gathered

LEMMA WindowEndIs ==
  ASSUME Well, pc = "windows"
  PROVE  /\ WindowEnd \in Nat /\ WindowEnd <= Len(part.lines) /\ WindowEnd <= start + ChunkLines
         /\ Len(part.lines) \in Nat /\ start < WindowEnd
         /\ WindowEnd < Len(part.lines) => WindowEnd = start + ChunkLines
<1>1. ChunkLines \in Nat \ {0} /\ start \in Nat /\ Len(part.lines) \in Nat /\ start < Len(part.lines)
  BY OptionsAre DEF Well, Given, Gathered, Texts
<1>2. QED
  BY <1>1 DEF WindowEnd, Smaller

LEMMA LineAhead ==
  ASSUME Well, pc = "windows", start + line < WindowEnd
  PROVE  start + line + 1 \in 1 .. Len(part.lines)
<1>1. start \in Nat /\ line \in Nat
  BY DEF Well, Gathered
<1>2. WindowEnd \in Nat /\ WindowEnd <= Len(part.lines) /\ Len(part.lines) \in Nat
  BY WindowEndIs
<1>3. \A s, i, w, n \in Nat : s + i < w /\ w <= n => s + i + 1 \in 1 .. n
  OBVIOUS
<1>4. QED
  BY <1>1, <1>2, <1>3

LEMMA NextLineKeeps ==
  ASSUME Well, NextLine
  PROVE  Well'
<1> DEFINE l == part.lines[start + line + 1]
           number == part.base + start + line
           full == ~ Fits(Append(buffer.lines, l)) /\ buffer.lines # <<>>
           gathered == IF full THEN <<>> ELSE buffer.lines
<1>1. /\ pc = "windows" /\ start + line < WindowEnd
      /\ IF Len(l) > MaxChunkChars
         THEN /\ cut' = Pieces(BeforeLong(number - 1), l, number)
              /\ buffer' = [lines |-> <<>>, first |-> number + 1]
         ELSE /\ cut' = IF full THEN Flushed(number - 1) ELSE cut
              /\ buffer' = [lines |-> Append(gathered, l),
                            first |-> FirstLine(gathered, number)]
      /\ line' = line + 1
      /\ UNCHANGED <<input, mode, pc, sections, part, start, chunks>>
  BY DEF NextLine
<1>2. /\ part.lines \in Texts /\ part.base \in Nat \ {0} /\ start \in Nat /\ line \in Nat
      /\ buffer.lines \in Texts /\ buffer.first \in Nat /\ options \in Options
      /\ cut \in Seq(Fitting) /\ chunks \in Seq(Fitting)
  BY DEF Well, Given, Gathered
<1>3. start + line + 1 \in 1 .. Len(part.lines)
  BY <1>1, LineAhead
<1>4. l \in Seq(Chars) /\ Len(l) \in Nat
  BY <1>2, <1>3, ElementOfSeq DEF Texts
<1>5. number \in Nat \ {0} /\ number - 1 \in Nat
  BY <1>2
<1>6. MaxChunkChars \in Nat \ {0}
  BY <1>2, OptionsAre
<1> HIDE DEF l
<1>7. ASSUME buffer.lines # <<>>
      PROVE  Flushed(number - 1) \in Seq(Fitting)
  <2>1. buffer.first <= number - 1 /\ Length(Trim(buffer.lines)) <= MaxChunkChars
    BY <1>2, <1>5, <1>7 DEF Well, Gathered
  <2> HIDE DEF number
  <2>2. QED
    BY <1>2, <1>5, <2>1, PushedIs DEF Flushed
<1>8. Given' /\ pc' = pc /\ chunks' = chunks
  BY <1>1, SameSpans DEF Well, Given, input
<1>9. MaxChunkChars' = MaxChunkChars /\ Fitting' = Fitting /\ WindowEnd' = WindowEnd
  BY <1>1, SameSpans DEF WindowEnd
<1>10. line' \in Nat /\ start' \in Nat /\ start' + line' <= WindowEnd'
       /\ part' \in [lines : Texts, base : Nat \ {0}] /\ start' < Len(part'.lines)
  <2>1. start + (line + 1) <= WindowEnd
    BY <1>1, <1>2, WindowEndIs
  <2>2. part \in [lines : Texts, base : Nat \ {0}] /\ start < Len(part.lines)
    BY <1>1 DEF Well, Gathered
  <2>3. line' = line + 1 /\ start' = start /\ part' = part
    BY <1>1
  <2>4. line' \in Nat /\ start' \in Nat
    BY <1>2, <2>3
  <2>5. QED
    BY <1>9, <2>1, <2>2, <2>3, <2>4
<1>11. /\ cut' \in Seq(Fitting) /\ buffer' \in [lines : Texts, first : Nat]
       /\ buffer'.lines # <<>> => /\ buffer'.first < number + 1
                                  /\ Length(Trim(buffer'.lines)) <= MaxChunkChars
  <2>1. CASE Len(l) > MaxChunkChars
    <3>1. BeforeLong(number - 1) \in Seq(Fitting)
      BY <1>2, <1>7 DEF BeforeLong
    <3>2. cut' \in Seq(Fitting)
      BY <1>1, <1>2, <1>4, <1>5, <2>1, <3>1, PiecesAre
    <3>3. <<>> \in Texts
      BY DEF Texts
    <3>4. buffer' = [lines |-> <<>>, first |-> number + 1]
      BY <1>1, <2>1
    <3>5. QED
      BY <1>5, <3>2, <3>3, <3>4
  <2>2. CASE ~ (Len(l) > MaxChunkChars)
    <3>1. /\ cut' = IF full THEN Flushed(number - 1) ELSE cut
          /\ buffer' = [lines |-> Append(gathered, l), first |-> FirstLine(gathered, number)]
      BY <1>1, <2>2
    <3>2. cut' \in Seq(Fitting)
      BY <1>2, <1>7, <3>1
    <3>3. gathered \in Texts /\ <<l>> \in Texts
      BY <1>2, <1>4 DEF Texts
    <3>4. Append(gathered, l) \in Texts
      BY <1>4, <3>3, AppendProperties DEF Texts
    <3>5. FirstLine(gathered, number) \in Nat /\ FirstLine(gathered, number) < number + 1
      <4>1. CASE gathered = <<>>
        BY <1>5, <4>1 DEF FirstLine
      <4>2. CASE gathered # <<>>
        <5>1. buffer.lines # <<>> /\ FirstLine(gathered, number) = buffer.first
          BY <4>2 DEF FirstLine
        <5>2. buffer.first < part.base + start + line
          BY <5>1 DEF Well, Gathered
        <5>3. QED
          BY <1>2, <5>1, <5>2
      <4>3. QED
        BY <4>1, <4>2
    <3>6. Length(Trim(Append(gathered, l))) <= MaxChunkChars
      <4>1. CASE gathered = <<>>
        <5>1. Append(gathered, l) = <<l>>
          <6>1. Append(<<>>, l) = <<l>>
            OBVIOUS
          <6> HIDE DEF gathered
          <6>2. QED
            BY <4>1, <6>1
        <5>2. Len(<<l>>) = 1 /\ <<l>>[1] = l
          OBVIOUS
        <5>3. Length(Trim(<<l>>)) <= Len(l) /\ Length(Trim(<<l>>)) \in Int
          BY <3>3, <5>2, TrimIs, LengthIs
        <5>4. Length(Trim(<<l>>)) <= MaxChunkChars
          BY <1>4, <1>6, <2>2, <5>2, <5>3
        <5>5. QED
          BY <5>1, <5>4
      <4>2. CASE gathered # <<>>
        BY <4>2 DEF Fits
      <4>3. QED
        BY <4>1, <4>2
    <3> HIDE DEF number, gathered, full
    <3>7. QED
      BY <3>1, <3>2, <3>4, <3>5, <3>6
  <2>3. QED
    BY <2>1, <2>2
<1>12. Gathered'
  <2>1. part'.base + start' + line' = number + 1
    <3>1. part' = part /\ start' = start /\ line' = line + 1
      BY <1>1
    <3>2. \A b, s, i \in Nat : b + s + (i + 1) = (b + s + i) + 1
      OBVIOUS
    <3>3. part.base + start + (line + 1) = (part.base + start + line) + 1
      BY <1>2, <3>2
    <3>4. QED
      BY <3>1, <3>3
  <2>2. buffer'.lines # <<>> => /\ buffer'.first < part'.base + start' + line'
                                /\ Length(Trim(buffer'.lines)) <= MaxChunkChars'
    BY <1>9, <1>11, <2>1
  <2>3. QED
    BY <1>10, <1>11, <2>2 DEF Gathered
<1>13. QED
  BY <1>8, <1>9, <1>11, <1>12 DEF Well

LEMMA EndWindowKeeps ==
  ASSUME Well, EndWindow
  PROVE  Well'
<1>1. /\ pc = "windows" /\ start + line = WindowEnd
      /\ cut' = IF buffer.lines = <<>> THEN cut ELSE Flushed(part.base + WindowEnd - 1)
      /\ buffer' = [buffer EXCEPT !.lines = <<>>] /\ line' = 0
      /\ IF WindowEnd >= Len(part.lines)
         THEN pc' = "sections" /\ chunks' = chunks \o cut' /\ UNCHANGED start
         ELSE start' = start + WindowStep /\ UNCHANGED <<pc, chunks>>
      /\ UNCHANGED <<input, mode, sections, part>>
  BY DEF EndWindow
<1>2. /\ part \in [lines : Texts, base : Nat \ {0}] /\ start \in Nat /\ line \in Nat
      /\ buffer \in [lines : Texts, first : Nat] /\ options \in Options
      /\ cut \in Seq(Fitting) /\ chunks \in Seq(Fitting)
  BY DEF Well, Given, Gathered
<1>3. /\ WindowEnd \in Nat /\ Len(part.lines) \in Nat /\ WindowStep \in 1 .. ChunkLines
      /\ ChunkLines \in Nat
      /\ WindowEnd < Len(part.lines) => WindowEnd = start + ChunkLines
  BY <1>1, <1>2, WindowEndIs, OptionsAre
<1>4. cut' \in Seq(Fitting)
  <2>1. CASE buffer.lines = <<>>
    BY <1>1, <1>2, <2>1
  <2>2. CASE buffer.lines # <<>>
    <3> DEFINE last == part.base + WindowEnd - 1
    <3>1. buffer.first <= last /\ last \in Nat /\ buffer.first \in Nat /\ buffer.lines \in Texts
          /\ Length(Trim(buffer.lines)) <= MaxChunkChars
      BY <1>1, <1>2, <1>3, <2>2 DEF Well, Gathered
    <3> HIDE DEF last
    <3>2. Flushed(last) \in Seq(Fitting)
      BY <1>2, <3>1, PushedIs DEF Flushed
    <3>3. QED
      BY <1>1, <2>2, <3>2 DEF last
  <2>3. QED
    BY <2>1, <2>2
<1>5. Given' /\ Fitting' = Fitting /\ ChunkLines' = ChunkLines
  BY <1>1, SameSpans DEF Well, Given, input
<1>6. /\ buffer' \in [lines : Texts, first : Nat] /\ buffer'.lines = <<>> /\ line' = 0
      /\ part' \in [lines : Texts, base : Nat \ {0}]
  <2>1. <<>> \in Texts
    BY DEF Texts
  <2>2. QED
    BY <1>1, <1>2, <2>1
<1>7. CASE WindowEnd >= Len(part.lines)
  <2>1. chunks' \in Seq(Fitting)
    <3>1. chunks' = chunks \o cut'
      BY <1>1, <1>7
    <3>2. QED
      BY <1>2, <1>4, <3>1, ConcatProperties
  <2>2. pc' = "sections" /\ start' \in Nat
    BY <1>1, <1>2, <1>7
  <2>3. Gathered'
    BY <1>6, <2>2 DEF Gathered
  <2>4. QED
    BY <1>4, <1>5, <2>1, <2>2, <2>3 DEF Well
<1>8. CASE ~ (WindowEnd >= Len(part.lines))
  <2>1. start' = start + WindowStep /\ pc' = pc /\ chunks' = chunks /\ part' = part
    BY <1>1, <1>8
  <2>2. start' \in Nat /\ start' < Len(part'.lines) /\ Len(part'.lines) \in Nat
    <3>1. WindowEnd = start + ChunkLines /\ WindowEnd < Len(part.lines)
      BY <1>3, <1>8
    <3>2. start + WindowStep \in Nat /\ start + WindowStep < Len(part.lines)
      BY <1>2, <1>3, <3>1
    <3>3. QED
      BY <1>3, <2>1, <3>2
  <2>3. start' + line' <= WindowEnd'
    <3>1. start' <= start' + ChunkLines /\ start' + ChunkLines \in Nat
      <4>1. \A a, b \in Nat : a <= a + b /\ a + b \in Nat
        OBVIOUS
      <4>2. ChunkLines \in Nat
        BY <1>3
      <4>3. QED
        BY <2>2, <4>1, <4>2
    <3>2. WindowEnd' = IF start' + ChunkLines <= Len(part'.lines)
                       THEN start' + ChunkLines ELSE Len(part'.lines)
      BY <1>5 DEF WindowEnd, Smaller
    <3>3. start' <= WindowEnd'
      BY <2>2, <3>1, <3>2
    <3>4. QED
      BY <1>6, <2>2, <3>3
  <2>4. Gathered'
    BY <1>6, <2>2, <2>3 DEF Gathered
  <2>5. QED
    BY <1>2, <1>4, <1>5, <2>1, <2>4 DEF Well
<1>9. QED
  BY <1>7, <1>8

LEMMA QuietKeeps ==
  ASSUME Well, UNCHANGED <<input, part, start, line, buffer, cut>>, pc' # "windows"
  PROVE  Gathered' /\ cut' \in Seq(Fitting')
<1>1. Fitting' = Fitting /\ MaxChunkChars' = MaxChunkChars
  BY SameSpans
<1>2. QED
  BY <1>1 DEF Well, Gathered

LEMMA SplitKeeps ==
  ASSUME Well, Split
  PROVE  Well'
<1>1. pc = "split" /\ UNCHANGED <<input, mode, chunks>>
  BY DEF Split
<1>2. Spans' = Spans /\ Fitting' = Fitting
  BY <1>1, SameSpans
<1>3. CASE mode = "line-window"
  <2> DEFINE s == [first |-> 1, last |-> Len(file)]
  <2>1. Windows(LinesOf(s), 1) /\ sections' = sections
    BY <1>1, <1>3 DEF Split
  <2>2. file \in Seq(LineKinds) /\ Len(file) \in Nat /\ 1 <= Len(file)
    BY DEF Well, Given
  <2>3. s \in Spans
    BY <2>2 DEF Spans
  <2> HIDE DEF s
  <2>4. LinesOf(s) \in Texts /\ Len(LinesOf(s)) = Len(file)
    <3>1. s.last - s.first + 1 = Len(file)
      BY <2>2 DEF s
    <3>2. QED
      BY <2>2, <2>3, <3>1, LinesAre
  <2>5. LinesOf(s) # <<>> /\ 1 \in Nat \ {0}
    BY <2>2, <2>4
  <2>6. pc' = "windows" /\ cut' = <<>> /\ Gathered'
    BY <1>1, <2>1, <2>4, <2>5, WindowsGather DEF Well
  <2>7. Given'
    BY <1>1, <2>1, SameSpans DEF Well, Given, input
  <2>8. QED
    BY <1>1, <1>2, <2>6, <2>7 DEF Well
<1>4. CASE mode # "line-window"
  <2>1. /\ pc' = "sections" /\ UNCHANGED <<part, start, line, buffer, cut>>
        /\ sections' = CASE mode = "markdown" -> MarkdownSections
                         [] mode = "text" -> Paragraphs
                         [] mode = "tree-sitter" -> nodes
    BY <1>1, <1>4 DEF Split, Quiet
  <2>2. mode \in {"markdown", "text", "tree-sitter"}
    BY <1>4, ChunkerAssumption DEF Well, Given
  <2>3. MarkdownSections \subseteq Spans /\ Paragraphs \subseteq Spans /\ nodes \subseteq Spans
    BY SectionsAre DEF Well, Given
  <2>4. sections' \subseteq Spans /\ (mode = "tree-sitter" => sections' = nodes)
    BY <2>1, <2>2, <2>3
  <2>5. Given'
    BY <1>1, <2>4, SameSpans DEF Well, Given, input
  <2>6. Gathered' /\ cut' \in Seq(Fitting')
    <3>1. pc' # "windows"
      BY <2>1
    <3>2. QED
      BY <1>1, <2>1, <3>1, QuietKeeps
  <2>7. QED
    BY <1>1, <1>2, <2>1, <2>5, <2>6 DEF Well
<1>5. QED
  BY <1>3, <1>4

\* A section or a node is one chunk or is cut into windows.
LEMMA CutKeeps ==
  ASSUME Well, NEW s \in Spans, UNCHANGED <<input, mode>>, sections' \subseteq sections,
         NEW index \in Nat, NEW text, text = Trim(LinesOf(s)),
         IF Length(text) > MaxChunkChars
         THEN Windows(text, s.first) /\ UNCHANGED chunks
         ELSE /\ chunks' \in {chunks, Whole(text, s, index)}
              /\ text = <<>> => chunks' = chunks
              /\ pc' = "sections" /\ UNCHANGED <<part, start, line, buffer, cut>>
  PROVE  Well'
<1>1. /\ file \in Seq(LineKinds) /\ options \in Options /\ Given
      /\ chunks \in Seq(Fitting) /\ MaxChunkChars \in Nat \ {0}
  BY OptionsAre DEF Well, Given
<1>2. text \in Texts /\ Length(text) \in Int
  <2>1. LinesOf(s) \in Texts
    BY <1>1, LinesAre
  <2>2. text \in Texts
    BY <2>1, TrimIs
  <2>3. QED
    BY <2>2, LengthIs
<1>3. Given' /\ Fitting' = Fitting
  BY SameSpans DEF Well, Given, input
<1>4. s.first \in Nat \ {0} /\ s.last \in Nat /\ s.first <= s.last
  BY DEF Spans
<1>5. CASE Length(text) > MaxChunkChars
  <2>1. text # <<>>
    BY <1>1, <1>5, EmptyLength
  <2>2. pc' = "windows" /\ cut' = <<>> /\ Gathered'
    BY <1>1, <1>2, <1>4, <1>5, <2>1, WindowsGather
  <2>3. QED
    BY <1>1, <1>3, <1>5, <2>2 DEF Well
<1>6. CASE ~ (Length(text) > MaxChunkChars)
  <2>1. Gathered' /\ cut' \in Seq(Fitting') /\ pc' = "sections"
    <3>1. pc' = "sections" /\ UNCHANGED <<part, start, line, buffer, cut>>
      BY <1>6
    <3>2. QED
      BY <3>1, QuietKeeps
  <2>2. chunks' \in Seq(Fitting)
    <3>1. CASE chunks' = chunks
      BY <1>1, <3>1
    <3>2. CASE chunks' = Whole(text, s, index) /\ text # <<>>
      <4> DEFINE c == [text |-> text, first |-> s.first, last |-> s.last, index |-> index]
      <4>1. c \in [text : Texts \ {<<>>}, first : Nat, last : Nat, index : Nat]
        BY <1>2, <1>4, <3>2
      <4>2. Length(c.text) <= MaxChunkChars
        BY <1>1, <1>2, <1>6
      <4>3. c \in Fitting
        BY <1>4, <4>1, <4>2 DEF Fitting
      <4>4. chunks' = Append(chunks, c)
        BY <3>2 DEF Whole
      <4> HIDE DEF c
      <4>5. QED
        BY <1>1, <4>3, <4>4, AppendProperties
    <3>3. QED
      BY <1>6, <3>1, <3>2
  <2>3. QED
    BY <1>3, <2>1, <2>2 DEF Well
<1>7. QED
  BY <1>5, <1>6

LEMMA NextSectionKeeps ==
  ASSUME Well, NextSection
  PROVE  Well'
<1> DEFINE s == First(sections)
           text == Trim(LinesOf(s))
<1>1. /\ pc = "sections" /\ mode # "tree-sitter" /\ sections # {}
      /\ sections' = sections \ {s}
      /\ IF Length(text) > MaxChunkChars
         THEN Windows(text, s.first) /\ UNCHANGED chunks
         ELSE /\ chunks' = IF text = <<>> THEN chunks ELSE Whole(text, s, Len(chunks))
              /\ UNCHANGED pc /\ Quiet
      /\ UNCHANGED <<input, mode>>
  BY DEF NextSection
<1>2. s \in Spans /\ Len(chunks) \in Nat
  BY <1>1, FirstIs DEF Well, Given
<1> HIDE DEF s, text
<1>3. IF Length(text) > MaxChunkChars
      THEN Windows(text, s.first) /\ UNCHANGED chunks
      ELSE /\ chunks' \in {chunks, Whole(text, s, Len(chunks))}
           /\ text = <<>> => chunks' = chunks
           /\ pc' = "sections" /\ UNCHANGED <<part, start, line, buffer, cut>>
  BY <1>1 DEF Quiet
<1>4. sections' \subseteq sections /\ text = Trim(LinesOf(s))
  BY <1>1 DEF text
<1>5. QED
  BY <1>1, <1>2, <1>3, <1>4, CutKeeps

LEMMA NextNodeKeeps ==
  ASSUME Well, NextNode
  PROVE  Well'
<1> DEFINE n == First(sections)
           text == Trim(LinesOf(n))
<1>1. /\ pc = "sections" /\ mode = "tree-sitter" /\ sections # {}
      /\ sections' = sections \ {n}
      /\ IF Length(text) > MaxChunkChars
         THEN Windows(text, n.first) /\ UNCHANGED chunks
         ELSE chunks' = Whole(text, n, 0) /\ UNCHANGED pc /\ Quiet
      /\ UNCHANGED <<input, mode>>
  BY DEF NextNode
<1>2. n \in sections /\ n \in Spans /\ ~ Blank(Line(n.first))
  BY <1>1, FirstIs DEF Well, Given
<1>3. text # <<>>
  <2>1. file \in Seq(LineKinds)
    BY DEF Well, Given
  <2>2. 1 \in 1 .. n.last - n.first + 1
    BY <1>2 DEF Spans
  <2> HIDE DEF n
  <2>3. /\ LinesOf(n) \in Texts /\ 1 \in 1 .. Len(LinesOf(n))
        /\ LinesOf(n)[1] = Line(n.first + 1 - 1)
    BY <1>2, <2>1, <2>2, LinesAre
  <2>4. n.first + 1 - 1 = n.first
    BY <1>2 DEF Spans
  <2>5. QED
    BY <1>2, <2>3, <2>4, TrimIs
<1> HIDE DEF n, text
<1>4. IF Length(text) > MaxChunkChars
      THEN Windows(text, n.first) /\ UNCHANGED chunks
      ELSE /\ chunks' \in {chunks, Whole(text, n, 0)}
           /\ text = <<>> => chunks' = chunks
           /\ pc' = "sections" /\ UNCHANGED <<part, start, line, buffer, cut>>
  BY <1>1, <1>3 DEF Quiet
<1>5. sections' \subseteq sections /\ text = Trim(LinesOf(n)) /\ 0 \in Nat
  BY <1>1 DEF text
<1>6. QED
  BY <1>1, <1>2, <1>4, <1>5, CutKeeps

LEMMA FinishKeeps ==
  ASSUME Well, Finish
  PROVE  Well'
<1>1. /\ pc = "sections" /\ sections = {} /\ UNCHANGED <<input, sections>>
      /\ UNCHANGED <<part, start, line, buffer, cut>>
      /\ \/ pc' = "split" /\ mode' = "line-window" /\ chunks' = chunks
         \/ pc' = "done" /\ chunks' = Reindexed(chunks) /\ mode' = mode
  BY DEF Finish, Quiet
<1>2. Given' /\ Fitting' = Fitting
  BY <1>1, SameSpans DEF Well, Given, input
<1>3. Gathered' /\ cut' \in Seq(Fitting')
  <2>1. pc' # "windows"
    BY <1>1
  <2>2. QED
    BY <1>1, <2>1, QuietKeeps
<1>4. Reindexed(chunks) \in Seq(Fitting)
  <2>1. chunks \in Seq(Fitting) /\ Len(chunks) \in Nat /\ DOMAIN chunks = 1 .. Len(chunks)
    BY DEF Well
  <2>2. ASSUME NEW i \in 1 .. Len(chunks)
        PROVE  [chunks[i] EXCEPT !.index = i - 1] \in Fitting
    <3>1. chunks[i] \in Fitting /\ i - 1 \in Nat
      BY <2>1, ElementOfSeq
    <3> DEFINE c == chunks[i]
    <3> HIDE DEF c
    <3>2. c \in Fitting
      BY <3>1 DEF c
    <3>3. /\ [c EXCEPT !.index = i - 1] \in [text : Texts \ {<<>>}, first : Nat, last : Nat, index : Nat]
          /\ [c EXCEPT !.index = i - 1].text = c.text
          /\ [c EXCEPT !.index = i - 1].first = c.first /\ [c EXCEPT !.index = i - 1].last = c.last
      BY <3>1, <3>2 DEF Fitting
    <3>4. [c EXCEPT !.index = i - 1] \in Fitting
      BY <3>2, <3>3 DEF Fitting
    <3>5. QED
      BY <3>4 DEF c
  <2>3. Reindexed(chunks) \in [1 .. Len(chunks) -> Fitting]
    BY <2>1, <2>2 DEF Reindexed
  <2>4. QED
    BY <2>1, <2>3, SeqDef
<1>5. chunks' \in Seq(Fitting)
  BY <1>1, <1>4 DEF Well
<1>6. QED
  BY <1>1, <1>2, <1>3, <1>5 DEF Well

LEMMA InitWell == Init => Well
<1> SUFFICES ASSUME Init PROVE Well
  OBVIOUS
<1>1. /\ mode \in Modes /\ options \in Options /\ pc = "split" /\ sections = {}
      /\ part = [lines |-> <<>>, base |-> 1] /\ start = 0 /\ line = 0
      /\ buffer = [lines |-> <<>>, first |-> 1] /\ cut = <<>> /\ chunks = <<>>
  BY DEF Init
<1>2. file \in Seq(LineKinds) /\ file # <<>>
  <2>1. PICK n \in 1 .. MaxLines : file \in [1 .. n -> LineKinds]
    BY DEF Init
  <2>2. n \in Nat /\ 1 \in 1 .. n
    BY <2>1
  <2>3. file \in Seq(LineKinds)
    BY <2>1, <2>2, SeqDef
  <2>4. DOMAIN file = 1 .. n
    BY <2>1
  <2>5. QED
    BY <2>2, <2>3, <2>4
<1>3. nodes \subseteq {s \in Spans : ~ Blank(Line(s.first))}
  <2>1. CASE mode # "tree-sitter"
    BY <2>1 DEF Init
  <2>2. CASE mode = "tree-sitter"
    <3>1. nodes \in NodeSets /\ \A n \in nodes : n.last <= Len(file) /\ ~ Blank(Line(n.first))
      BY <2>2 DEF Init
    <3>2. nodes \subseteq Spans
      BY <1>2, <3>1, NodesAre
    <3>3. QED
      BY <3>1, <3>2
  <2>3. QED
    BY <2>1, <2>2
<1>4. Given
  BY <1>1, <1>2, <1>3 DEF Given
<1>5. <<>> \in Texts /\ cut \in Seq(Fitting) /\ chunks \in Seq(Fitting)
  BY <1>1 DEF Texts
<1>6. Gathered
  BY <1>1, <1>5 DEF Gathered
<1>7. QED
  BY <1>1, <1>4, <1>5, <1>6 DEF Well

LEMMA NextWell == Well /\ [Next]_vars => Well'
<1> SUFFICES ASSUME Well, [Next]_vars PROVE Well'
  OBVIOUS
<1>1. CASE Split
  BY <1>1, SplitKeeps
<1>2. CASE NextSection
  BY <1>2, NextSectionKeeps
<1>3. CASE NextNode
  BY <1>3, NextNodeKeeps
<1>4. CASE NextLine
  BY <1>4, NextLineKeeps
<1>5. CASE EndWindow
  BY <1>5, EndWindowKeeps
<1>6. CASE Finish
  BY <1>6, FinishKeeps
<1>7. CASE UNCHANGED vars
  <2>1. UNCHANGED <<input, mode, pc, sections, part, start, line, buffer, cut, chunks>>
    BY <1>7 DEF vars, input
  <2>2. Given' /\ Fitting' = Fitting /\ MaxChunkChars' = MaxChunkChars /\ WindowEnd' = WindowEnd
    BY <2>1, SameSpans DEF Well, Given, input, WindowEnd
  <2>3. Gathered'
    BY <2>1, <2>2 DEF Well, Gathered
  <2>4. QED
    BY <2>1, <2>2, <2>3 DEF Well
<1>8. QED
  BY <1>1, <1>2, <1>3, <1>4, <1>5, <1>6, <1>7 DEF Next

LEMMA WellHolds == Spec => []Well
  BY InitWell, NextWell, PTL DEF Spec

LEMMA WellTyped == Well => TypeOK
<1> SUFFICES ASSUME Well PROVE TypeOK
  OBVIOUS
<1>1. \A i \in DOMAIN chunks : chunks[i] \in Fitting
  BY DEF Well
<1>2. \A i \in DOMAIN chunks : chunks[i].text # <<>> /\ chunks[i].first <= chunks[i].last
  BY <1>1 DEF Fitting
<1>3. QED
  BY <1>2 DEF Well, Given, Gathered, TypeOK

LEMMA WellFits == Well => ChunksFit
<1> SUFFICES ASSUME Well, NEW c \in ToSet(cut) \cup ToSet(chunks)
             PROVE  Length(c.text) <= MaxChunkChars
  BY DEF ChunksFit
<1>1. ToSet(cut) \subseteq Fitting /\ ToSet(chunks) \subseteq Fitting
  BY DEF Well, ToSet
<1>2. QED
  BY <1>1 DEF Fitting

\* The variables keep their types: a window begins inside its lines and a chunk has
\* text and does not end before it begins (chunkFileWithLineWindows, pushChunk).
THEOREM TypeCorrect == Spec => []TypeOK
  BY WellHolds, WellTyped, PTL

\* No chunk is longer than maxChunkChars, whatever the lines, the sections and the
\* options are (pushBoundedLineChunks, chunksFromTextSections, chunkSemanticNode).
THEOREM EveryChunkFits == Spec => []ChunksFit
  BY WellHolds, WellFits, PTL

-----------------------------------------------------------------------------
(* The lines that chunks name.                                             *)

\* The numbers of the lines from which the ink of a line, and of lines, comes.
Source(l) == {l[c].at[1] : c \in Ink(l)}
Sources(ls) == UNION {Source(ls[i]) : i \in DOMAIN ls}

\* The lines between two that are not blank.
Inked(a, b) == {n \in a .. b : n \in Lines /\ ~ Blank(Line(n))}

LEMMA NamedIs ==
  ASSUME NEW c, c.text \in Texts
  PROVE  OnItsLines(c) <=> Sources(c.text) = Inked(c.first, c.last)
<1> DEFINE t == c.text
<1>1. DOMAIN t = 1 .. Len(t) /\ \A i \in 1 .. Len(t) : t[i] \in Seq(Chars)
  BY DEF Texts
<1> HIDE DEF t
<1>2. {x.at[1] : x \in {y \in Characters(t) : y.ink}} = Sources(t)
  <2>1. ASSUME NEW i \in DOMAIN t
        PROVE  {x.at[1] : x \in {y \in ToSet(t[i]) : y.ink}} = Source(t[i])
    BY DEF ToSet, Source, Ink
  <2>2. {x.at[1] : x \in {y \in Characters(t) : y.ink}} \subseteq Sources(t)
    <3>1. SUFFICES ASSUME NEW y \in Characters(t), y.ink PROVE y.at[1] \in Sources(t)
      OBVIOUS
    <3>2. PICK i \in DOMAIN t : y \in ToSet(t[i])
      BY DEF Characters
    <3>3. y.at[1] \in Source(t[i])
      BY <2>1, <3>1, <3>2
    <3>4. QED
      BY <3>3 DEF Sources
  <2>3. Sources(t) \subseteq {x.at[1] : x \in {y \in Characters(t) : y.ink}}
    <3>1. SUFFICES ASSUME NEW i \in DOMAIN t, NEW n \in Source(t[i])
                   PROVE  n \in {x.at[1] : x \in {y \in Characters(t) : y.ink}}
      BY DEF Sources
    <3>2. PICK y \in ToSet(t[i]) : y.ink /\ n = y.at[1]
      BY <2>1
    <3>3. y \in Characters(t)
      BY DEF Characters
    <3>4. QED
      BY <3>2, <3>3
  <2>4. QED
    BY <2>2, <2>3
<1>3. QED
  BY <1>2 DEF OnItsLines, Inked, t

LEMMA BlankSource ==
  ASSUME NEW l
  PROVE  Blank(l) <=> Source(l) = {}
BY DEF Blank, Source

\* The ink of a line of the file comes from there.
LEMMA LineSource ==
  ASSUME file \in Seq(LineKinds), NEW n \in Lines
  PROVE  Source(Line(n)) = Inked(n, n)
<1>1. n \in 1 .. Len(file) /\ n \in Nat
  BY DEF Lines
<1>2. \A c \in Ink(Line(n)) : Line(n)[c].at[1] = n
  <2>1. \A c \in DOMAIN Line(n) : Line(n)[c].at = <<n, c>>
    BY DEF Line
  <2>2. QED
    BY <2>1 DEF Ink
<1>3. n .. n = {n}
  BY <1>1
<1>4. CASE Blank(Line(n))
  BY <1>3, <1>4, BlankSource DEF Inked
<1>5. CASE ~ Blank(Line(n))
  <2>1. Source(Line(n)) # {} /\ Source(Line(n)) \subseteq {n}
    BY <1>2, <1>5, BlankSource DEF Source
  <2>2. QED
    BY <1>3, <1>5, <2>1 DEF Inked
<1>6. QED
  BY <1>4, <1>5

\* A part of a line that leaves out no ink.
LEMMA PartSource ==
  ASSUME NEW l \in Seq(Chars), NEW a \in Nat \ {0}, NEW b \in 0 .. Len(l)
  PROVE  /\ Source(SubSeq(l, a, b)) \subseteq Source(l)
         /\ Ink(l) \subseteq a .. b => Source(SubSeq(l, a, b)) = Source(l)
<1> DEFINE p == SubSeq(l, a, b)
<1>1. Len(l) \in Nat /\ DOMAIN l = 1 .. Len(l) /\ \A i \in 1 .. Len(l) : l[i] \in Chars
  OBVIOUS
<1>2. /\ p \in Seq(Chars) /\ Len(p) = IF a <= b THEN b - a + 1 ELSE 0
      /\ \A i \in 1 .. b - a + 1 : p[i] = l[a + i - 1]
  <2>1. a \in Int /\ b \in Int /\ \A i \in a .. b : l[i] \in Chars
    BY <1>1
  <2>2. QED
    BY <2>1, SubSeqProperties
<1> HIDE DEF p
<1>3. DOMAIN p = 1 .. Len(p)
  BY <1>2
<1>4. ASSUME NEW i \in DOMAIN p
      PROVE  a + i - 1 \in 1 .. Len(l) /\ a + i - 1 \in a .. b /\ p[i] = l[a + i - 1]
  BY <1>1, <1>2, <1>3
<1>5. ASSUME NEW c \in a .. b
      PROVE  c - a + 1 \in DOMAIN p /\ p[c - a + 1] = l[c]
  <2>1. c - a + 1 \in 1 .. b - a + 1 /\ a + (c - a + 1) - 1 = c /\ a <= b
    OBVIOUS
  <2>2. QED
    BY <1>2, <1>3, <2>1
<1>6. Source(p) \subseteq Source(l)
  <2>1. SUFFICES ASSUME NEW i \in Ink(p) PROVE p[i].at[1] \in Source(l)
    BY DEF Source
  <2>2. i \in DOMAIN p /\ p[i].ink
    BY DEF Ink
  <2>3. a + i - 1 \in Ink(l) /\ p[i] = l[a + i - 1]
    BY <1>1, <1>4, <2>2 DEF Ink
  <2>4. QED
    BY <2>3 DEF Source
<1>7. ASSUME Ink(l) \subseteq a .. b PROVE Source(l) \subseteq Source(p)
  <2>1. SUFFICES ASSUME NEW c \in Ink(l) PROVE l[c].at[1] \in Source(p)
    BY DEF Source
  <2>2. c \in a .. b /\ l[c].ink
    BY <1>7 DEF Ink
  <2>3. c - a + 1 \in Ink(p) /\ p[c - a + 1] = l[c]
    BY <1>5, <2>2 DEF Ink
  <2>4. QED
    BY <2>3 DEF Source
<1>8. QED
  BY <1>6, <1>7 DEF p

\* Trimming drops no ink, and no line when the first is not blank.
LEMMA TrimSources ==
  ASSUME NEW ls \in Texts
  PROVE  /\ Sources(Trim(ls)) = Sources(ls)
         /\ ls # <<>> /\ ~ Blank(ls[1]) =>
              /\ Len(Trim(ls)) <= Len(ls)
              /\ \A i \in 1 .. Len(Trim(ls)) : Source(Trim(ls)[i]) = Source(ls[i])
<1>1. /\ Len(ls) \in Nat /\ DOMAIN ls = 1 .. Len(ls)
      /\ \A i \in 1 .. Len(ls) : ls[i] \in Seq(Chars) /\ Len(ls[i]) \in Nat
  BY DEF Texts
<1>2. CASE \A i \in 1 .. Len(ls) : Blank(ls[i])
  <2>1. Trim(ls) = <<>>
    BY <1>2, TrimBlank
  <2>2. \A i \in DOMAIN ls : Source(ls[i]) = {}
    BY <1>1, <1>2, BlankSource
  <2>3. Sources(ls) = {} /\ Sources(<<>>) = {}
    BY <2>2 DEF Sources
  <2>4. ls # <<>> => Blank(ls[1])
    BY <1>1, <1>2
  <2>5. QED
    BY <2>1, <2>3, <2>4
<1>3. CASE \E i \in 1 .. Len(ls) : ~ Blank(ls[i])
  <2>1. PICK lo, hi \in 1 .. Len(ls), from, upto \in [1 .. Len(ls) -> Nat] :
           Trimmed(ls, lo, hi, from, upto)
    BY <1>3, TrimShape
  <2> DEFINE t == Trim(ls)
  <2>2. lo \in Nat /\ hi \in Nat /\ lo <= hi /\ hi - lo + 1 \in Nat /\ hi <= Len(ls)
    BY <1>1, <2>1 DEF Trimmed
  <2>3. t = [i \in 1 .. hi - lo + 1 |->
               SubSeq(ls[lo + i - 1], from[lo + i - 1], upto[lo + i - 1])]
    BY <2>1 DEF Trimmed
  <2>4. t \in Texts
    BY TrimIs
  <2> HIDE DEF t
  <2>5. DOMAIN t = 1 .. hi - lo + 1 /\ Len(t) = hi - lo + 1
    BY <2>2, <2>3, <2>4 DEF Texts
  <2>6. ASSUME NEW i \in 1 .. Len(ls)
        PROVE  Source(SubSeq(ls[i], from[i], upto[i])) = Source(ls[i])
    <3> DEFINE a == from[i]  b == upto[i]  l == ls[i]
    <3>1. a \in Nat \ {0} /\ b \in 0 .. Len(l) /\ l \in Seq(Chars) /\ Ink(l) \subseteq a .. b
      <4>1. ls[i] \in Seq(Chars) /\ Len(ls[i]) \in Nat
        BY <1>1
      <4>2. from[i] \in Nat /\ from[i] # 0 /\ upto[i] \in Nat /\ upto[i] <= Len(ls[i])
            /\ Ink(ls[i]) \subseteq from[i] .. upto[i]
        BY <2>1 DEF Trimmed
      <4>3. QED
        BY <4>1, <4>2
    <3> HIDE DEF a, b, l
    <3>2. Source(SubSeq(l, a, b)) = Source(l)
      BY <3>1, PartSource
    <3>3. QED
      BY <3>2 DEF a, b, l
  <2>7. ASSUME NEW i \in 1 .. hi - lo + 1
        PROVE  lo + i - 1 \in 1 .. Len(ls) /\ Source(t[i]) = Source(ls[lo + i - 1])
    <3>1. lo + i - 1 \in 1 .. Len(ls)
      BY <1>1, <2>1, <2>2
    <3>2. QED
      BY <2>3, <2>6, <3>1
  <2>8. Sources(t) \subseteq Sources(ls)
    BY <1>1, <2>5, <2>7 DEF Sources
  <2>9. Sources(ls) \subseteq Sources(t)
    <3>1. SUFFICES ASSUME NEW i \in 1 .. Len(ls), Source(ls[i]) # {}
                   PROVE  Source(ls[i]) \subseteq Sources(t)
      BY <1>1 DEF Sources
    <3>2. lo <= i /\ i <= hi
      BY <2>1, <3>1, BlankSource DEF Trimmed
    <3>3. i - lo + 1 \in 1 .. hi - lo + 1 /\ lo + (i - lo + 1) - 1 = i
      BY <2>2, <3>2
    <3>4. Source(t[i - lo + 1]) = Source(ls[i])
      BY <2>7, <3>3
    <3>5. QED
      BY <2>5, <3>3, <3>4 DEF Sources
  <2>10. ASSUME ~ Blank(ls[1])
         PROVE  Len(t) <= Len(ls) /\ \A i \in 1 .. Len(t) : Source(t[i]) = Source(ls[i])
    <3>1. 1 \in 1 .. Len(ls)
      BY <1>1, <2>2
    <3>2. lo = 1
      BY <2>1, <2>2, <2>10, <3>1 DEF Trimmed
    <3>3. \A i \in 1 .. hi - lo + 1 : lo + i - 1 = i
      BY <2>2, <3>2
    <3>4. Len(t) <= Len(ls)
      BY <1>1, <2>2, <2>5, <3>2
    <3>5. QED
      BY <2>5, <2>7, <3>3, <3>4
  <2>11. QED
    BY <2>8, <2>9, <2>10 DEF t
<1>4. QED
  BY <1>2, <1>3

OnLines == {c \in Fitting : OnItsLines(c)}

\* The lines come from the file, the first of them from line base.
FromFile(ls, base) ==
  \A i \in 1 .. Len(ls) : /\ base + i - 1 \in Lines
                          /\ Source(ls[i]) = Inked(base + i - 1, base + i - 1)

Named ==
  /\ \A s \in sections : ~ Blank(Line(s.first))
  /\ pc = "windows" => FromFile(part.lines, part.base)
  /\ buffer.lines # <<>> =>
       Sources(buffer.lines) = Inked(buffer.first, part.base + start + line - 1)
  /\ cut \in Seq(OnLines) /\ chunks \in Seq(OnLines)

\* A Markdown file does not begin with a blank line.
Prefaced == mode = "markdown" => ~ Blank(Line(1))

LEMMA SameNames ==
  ASSUME UNCHANGED input
  PROVE  /\ OnLines' = OnLines /\ Lines' = Lines
         /\ \A a, b : Inked(a, b)' = Inked(a, b)
         /\ \A ls, base : FromFile(ls, base)' = FromFile(ls, base)
BY DEF input, OnLines, OnItsLines, Fitting, MaxChunkChars, Lines, Inked, Line, FromFile

LEMMA SamePart ==
  ASSUME UNCHANGED <<input, part>>
  PROVE  FromFile(part.lines, part.base)' = FromFile(part.lines, part.base)
BY DEF input, FromFile, Lines, Inked, Line

LEMMA PushedNamed ==
  ASSUME options \in Options, NEW cs \in Seq(OnLines), NEW ls \in Texts,
         NEW first \in Nat, NEW last \in Nat, first <= last,
         Length(Trim(ls)) <= MaxChunkChars,
         Trim(ls) # <<>> => Sources(ls) = Inked(first, last)
  PROVE  Pushed(cs, ls, first, last) \in Seq(OnLines)
<1> DEFINE text == Trim(ls)
           c == [text |-> text, first |-> first, last |-> last, index |-> Len(cs)]
<1>1. text \in Texts
  BY TrimIs
<1>2. Pushed(cs, ls, first, last) = IF text = <<>> THEN cs ELSE Append(cs, c)
  BY DEF Pushed
<1>3. ASSUME text # <<>> PROVE c \in OnLines
  <2>1. Len(cs) \in Nat
    OBVIOUS
  <2>2. Length(text) <= MaxChunkChars
    OBVIOUS
  <2>3. Sources(text) = Inked(first, last)
    BY <1>3, TrimSources
  <2> HIDE DEF text
  <2>4. c \in [text : Texts \ {<<>>}, first : Nat, last : Nat, index : Nat]
    BY <1>1, <1>3, <2>1
  <2>5. c.text = text /\ c.first = first /\ c.last = last
    OBVIOUS
  <2> HIDE DEF c
  <2>6. OnItsLines(c)
    BY <1>1, <2>3, <2>5, NamedIs
  <2>7. QED
    BY <2>2, <2>4, <2>5, <2>6 DEF Fitting, OnLines
<1> HIDE DEF c, text
<1>4. QED
  BY <1>2, <1>3, AppendProperties

\* What is cut from a line of the file comes from it.
LEMMA PieceNamed ==
  ASSUME options \in Options, file \in Seq(LineKinds),
         NEW l \in Seq(Chars), NEW n \in Lines, Source(l) = Inked(n, n),
         NEW i \in Nat \ {0}, NEW cs \in Seq(OnLines)
  PROVE  Pushed(cs, <<Piece(l, i)>>, n, n) \in Seq(OnLines)
<1> DEFINE p == Piece(l, i)
           a == (i - 1) * MaxChunkChars + 1
           b == Smaller(i * MaxChunkChars, Len(l))
<1>1. a \in Nat \ {0} /\ b \in 0 .. Len(l)
  <2>1. MaxChunkChars \in Nat /\ i - 1 \in Nat /\ i \in Nat /\ Len(l) \in Nat
    BY OptionsAre
  <2>2. \A x, y \in Nat : x * y \in Nat
    OBVIOUS
  <2>3. (i - 1) * MaxChunkChars \in Nat /\ i * MaxChunkChars \in Nat
    BY <2>1, <2>2
  <2>4. QED
    BY <2>1, <2>3 DEF Smaller
<1>2. p = SubSeq(l, a, b)
  BY DEF Piece
<1> HIDE DEF a, b
<1>3. Source(p) \subseteq Source(l)
  BY <1>1, <1>2, PartSource
<1>4. <<p>> \in Texts /\ Length(Trim(<<p>>)) <= MaxChunkChars
  BY PieceIs
<1>5. n \in Nat /\ n <= n /\ n .. n = {n}
  BY DEF Lines
<1> HIDE DEF p
<1>6. Sources(<<p>>) = Source(p)
  <2>1. DOMAIN <<p>> = {1} /\ <<p>>[1] = p
    OBVIOUS
  <2>2. QED
    BY <2>1 DEF Sources
<1>7. ASSUME Trim(<<p>>) # <<>> PROVE Sources(<<p>>) = Inked(n, n)
  <2>1. ~ Blank(p)
    <3>1. Len(<<p>>) = 1 /\ <<p>>[1] = p
      OBVIOUS
    <3>2. \A j \in 1 .. Len(<<p>>) : <<p>>[j] = p
      BY <3>1
    <3>3. QED
      BY <1>4, <1>7, <3>2, TrimBlank
  <2>2. Source(p) # {}
    BY <2>1, BlankSource
  <2>3. Inked(n, n) \subseteq {n}
    BY <1>5 DEF Inked
  <2>4. Source(p) \subseteq Inked(n, n)
    BY <1>3
  <2>5. n \in Source(p)
    BY <2>2, <2>3, <2>4
  <2>6. QED
    BY <1>6, <2>3, <2>4, <2>5
<1>8. Pushed(cs, <<p>>, n, n) \in Seq(OnLines)
  BY <1>4, <1>5, <1>7, PushedNamed
<1>9. QED
  BY <1>8 DEF p

LEMMA AppendSources ==
  ASSUME NEW ls \in Texts, NEW l \in Seq(Chars)
  PROVE  Sources(Append(ls, l)) = Sources(ls) \cup Source(l)
<1> DEFINE t == Append(ls, l)
           n == Len(ls)
<1>1. /\ n \in Nat /\ DOMAIN ls = 1 .. n /\ DOMAIN t = 1 .. n + 1
      /\ t[n + 1] = l /\ \A i \in 1 .. n : t[i] = ls[i]
  BY DEF Texts
<1> HIDE DEF t, n
<1>2. DOMAIN t = (DOMAIN ls) \cup {n + 1}
  BY <1>1
<1>3. Sources(t) = Sources(ls) \cup Source(l)
  BY <1>1, <1>2 DEF Sources
<1>4. QED
  BY <1>3 DEF t

LEMMA InkedJoins ==
  ASSUME NEW a \in Nat, NEW n \in Nat, a < n
  PROVE  Inked(a, n - 1) \cup Inked(n, n) = Inked(a, n)
<1>1. (a .. n - 1) \cup (n .. n) = a .. n
  OBVIOUS
<1>2. QED
  BY <1>1 DEF Inked

LEMMA NextLineNames ==
  ASSUME Well, Named, NextLine
  PROVE  Named'
<1> DEFINE l == part.lines[start + line + 1]
           number == part.base + start + line
           full == ~ Fits(Append(buffer.lines, l)) /\ buffer.lines # <<>>
           gathered == IF full THEN <<>> ELSE buffer.lines
<1>1. /\ pc = "windows" /\ start + line < WindowEnd
      /\ IF Len(l) > MaxChunkChars
         THEN /\ cut' = Pieces(BeforeLong(number - 1), l, number)
              /\ buffer' = [lines |-> <<>>, first |-> number + 1]
         ELSE /\ cut' = IF full THEN Flushed(number - 1) ELSE cut
              /\ buffer' = [lines |-> Append(gathered, l),
                            first |-> FirstLine(gathered, number)]
      /\ line' = line + 1
      /\ UNCHANGED <<input, mode, pc, sections, part, start, chunks>>
  BY DEF NextLine
<1>2. /\ part.lines \in Texts /\ part.base \in Nat \ {0} /\ start \in Nat /\ line \in Nat
      /\ buffer.lines \in Texts /\ buffer.first \in Nat /\ options \in Options
      /\ cut \in Seq(OnLines) /\ chunks \in Seq(OnLines)
  BY DEF Well, Given, Gathered, Named
<1>3. start + line + 1 \in 1 .. Len(part.lines)
  BY <1>1, LineAhead
<1>4. l \in Seq(Chars)
  BY <1>2, <1>3, ElementOfSeq DEF Texts
<1>5. number \in Nat \ {0} /\ number - 1 \in Nat
  BY <1>2
<1>6. number \in Lines /\ Source(l) = Inked(number, number)
  <2>1. FromFile(part.lines, part.base)
    BY <1>1 DEF Named
  <2>2. part.base + (start + line + 1) - 1 = number
    BY <1>2
  <2> HIDE DEF number
  <2>3. QED
    BY <1>3, <2>1, <2>2 DEF FromFile
<1> HIDE DEF l
<1>7. ASSUME buffer.lines # <<>>
      PROVE  /\ Flushed(number - 1) \in Seq(OnLines) /\ buffer.first < number
             /\ Sources(buffer.lines) = Inked(buffer.first, number - 1)
  <2>1. buffer.first < number /\ Length(Trim(buffer.lines)) <= MaxChunkChars
    BY <1>2, <1>5, <1>7 DEF Well, Gathered
  <2>2. Sources(buffer.lines) = Inked(buffer.first, number - 1)
    <3>1. Sources(buffer.lines) = Inked(buffer.first, part.base + start + line - 1)
      BY <1>7 DEF Named
    <3>2. part.base + start + line - 1 = number - 1
      <4>1. \A b, s, i \in Nat : b + s + (i - 1) = (b + s + i) - 1
        OBVIOUS
      <4>2. part.base \in Nat /\ start \in Nat /\ line \in Nat
        BY <1>2
      <4>3. QED
        BY <4>1, <4>2
    <3>3. QED
      BY <3>1, <3>2
  <2>3. buffer.first <= number - 1
    BY <1>2, <1>5, <2>1
  <2> HIDE DEF number
  <2>4. QED
    BY <1>2, <1>5, <2>1, <2>2, <2>3, PushedNamed DEF Flushed
<1>8. /\ part' = part /\ start' = start /\ line' = line + 1 /\ sections' = sections
      /\ chunks' = chunks /\ pc' = pc /\ UNCHANGED input
  BY <1>1
<1>9. part'.base + start' + line' - 1 = number
  <2>1. part.base + start + (line + 1) - 1 = part.base + start + line
    BY <1>2
  <2>2. QED
    BY <1>8, <2>1
<1>10. /\ cut' \in Seq(OnLines)
       /\ buffer'.lines # <<>> => Sources(buffer'.lines) = Inked(buffer'.first, number)
  <2>1. CASE Len(l) > MaxChunkChars
    <3>1. BeforeLong(number - 1) \in Seq(OnLines)
      BY <1>2, <1>7 DEF BeforeLong
    <3>2. \A i \in Nat \ {0}, cs \in Seq(OnLines) :
            Pushed(cs, <<Piece(l, i)>>, number, number) \in Seq(OnLines)
      BY <1>2, <1>4, <1>6, PieceNamed DEF Well, Given
    <3>3. Pieces(BeforeLong(number - 1), l, number) \in Seq(OnLines)
      <4>1. number \in Nat
        BY <1>5
      <4> HIDE DEF number
      <4>2. QED
        BY <1>2, <1>4, <3>1, <3>2, <4>1, PiecesStay
    <3>4. QED
      BY <1>1, <2>1, <3>3
  <2>2. CASE ~ (Len(l) > MaxChunkChars)
    <3>1. /\ cut' = IF full THEN Flushed(number - 1) ELSE cut
          /\ buffer' = [lines |-> Append(gathered, l), first |-> FirstLine(gathered, number)]
      BY <1>1, <2>2
    <3>2. cut' \in Seq(OnLines)
      BY <1>2, <1>7, <3>1
    <3>3. gathered \in Texts
      BY <1>2 DEF Texts
    <3>4. Sources(Append(gathered, l)) = Sources(gathered) \cup Inked(number, number)
      BY <1>4, <1>6, <3>3, AppendSources
    <3>5. Sources(Append(gathered, l)) = Inked(FirstLine(gathered, number), number)
      <4>1. CASE gathered = <<>>
        <5>1. Sources(<<>>) = {} /\ FirstLine(gathered, number) = number
          BY <4>1 DEF Sources, FirstLine
        <5> HIDE DEF gathered, number
        <5>2. QED
          BY <3>4, <4>1, <5>1
      <4>2. CASE gathered # <<>>
        <5>1. /\ buffer.lines # <<>> /\ gathered = buffer.lines
              /\ FirstLine(gathered, number) = buffer.first
          BY <4>2 DEF FirstLine
        <5>2. Inked(buffer.first, number - 1) \cup Inked(number, number)
                = Inked(buffer.first, number)
          <6>1. number \in Nat /\ buffer.first < number
            BY <1>5, <1>7, <5>1
          <6> HIDE DEF number
          <6>2. QED
            BY <1>2, <6>1, InkedJoins
        <5>3. Sources(gathered) = Inked(buffer.first, number - 1)
          BY <1>7, <5>1
        <5> HIDE DEF gathered, number
        <5>4. QED
          BY <3>4, <5>1, <5>2, <5>3
      <4>3. QED
        BY <4>1, <4>2
    <3> HIDE DEF number, gathered, full
    <3>6. QED
      BY <3>1, <3>2, <3>5
  <2>3. QED
    BY <2>1, <2>2
<1> HIDE DEF number
<1>11. OnLines' = OnLines /\ \A a, b : Inked(a, b)' = Inked(a, b)
  BY <1>8, SameNames
<1>12. FromFile(part.lines, part.base)'
  <2>1. FromFile(part.lines, part.base) /\ FromFile(part.lines, part.base)' = FromFile(part.lines, part.base)
    BY <1>1, <1>8, SamePart DEF Named
  <2>2. QED
    BY <2>1
<1>13. \A s \in sections' : ~ Blank(Line(s.first))'
  BY <1>8, SameSpans DEF Named
<1>14. buffer'.lines # <<>> =>
         Sources(buffer.lines)' = Inked(buffer.first, part.base + start + line - 1)'
  BY <1>8, <1>9, <1>10 DEF Inked, Lines, Line, input
<1>15. QED
  BY <1>2, <1>8, <1>10, <1>11, <1>12, <1>13, <1>14 DEF Named

LEMMA EndWindowNames ==
  ASSUME Well, Named, EndWindow
  PROVE  Named'
<1>1. /\ pc = "windows" /\ start + line = WindowEnd
      /\ cut' = IF buffer.lines = <<>> THEN cut ELSE Flushed(part.base + WindowEnd - 1)
      /\ buffer' = [buffer EXCEPT !.lines = <<>>] /\ line' = 0
      /\ IF WindowEnd >= Len(part.lines)
         THEN pc' = "sections" /\ chunks' = chunks \o cut' /\ UNCHANGED start
         ELSE start' = start + WindowStep /\ UNCHANGED <<pc, chunks>>
      /\ UNCHANGED <<input, mode, sections, part>>
  BY DEF EndWindow
<1>2. /\ part \in [lines : Texts, base : Nat \ {0}] /\ start \in Nat /\ line \in Nat
      /\ buffer \in [lines : Texts, first : Nat] /\ options \in Options
      /\ cut \in Seq(OnLines) /\ chunks \in Seq(OnLines)
  BY DEF Well, Given, Gathered, Named
<1>3. cut' \in Seq(OnLines)
  <2>1. CASE buffer.lines = <<>>
    BY <1>1, <1>2, <2>1
  <2>2. CASE buffer.lines # <<>>
    <3> DEFINE last == part.base + WindowEnd - 1
    <3>1. /\ buffer.first <= last /\ last \in Nat
          /\ part.base + start + line - 1 = last
      <4>1. buffer.first < part.base + start + line /\ buffer.first \in Nat
        BY <1>2, <2>2 DEF Well, Gathered
      <4>2. part.base + start + line = part.base + WindowEnd /\ WindowEnd \in Nat
        BY <1>1, <1>2
      <4>3. QED
        BY <1>2, <4>1, <4>2
    <3>2. /\ buffer.first \in Nat /\ buffer.lines \in Texts
          /\ Length(Trim(buffer.lines)) <= MaxChunkChars
          /\ Sources(buffer.lines) = Inked(buffer.first, part.base + start + line - 1)
      BY <1>2, <2>2 DEF Well, Gathered, Named
    <3> HIDE DEF last
    <3>3. Sources(buffer.lines) = Inked(buffer.first, last)
      BY <3>1, <3>2
    <3>4. Flushed(last) \in Seq(OnLines)
      BY <1>2, <3>1, <3>2, <3>3, PushedNamed DEF Flushed
    <3>5. QED
      BY <1>1, <2>2, <3>4 DEF last
  <2>3. QED
    BY <2>1, <2>2
<1>4. chunks' \in Seq(OnLines)
  <2>1. CASE WindowEnd >= Len(part.lines)
    <3>1. chunks' = chunks \o cut'
      BY <1>1, <2>1
    <3>2. QED
      BY <1>2, <1>3, <3>1, ConcatProperties
  <2>2. CASE ~ (WindowEnd >= Len(part.lines))
    BY <1>1, <1>2, <2>2
  <2>3. QED
    BY <2>1, <2>2
<1>5. /\ UNCHANGED input /\ part' = part /\ sections' = sections /\ buffer'.lines = <<>>
  BY <1>1, <1>2
<1>6. OnLines' = OnLines /\ \A s \in sections' : ~ Blank(Line(s.first))'
  BY <1>5, SameNames, SameSpans DEF Named
<1>7. FromFile(part.lines, part.base)'
  <2>1. FromFile(part.lines, part.base)
    BY <1>1 DEF Named
  <2>2. QED
    BY <1>5, <2>1 DEF FromFile, Lines, Inked, Line, input
<1>8. QED
  BY <1>3, <1>4, <1>5, <1>6, <1>7 DEF Named

\* The lines of a part of the file, as they are and trimmed.
LEMMA LinesFromFile ==
  ASSUME file \in Seq(LineKinds), NEW s \in Spans
  PROVE  /\ FromFile(LinesOf(s), s.first)
         /\ Sources(LinesOf(s)) = Inked(s.first, s.last)
         /\ ~ Blank(Line(s.first)) => FromFile(Trim(LinesOf(s)), s.first)
<1> DEFINE ls == LinesOf(s)
           n == s.last - s.first + 1
<1>1. /\ s.first \in Nat \ {0} /\ s.last \in Nat /\ s.first <= s.last /\ s.last <= Len(file)
      /\ n \in Nat /\ Lines = 1 .. Len(file) /\ Len(file) \in Nat
  BY DEF Spans, Lines
<1>2. ls \in Texts /\ Len(ls) = n /\ \A i \in 1 .. n : ls[i] = Line(s.first + i - 1)
  BY LinesAre
<1> HIDE DEF ls
<1>3. DOMAIN ls = 1 .. n
  BY <1>2 DEF Texts
<1>4. ASSUME NEW i \in 1 .. n
      PROVE  /\ s.first + i - 1 \in Lines
             /\ Source(ls[i]) = Inked(s.first + i - 1, s.first + i - 1)
  <2>1. s.first + i - 1 \in Lines
    BY <1>1
  <2>2. QED
    BY <1>2, <2>1, LineSource
<1>5. FromFile(ls, s.first)
  BY <1>2, <1>4 DEF FromFile
<1>6. Sources(ls) = Inked(s.first, s.last)
  <2>1. Sources(ls) \subseteq Inked(s.first, s.last)
    <3>1. SUFFICES ASSUME NEW i \in 1 .. n, NEW m \in Source(ls[i])
                   PROVE  m \in Inked(s.first, s.last)
      BY <1>3 DEF Sources
    <3> DEFINE k == s.first + i - 1
    <3>2. k \in s.first .. s.last /\ k .. k = {k}
      BY <1>1
    <3>3. m \in Inked(k, k)
      BY <1>4
    <3> HIDE DEF k
    <3>4. QED
      BY <3>2, <3>3 DEF Inked
  <2>2. Inked(s.first, s.last) \subseteq Sources(ls)
    <3>1. SUFFICES ASSUME NEW m \in s.first .. s.last, m \in Lines, ~ Blank(Line(m))
                   PROVE  m \in Sources(ls)
      BY DEF Inked
    <3>2. m - s.first + 1 \in 1 .. n /\ s.first + (m - s.first + 1) - 1 = m /\ m \in m .. m
      BY <1>1
    <3>3. Source(ls[m - s.first + 1]) = Inked(m, m)
      BY <1>4, <3>2
    <3>4. m \in Inked(m, m)
      BY <3>1, <3>2 DEF Inked
    <3>5. QED
      BY <1>3, <3>2, <3>3, <3>4 DEF Sources
  <2>3. QED
    BY <2>1, <2>2
<1>7. ASSUME ~ Blank(Line(s.first)) PROVE FromFile(Trim(ls), s.first)
  <2>1. 1 \in 1 .. n /\ s.first + 1 - 1 = s.first
    BY <1>1
  <2>2. ls # <<>> /\ ~ Blank(ls[1])
    <3>1. ls[1] = Line(s.first)
      BY <1>2, <2>1
    <3>2. ls # <<>>
      <4>1. 1 \in DOMAIN ls
        BY <1>3, <2>1
      <4>2. QED
        BY <4>1
    <3>3. QED
      BY <1>7, <3>1, <3>2
  <2>3. /\ Len(Trim(ls)) <= n
        /\ \A i \in 1 .. Len(Trim(ls)) : Source(Trim(ls)[i]) = Source(ls[i])
    BY <1>2, <2>2, TrimSources
  <2>4. Len(Trim(ls)) \in Nat
    BY <1>2, TrimIs DEF Texts
  <2>5. \A i \in 1 .. Len(Trim(ls)) : i \in 1 .. n
    BY <1>1, <2>3, <2>4
  <2>6. QED
    BY <1>4, <2>3, <2>5 DEF FromFile
<1>8. QED
  BY <1>5, <1>6, <1>7 DEF ls

\* A call of chunkFileWithLineWindows, for lines of the file.
LEMMA WindowsName ==
  ASSUME Named, UNCHANGED <<input, chunks>>, sections' \subseteq sections,
         NEW ls, NEW base, FromFile(ls, base), Windows(ls, base)
  PROVE  Named'
<1>1. /\ part' = [lines |-> ls, base |-> base]
      /\ buffer' = [lines |-> <<>>, first |-> base] /\ cut' = <<>> /\ pc' = "windows"
  BY DEF Windows
<1>2. part'.lines = ls /\ part'.base = base /\ buffer'.lines = <<>>
  BY <1>1
<1>3. UNCHANGED input
  OBVIOUS
<1>4. OnLines' = OnLines /\ \A s \in sections' : ~ Blank(Line(s.first))'
  BY <1>3, SameNames, SameSpans DEF Named
<1>5. FromFile(part.lines, part.base)'
  <2>1. FromFile(ls, base)'
    BY <1>3 DEF FromFile, Lines, Inked, Line, input
  <2>2. QED
    BY <1>2, <2>1 DEF FromFile
<1>6. chunks' \in Seq(OnLines) /\ cut' \in Seq(OnLines)
  BY <1>1 DEF Named
<1>7. QED
  BY <1>2, <1>4, <1>5, <1>6 DEF Named

LEMMA QuietNames ==
  ASSUME Named, UNCHANGED <<input, part, start, line, buffer, cut>>, pc' # "windows",
         \A s \in sections' : ~ Blank(Line(s.first)), chunks' \in Seq(OnLines)
  PROVE  Named'
<1>1. UNCHANGED input
  OBVIOUS
<1>2. OnLines' = OnLines /\ \A s \in sections' : ~ Blank(Line(s.first))'
  BY <1>1, SameNames, SameSpans
<1>3. buffer'.lines # <<>> =>
        Sources(buffer.lines)' = Inked(buffer.first, part.base + start + line - 1)'
  BY <1>1 DEF Named, Inked, Lines, Line, input
<1>4. cut' \in Seq(OnLines)
  BY DEF Named
<1>5. QED
  BY <1>2, <1>3, <1>4 DEF Named

LEMMA CutNames ==
  ASSUME Well, Named, NEW s \in Spans, ~ Blank(Line(s.first)),
         UNCHANGED <<input, mode>>, sections' \subseteq sections,
         NEW index \in Nat, NEW text, text = Trim(LinesOf(s)),
         IF Length(text) > MaxChunkChars
         THEN Windows(text, s.first) /\ UNCHANGED chunks
         ELSE /\ chunks' \in {chunks, Whole(text, s, index)}
              /\ text = <<>> => chunks' = chunks
              /\ pc' = "sections" /\ UNCHANGED <<part, start, line, buffer, cut>>
  PROVE  Named'
<1>1. /\ file \in Seq(LineKinds) /\ options \in Options
      /\ chunks \in Seq(OnLines) /\ MaxChunkChars \in Nat \ {0}
  BY OptionsAre DEF Well, Given, Named
<1>2. LinesOf(s) \in Texts /\ text \in Texts /\ Length(text) \in Int
  <2>1. LinesOf(s) \in Texts
    BY <1>1, LinesAre
  <2>2. text \in Texts
    BY <2>1, TrimIs
  <2>3. QED
    BY <2>1, <2>2, LengthIs
<1>3. /\ FromFile(text, s.first) /\ Sources(text) = Inked(s.first, s.last)
      /\ s.first \in Nat /\ s.last \in Nat /\ s.first <= s.last
  BY <1>1, <1>2, LinesFromFile, TrimSources DEF Spans
<1>4. CASE Length(text) > MaxChunkChars
  BY <1>3, <1>4, WindowsName
<1>5. CASE ~ (Length(text) > MaxChunkChars)
  <2>1. chunks' \in Seq(OnLines)
    <3>1. CASE chunks' = chunks
      BY <1>1, <3>1
    <3>2. CASE chunks' = Whole(text, s, index) /\ text # <<>>
      <4> DEFINE c == [text |-> text, first |-> s.first, last |-> s.last, index |-> index]
      <4>1. c \in [text : Texts \ {<<>>}, first : Nat, last : Nat, index : Nat]
        BY <1>2, <1>3, <3>2
      <4>2. /\ Length(c.text) <= MaxChunkChars /\ c.text = text
            /\ c.first = s.first /\ c.last = s.last
        BY <1>1, <1>2, <1>5
      <4>3. chunks' = Append(chunks, c)
        BY <3>2 DEF Whole
      <4> HIDE DEF c
      <4>4. OnItsLines(c)
        BY <1>2, <1>3, <4>2, NamedIs
      <4>5. c \in OnLines
        BY <1>3, <4>1, <4>2, <4>4 DEF Fitting, OnLines
      <4>6. QED
        BY <1>1, <4>3, <4>5, AppendProperties
    <3>3. QED
      BY <1>5, <3>1, <3>2
  <2>2. pc' # "windows" /\ UNCHANGED <<input, part, start, line, buffer, cut>>
    BY <1>5
  <2>3. \A t \in sections' : ~ Blank(Line(t.first))
    BY DEF Named
  <2>4. QED
    BY <2>1, <2>2, <2>3, QuietNames
<1>6. QED
  BY <1>4, <1>5

\* A section begins with a line that is not blank.
LEMMA SectionsBegin ==
  ASSUME Given, Prefaced, mode = "markdown" \/ mode = "text"
  PROVE  \A s \in IF mode = "markdown" THEN MarkdownSections ELSE Paragraphs :
           ~ Blank(Line(s.first))
<1>1. CASE mode = "markdown"
  <2>1. SUFFICES ASSUME NEW s \in MarkdownSections PROVE ~ Blank(Line(s.first))
    BY <1>1
  <2>2. PICK n \in Lines : s.first = n /\ (n = 1 \/ file[n].heading)
    <3> DEFINE starts == {n \in Lines : n = 1 \/ (file[n].heading /\ ~ InFence(n))}
               end(n) == Min({m \in n .. Len(file) : m = Len(file) \/ m + 1 \in starts})
    <3>1. MarkdownSections = {[first |-> n, last |-> end(n)] : n \in starts}
      BY DEF MarkdownSections
    <3> HIDE DEF end
    <3>2. PICK n \in starts : s = [first |-> n, last |-> end(n)]
      BY <3>1
    <3>3. QED
      BY <3>2
  <2>3. CASE n = 1
    BY <1>1, <2>2, <2>3 DEF Prefaced
  <2>4. CASE file[n].heading
    <3>1. file[n] \in LineKinds
      BY ElementOfSeq DEF Given, Lines
    <3>2. PICK c \in DOMAIN file[n].ink : file[n].ink[c]
      BY <2>4, <3>1, ChunkerAssumption
    <3>3. c \in DOMAIN Line(n) /\ Line(n)[c].ink
      BY <3>2 DEF Line
    <3>4. QED
      BY <2>2, <3>3 DEF Blank, Ink
  <2>5. QED
    BY <2>2, <2>3, <2>4
<1>2. CASE mode = "text"
  <2>1. SUFFICES ASSUME NEW s \in Paragraphs PROVE ~ Blank(Line(s.first))
    BY <1>2
  <2> DEFINE blank(n) == n \notin Lines \/ Blank(Line(n))
             starts == {n \in Lines : ~ blank(n) /\ blank(n - 1)}
             end(n) == Min({m \in n .. Len(file) : blank(m + 1)})
  <2>2. Paragraphs = {[first |-> n, last |-> end(n)] : n \in starts}
    BY DEF Paragraphs
  <2> HIDE DEF end
  <2>3. PICK n \in starts : s = [first |-> n, last |-> end(n)]
    BY <2>2
  <2>4. QED
    BY <2>3
<1>3. QED
  BY <1>1, <1>2

LEMMA SplitNames ==
  ASSUME Well, Named, Prefaced, Split
  PROVE  Named'
<1>1. pc = "split" /\ UNCHANGED <<input, mode, chunks>>
  BY DEF Split
<1>2. CASE mode = "line-window"
  <2> DEFINE s == [first |-> 1, last |-> Len(file)]
  <2>1. Windows(LinesOf(s), 1) /\ sections' = sections
    BY <1>1, <1>2 DEF Split
  <2>2. file \in Seq(LineKinds) /\ Len(file) \in Nat /\ 1 <= Len(file)
    BY DEF Well, Given
  <2>3. s \in Spans /\ s.first = 1
    BY <2>2 DEF Spans
  <2> HIDE DEF s
  <2>4. FromFile(LinesOf(s), 1)
    BY <2>2, <2>3, LinesFromFile
  <2>5. QED
    BY <1>1, <2>1, <2>4, WindowsName
<1>3. CASE mode # "line-window"
  <2>1. /\ pc' = "sections" /\ UNCHANGED <<part, start, line, buffer, cut>>
        /\ sections' = CASE mode = "markdown" -> MarkdownSections
                         [] mode = "text" -> Paragraphs
                         [] mode = "tree-sitter" -> nodes
    BY <1>1, <1>3 DEF Split, Quiet
  <2>2. mode \in {"markdown", "text", "tree-sitter"}
    BY <1>3, ChunkerAssumption DEF Well, Given
  <2>3. \A s \in sections' : ~ Blank(Line(s.first))
    <3>1. CASE mode = "tree-sitter"
      <4>1. sections' = nodes
        BY <2>1, <3>1
      <4>2. QED
        BY <4>1 DEF Well, Given
    <3>2. CASE mode = "markdown"
      <4>1. sections' = MarkdownSections
        BY <2>1, <3>2
      <4>2. QED
        BY <3>2, <4>1, SectionsBegin DEF Well
    <3>3. CASE mode = "text"
      <4>1. sections' = Paragraphs
        BY <2>1, <3>3
      <4>2. QED
        BY <3>3, <4>1, SectionsBegin DEF Well
    <3>4. QED
      BY <2>2, <3>1, <3>2, <3>3
  <2>4. UNCHANGED <<input, part, start, line, buffer, cut>> /\ pc' # "windows"
        /\ chunks' \in Seq(OnLines)
    BY <1>1, <2>1 DEF Named
  <2>5. QED
    BY <2>3, <2>4, QuietNames
<1>4. QED
  BY <1>2, <1>3

LEMMA NextSectionNames ==
  ASSUME Well, Named, NextSection
  PROVE  Named'
<1> DEFINE s == First(sections)
           text == Trim(LinesOf(s))
<1>1. /\ pc = "sections" /\ mode # "tree-sitter" /\ sections # {}
      /\ sections' = sections \ {s}
      /\ IF Length(text) > MaxChunkChars
         THEN Windows(text, s.first) /\ UNCHANGED chunks
         ELSE /\ chunks' = IF text = <<>> THEN chunks ELSE Whole(text, s, Len(chunks))
              /\ UNCHANGED pc /\ Quiet
      /\ UNCHANGED <<input, mode>>
  BY DEF NextSection
<1>2. s \in Spans /\ Len(chunks) \in Nat /\ ~ Blank(Line(s.first))
  BY <1>1, FirstIs DEF Well, Given, Named
<1> HIDE DEF s, text
<1>3. IF Length(text) > MaxChunkChars
      THEN Windows(text, s.first) /\ UNCHANGED chunks
      ELSE /\ chunks' \in {chunks, Whole(text, s, Len(chunks))}
           /\ text = <<>> => chunks' = chunks
           /\ pc' = "sections" /\ UNCHANGED <<part, start, line, buffer, cut>>
  BY <1>1 DEF Quiet
<1>4. sections' \subseteq sections /\ text = Trim(LinesOf(s))
  BY <1>1 DEF text
<1>5. QED
  BY <1>1, <1>2, <1>3, <1>4, CutNames

LEMMA NextNodeNames ==
  ASSUME Well, Named, NextNode
  PROVE  Named'
<1> DEFINE n == First(sections)
           text == Trim(LinesOf(n))
<1>1. /\ pc = "sections" /\ mode = "tree-sitter" /\ sections # {}
      /\ sections' = sections \ {n}
      /\ IF Length(text) > MaxChunkChars
         THEN Windows(text, n.first) /\ UNCHANGED chunks
         ELSE chunks' = Whole(text, n, 0) /\ UNCHANGED pc /\ Quiet
      /\ UNCHANGED <<input, mode>>
  BY DEF NextNode
<1>2. n \in Spans /\ ~ Blank(Line(n.first)) /\ file \in Seq(LineKinds)
  BY <1>1, FirstIs DEF Well, Given, Named
<1>3. text # <<>>
  <2>1. 1 \in 1 .. n.last - n.first + 1
    BY <1>2 DEF Spans
  <2> HIDE DEF n
  <2>2. /\ LinesOf(n) \in Texts /\ 1 \in 1 .. Len(LinesOf(n))
        /\ LinesOf(n)[1] = Line(n.first + 1 - 1)
    BY <1>2, <2>1, LinesAre
  <2>3. n.first + 1 - 1 = n.first
    BY <1>2 DEF Spans
  <2>4. QED
    BY <1>2, <2>2, <2>3, TrimIs
<1> HIDE DEF n, text
<1>4. IF Length(text) > MaxChunkChars
      THEN Windows(text, n.first) /\ UNCHANGED chunks
      ELSE /\ chunks' \in {chunks, Whole(text, n, 0)}
           /\ text = <<>> => chunks' = chunks
           /\ pc' = "sections" /\ UNCHANGED <<part, start, line, buffer, cut>>
  BY <1>1, <1>3 DEF Quiet
<1>5. sections' \subseteq sections /\ text = Trim(LinesOf(n)) /\ 0 \in Nat
  BY <1>1 DEF text
<1>6. QED
  BY <1>1, <1>2, <1>4, <1>5, CutNames

LEMMA FinishNames ==
  ASSUME Well, Named, Finish
  PROVE  Named'
<1>1. /\ UNCHANGED <<input, sections>> /\ UNCHANGED <<part, start, line, buffer, cut>>
      /\ pc' # "windows" /\ chunks' \in {chunks, Reindexed(chunks)}
  BY DEF Finish, Quiet
<1>2. Reindexed(chunks) \in Seq(OnLines)
  <2>1. chunks \in Seq(OnLines) /\ Len(chunks) \in Nat /\ DOMAIN chunks = 1 .. Len(chunks)
    BY DEF Named
  <2>2. ASSUME NEW i \in 1 .. Len(chunks)
        PROVE  [chunks[i] EXCEPT !.index = i - 1] \in OnLines
    <3> DEFINE c == chunks[i]
               d == [c EXCEPT !.index = i - 1]
    <3>1. c \in OnLines /\ i - 1 \in Nat
      BY <2>1, ElementOfSeq
    <3> HIDE DEF c
    <3>2. /\ d \in [text : Texts \ {<<>>}, first : Nat, last : Nat, index : Nat]
          /\ d.text = c.text /\ d.first = c.first /\ d.last = c.last
      BY <3>1 DEF OnLines, Fitting
    <3> HIDE DEF d
    <3>3. OnItsLines(d)
      BY <3>1, <3>2 DEF OnLines, OnItsLines
    <3>4. d \in OnLines
      BY <3>1, <3>2, <3>3 DEF OnLines, Fitting
    <3>5. QED
      BY <3>4 DEF c, d
  <2>3. Reindexed(chunks) \in [1 .. Len(chunks) -> OnLines]
    BY <2>1, <2>2 DEF Reindexed
  <2>4. QED
    BY <2>1, <2>3, SeqDef
<1>3. chunks' \in Seq(OnLines) /\ \A s \in sections' : ~ Blank(Line(s.first))
  BY <1>1, <1>2 DEF Named
<1>4. QED
  BY <1>1, <1>3, QuietNames

Names == Well /\ (Prefaced => Named)

LEMMA NamesHold == Spec => []Names
<1>1. Init => Names
  <2>1. Init => Named
    BY DEF Init, Named
  <2>2. QED
    BY <2>1, InitWell DEF Names
<1>2. Names /\ [Next]_vars => Names'
  <2> SUFFICES ASSUME Names, [Next]_vars, Prefaced' PROVE Named'
    BY NextWell DEF Names
  <2>1. Well /\ (Prefaced => Named)
    BY DEF Names
  <2>2. Prefaced
    <3>1. UNCHANGED input /\ (mode' = mode \/ mode = "tree-sitter")
      <4>1. CASE Next
        BY <4>1 DEF Next, Split, NextSection, NextNode, NextLine, EndWindow, Finish
      <4>2. CASE UNCHANGED vars
        BY <4>2 DEF vars, input
      <4>3. QED
        BY <4>1, <4>2
    <3>2. QED
      BY <3>1, SameSpans DEF Prefaced
  <2>3. CASE Split
    BY <2>1, <2>2, <2>3, SplitNames
  <2>4. CASE NextSection
    BY <2>1, <2>2, <2>4, NextSectionNames
  <2>5. CASE NextNode
    BY <2>1, <2>2, <2>5, NextNodeNames
  <2>6. CASE NextLine
    BY <2>1, <2>2, <2>6, NextLineNames
  <2>7. CASE EndWindow
    BY <2>1, <2>2, <2>7, EndWindowNames
  <2>8. CASE Finish
    BY <2>1, <2>2, <2>8, FinishNames
  <2>9. CASE UNCHANGED vars
    <3>1. UNCHANGED <<input, pc, sections, part, start, line, buffer, cut, chunks>>
      BY <2>9 DEF vars, input
    <3>2. OnLines' = OnLines /\ \A s \in sections' : ~ Blank(Line(s.first))'
      BY <2>1, <2>2, <3>1, SameNames, SameSpans DEF Named
    <3>3. pc' = "windows" => FromFile(part.lines, part.base)'
      <4>1. UNCHANGED <<input, part>> /\ pc' = pc
        BY <3>1
      <4>2. pc = "windows" => FromFile(part.lines, part.base)
        BY <2>1, <2>2 DEF Named
      <4>3. FromFile(part.lines, part.base)' = FromFile(part.lines, part.base)
        BY <4>1, SamePart
      <4>4. QED
        BY <4>1, <4>2, <4>3
    <3>4. buffer'.lines # <<>> =>
            Sources(buffer.lines)' = Inked(buffer.first, part.base + start + line - 1)'
      BY <2>1, <2>2, <3>1 DEF Named, Inked, Lines, Line, input
    <3>5. QED
      BY <2>1, <2>2, <3>1, <3>2, <3>3, <3>4 DEF Named
  <2>10. QED
    BY <2>3, <2>4, <2>5, <2>6, <2>7, <2>8, <2>9 DEF Next
<1>3. QED
  BY <1>1, <1>2, PTL DEF Spec

LEMMA NamesName == Names => LinesNamed
<1> SUFFICES ASSUME Well, Named, NEW c \in ToSet(cut) \cup ToSet(chunks)
             PROVE  OnItsLines(c)
  BY DEF Names, Prefaced, LinesNamed
<1>1. ToSet(cut) \subseteq OnLines /\ ToSet(chunks) \subseteq OnLines
  BY DEF Named, ToSet
<1>2. QED
  BY <1>1 DEF OnLines

\* A chunk has text of the lines it names and of no others, through trimming, windows,
\* flushed buffers and the pieces of long lines (pushChunk, chunksFromTextSections).
THEOREM ChunksNameTheirLines == Spec => []LinesNamed
  BY NamesHold, NamesName, PTL

-----------------------------------------------------------------------------
(* Nothing is lost.                                                        *)

\* The characters with ink of a line, of lines, and of the texts of chunks.
LineInk(l) == {l[c] : c \in Ink(l)}
TextInk(ls) == UNION {LineInk(ls[i]) : i \in DOMAIN ls}
Inks(cs) == UNION {TextInk(cs[i].text) : i \in DOMAIN cs}

\* No two chunks share a character, and no two places of lines.
Apart(cs) ==
  \A i, j \in DOMAIN cs : i # j => TextInk(cs[i].text) \cap TextInk(cs[j].text) = {}
Distinct(ls) ==
  \A i, k \in DOMAIN ls : \A a \in Ink(ls[i]), b \in Ink(ls[k]) :
    ls[i][a] = ls[k][b] => i = k /\ a = b

\* The ink of a part of a line.
LEMMA PartInk ==
  ASSUME NEW l \in Seq(Chars), NEW a \in Nat \ {0}, NEW b \in 0 .. Len(l)
  PROVE  /\ \A i \in Ink(SubSeq(l, a, b)) :
              a + i - 1 \in Ink(l) /\ a + i - 1 \in a .. b /\ SubSeq(l, a, b)[i] = l[a + i - 1]
         /\ LineInk(SubSeq(l, a, b)) = {l[c] : c \in Ink(l) \cap (a .. b)}
<1> DEFINE p == SubSeq(l, a, b)
<1>1. Len(l) \in Nat /\ DOMAIN l = 1 .. Len(l) /\ \A i \in 1 .. Len(l) : l[i] \in Chars
  OBVIOUS
<1>2. /\ p \in Seq(Chars) /\ Len(p) = IF a <= b THEN b - a + 1 ELSE 0
      /\ \A i \in 1 .. b - a + 1 : p[i] = l[a + i - 1]
  <2>1. a \in Int /\ b \in Int /\ \A i \in a .. b : l[i] \in Chars
    BY <1>1
  <2>2. QED
    BY <2>1, SubSeqProperties
<1> HIDE DEF p
<1>3. DOMAIN p = 1 .. Len(p)
  BY <1>2
<1>4. ASSUME NEW i \in DOMAIN p
      PROVE  a + i - 1 \in 1 .. Len(l) /\ a + i - 1 \in a .. b /\ p[i] = l[a + i - 1]
  BY <1>1, <1>2, <1>3
<1>5. ASSUME NEW c \in a .. b
      PROVE  c - a + 1 \in DOMAIN p /\ p[c - a + 1] = l[c]
  <2>1. c - a + 1 \in 1 .. b - a + 1 /\ a + (c - a + 1) - 1 = c /\ a <= b
    OBVIOUS
  <2>2. QED
    BY <1>2, <1>3, <2>1
<1>6. ASSUME NEW i \in Ink(p)
      PROVE  a + i - 1 \in Ink(l) /\ a + i - 1 \in a .. b /\ p[i] = l[a + i - 1]
  <2>1. i \in DOMAIN p /\ p[i].ink
    BY DEF Ink
  <2>2. QED
    BY <1>1, <1>4, <2>1 DEF Ink
<1>7. LineInk(p) \subseteq {l[c] : c \in Ink(l) \cap (a .. b)}
  BY <1>6 DEF LineInk
<1>8. ASSUME NEW c \in Ink(l) \cap (a .. b) PROVE l[c] \in LineInk(p)
  <2>1. l[c].ink
    BY DEF Ink
  <2>2. c - a + 1 \in Ink(p) /\ p[c - a + 1] = l[c]
    BY <1>5, <2>1 DEF Ink
  <2>3. QED
    BY <2>2 DEF LineInk
<1>9. QED
  BY <1>6, <1>7, <1>8 DEF p

LEMMA BlankInk ==
  ASSUME NEW l
  PROVE  Blank(l) <=> LineInk(l) = {}
BY DEF Blank, LineInk

\* Trimming drops no ink and doubles none.
LEMMA TrimInk ==
  ASSUME NEW ls \in Texts
  PROVE  /\ TextInk(Trim(ls)) = TextInk(ls)
         /\ Distinct(ls) => Distinct(Trim(ls))
<1>1. /\ Len(ls) \in Nat /\ DOMAIN ls = 1 .. Len(ls)
      /\ \A i \in 1 .. Len(ls) : ls[i] \in Seq(Chars) /\ Len(ls[i]) \in Nat
  BY DEF Texts
<1>2. CASE \A i \in 1 .. Len(ls) : Blank(ls[i])
  <2>1. Trim(ls) = <<>>
    BY <1>2, TrimBlank
  <2>2. \A i \in DOMAIN ls : LineInk(ls[i]) = {}
    BY <1>1, <1>2, BlankInk
  <2>3. TextInk(ls) = {} /\ TextInk(<<>>) = {} /\ Distinct(<<>>)
    BY <2>2 DEF TextInk, Distinct
  <2>4. QED
    BY <2>1, <2>3
<1>3. CASE \E i \in 1 .. Len(ls) : ~ Blank(ls[i])
  <2>1. PICK lo, hi \in 1 .. Len(ls), from, upto \in [1 .. Len(ls) -> Nat] :
           Trimmed(ls, lo, hi, from, upto)
    BY <1>3, TrimShape
  <2> DEFINE t == Trim(ls)
  <2>2. lo \in Nat /\ hi \in Nat /\ lo <= hi /\ hi - lo + 1 \in Nat /\ hi <= Len(ls)
    BY <1>1, <2>1 DEF Trimmed
  <2>3. t = [i \in 1 .. hi - lo + 1 |->
               SubSeq(ls[lo + i - 1], from[lo + i - 1], upto[lo + i - 1])]
    BY <2>1 DEF Trimmed
  <2> HIDE DEF t
  <2>4. DOMAIN t = 1 .. hi - lo + 1
    BY <2>3
  <2>5. ASSUME NEW i \in 1 .. Len(ls)
        PROVE  /\ from[i] \in Nat
               /\ LineInk(SubSeq(ls[i], from[i], upto[i])) = LineInk(ls[i])
               /\ \A c \in Ink(SubSeq(ls[i], from[i], upto[i])) :
                    /\ from[i] + c - 1 \in Ink(ls[i]) /\ c \in Nat
                    /\ SubSeq(ls[i], from[i], upto[i])[c] = ls[i][from[i] + c - 1]
    <3> DEFINE a == from[i]  b == upto[i]  l == ls[i]
    <3>1. a \in Nat \ {0} /\ b \in 0 .. Len(l) /\ l \in Seq(Chars) /\ Ink(l) \subseteq a .. b
      <4>1. ls[i] \in Seq(Chars) /\ Len(ls[i]) \in Nat
        BY <1>1
      <4>2. from[i] \in Nat /\ from[i] # 0 /\ upto[i] \in Nat /\ upto[i] <= Len(ls[i])
            /\ Ink(ls[i]) \subseteq from[i] .. upto[i]
        BY <2>1 DEF Trimmed
      <4>3. QED
        BY <4>1, <4>2
    <3> HIDE DEF a, b, l
    <3>2. Ink(l) \cap (a .. b) = Ink(l)
      BY <3>1
    <3>3. LineInk(SubSeq(l, a, b)) = {l[c] : c \in Ink(l) \cap (a .. b)}
      BY <3>1, PartInk
    <3>4. LineInk(SubSeq(l, a, b)) = LineInk(l)
      BY <3>2, <3>3 DEF LineInk
    <3>5. ASSUME NEW c \in Ink(SubSeq(l, a, b))
          PROVE  a + c - 1 \in Ink(l) /\ c \in Nat /\ SubSeq(l, a, b)[c] = l[a + c - 1]
      <4>1. SubSeq(l, a, b) \in Seq(Chars)
        BY <3>1, PartIs
      <4>2. c \in 1 .. Len(SubSeq(l, a, b))
        BY <4>1, InkIs
      <4>3. QED
        BY <3>1, <4>2, PartInk
    <3>6. a \in Nat
      BY <3>1
    <3>7. QED
      BY <3>4, <3>5, <3>6 DEF a, b, l
  <2>6. ASSUME NEW i \in 1 .. hi - lo + 1
        PROVE  /\ lo + i - 1 \in 1 .. Len(ls) /\ i \in Nat
               /\ t[i] = SubSeq(ls[lo + i - 1], from[lo + i - 1], upto[lo + i - 1])
               /\ LineInk(t[i]) = LineInk(ls[lo + i - 1])
    <3>1. lo + i - 1 \in 1 .. Len(ls) /\ i \in Nat
      BY <1>1, <2>1, <2>2
    <3>2. t[i] = SubSeq(ls[lo + i - 1], from[lo + i - 1], upto[lo + i - 1])
      BY <2>3
    <3>3. LineInk(SubSeq(ls[lo + i - 1], from[lo + i - 1], upto[lo + i - 1])) = LineInk(ls[lo + i - 1])
      BY <2>5, <3>1
    <3>4. QED
      BY <3>1, <3>2, <3>3
  <2>7. TextInk(t) \subseteq TextInk(ls)
    BY <1>1, <2>4, <2>6 DEF TextInk
  <2>8. TextInk(ls) \subseteq TextInk(t)
    <3>1. SUFFICES ASSUME NEW i \in 1 .. Len(ls), LineInk(ls[i]) # {}
                   PROVE  LineInk(ls[i]) \subseteq TextInk(t)
      BY <1>1 DEF TextInk
    <3>2. lo <= i /\ i <= hi
      BY <2>1, <3>1, BlankInk DEF Trimmed
    <3>3. i - lo + 1 \in 1 .. hi - lo + 1 /\ lo + (i - lo + 1) - 1 = i
      BY <2>2, <3>2
    <3>4. LineInk(t[i - lo + 1]) = LineInk(ls[i])
      BY <2>6, <3>3
    <3>5. QED
      BY <2>4, <3>3, <3>4 DEF TextInk
  <2>9. ASSUME Distinct(ls), NEW i \in 1 .. hi - lo + 1, NEW k \in 1 .. hi - lo + 1,
               NEW a \in Ink(t[i]), NEW b \in Ink(t[k]), t[i][a] = t[k][b]
        PROVE  i = k /\ a = b
    <3> DEFINE u == lo + i - 1  v == lo + k - 1
    <3>1. u \in 1 .. Len(ls) /\ v \in 1 .. Len(ls) /\ (u = v => i = k)
      <4>1. i \in Nat /\ k \in Nat
        BY <2>6
      <4>2. u = v => i = k
        BY <2>2, <4>1
      <4>3. QED
        BY <2>6, <4>2
    <3>2. t[i] = SubSeq(ls[u], from[u], upto[u]) /\ t[k] = SubSeq(ls[v], from[v], upto[v])
      BY <2>6
    <3> HIDE DEF u, v
    <3>3. /\ from[u] + a - 1 \in Ink(ls[u]) /\ t[i][a] = ls[u][from[u] + a - 1]
          /\ from[v] + b - 1 \in Ink(ls[v]) /\ t[k][b] = ls[v][from[v] + b - 1]
          /\ a \in Nat /\ b \in Nat /\ from[u] \in Nat /\ from[v] \in Nat
      BY <2>5, <3>1, <3>2
    <3>4. u = v /\ from[u] + a - 1 = from[v] + b - 1
      <4>1. u \in DOMAIN ls /\ v \in DOMAIN ls
        BY <1>1, <3>1
      <4>2. ls[u][from[u] + a - 1] = ls[v][from[v] + b - 1]
        BY <2>9, <3>3
      <4> DEFINE x == from[u] + a - 1  y == from[v] + b - 1
      <4> HIDE DEF x, y
      <4>3. x \in Ink(ls[u]) /\ y \in Ink(ls[v]) /\ ls[u][x] = ls[v][y]
        BY <3>3, <4>2 DEF x, y
      <4>4. u = v /\ x = y
        BY <2>9, <4>1, <4>3 DEF Distinct
      <4>5. QED
        BY <4>4 DEF x, y
    <3>5. QED
      BY <3>1, <3>3, <3>4
  <2>10. Distinct(ls) => Distinct(t)
    BY <2>4, <2>9 DEF Distinct
  <2>11. QED
    BY <2>7, <2>8, <2>10 DEF t
<1>4. QED
  BY <1>2, <1>3

\* The ink of lines is their characters with ink.
LEMMA InkOf ==
  ASSUME NEW ls
  PROVE  {x \in Characters(ls) : x.ink} = TextInk(ls)
<1>1. ASSUME NEW i \in DOMAIN ls
      PROVE  {x \in ToSet(ls[i]) : x.ink} = LineInk(ls[i])
  BY DEF ToSet, LineInk, Ink
<1>2. QED
  BY <1>1 DEF Characters, TextInk

LEMMA OneLineInk ==
  ASSUME NEW l
  PROVE  TextInk(<<l>>) = LineInk(l)
<1>1. DOMAIN <<l>> = {1} /\ <<l>>[1] = l
  OBVIOUS
<1>2. QED
  BY <1>1 DEF TextInk

\* A chunk more.
LEMMA AppendInk ==
  ASSUME NEW S, NEW cs \in Seq(S), NEW c \in S
  PROVE  /\ Inks(Append(cs, c)) = Inks(cs) \cup TextInk(c.text)
         /\ Apart(cs) /\ Inks(cs) \cap TextInk(c.text) = {} => Apart(Append(cs, c))
<1> DEFINE t == Append(cs, c)
           n == Len(cs)
<1>1. /\ n \in Nat /\ DOMAIN cs = 1 .. n /\ DOMAIN t = 1 .. n + 1
      /\ t[n + 1] = c /\ \A i \in 1 .. n : t[i] = cs[i]
  OBVIOUS
<1> HIDE DEF t, n
<1>2. DOMAIN t = (DOMAIN cs) \cup {n + 1}
  BY <1>1
<1>3. Inks(t) = Inks(cs) \cup TextInk(c.text)
  <2>1. \A i \in DOMAIN cs : t[i].text = cs[i].text
    BY <1>1
  <2>2. QED
    BY <1>1, <1>2, <2>1 DEF Inks
<1>4. ASSUME Apart(cs), Inks(cs) \cap TextInk(c.text) = {} PROVE Apart(t)
  <2>1. \A i \in DOMAIN cs : t[i] = cs[i] /\ TextInk(cs[i].text) \cap TextInk(c.text) = {}
    BY <1>1, <1>4 DEF Inks
  <2>2. ASSUME NEW i \in DOMAIN t, NEW j \in DOMAIN t, i # j
        PROVE  TextInk(t[i].text) \cap TextInk(t[j].text) = {}
    <3>1. CASE i \in DOMAIN cs /\ j \in DOMAIN cs
      BY <1>4, <2>1, <2>2, <3>1 DEF Apart
    <3>2. CASE i = n + 1 /\ j \in DOMAIN cs
      BY <1>1, <2>1, <3>2
    <3>3. CASE j = n + 1 /\ i \in DOMAIN cs
      BY <1>1, <2>1, <3>3
    <3>4. QED
      BY <1>2, <2>2, <3>1, <3>2, <3>3
  <2>3. QED
    BY <2>2 DEF Apart
<1>5. QED
  BY <1>3, <1>4 DEF t

\* The chunks of a call after those of the file.
LEMMA ConcatInk ==
  ASSUME NEW S, NEW cs \in Seq(S), NEW ds \in Seq(S)
  PROVE  /\ Inks(cs \o ds) = Inks(cs) \cup Inks(ds)
         /\ Apart(cs) /\ Apart(ds) /\ Inks(cs) \cap Inks(ds) = {} => Apart(cs \o ds)
<1> DEFINE t == cs \o ds
           m == Len(cs)
           n == Len(ds)
<1>1. /\ m \in Nat /\ n \in Nat /\ DOMAIN cs = 1 .. m /\ DOMAIN ds = 1 .. n
      /\ DOMAIN t = 1 .. m + n
      /\ \A i \in 1 .. m + n : t[i] = IF i <= m THEN cs[i] ELSE ds[i - m]
  <2>1. t \in Seq(S) /\ Len(t) = m + n
        /\ \A i \in 1 .. m + n : t[i] = IF i <= m THEN cs[i] ELSE ds[i - m]
    BY ConcatProperties
  <2>2. QED
    BY <2>1
<1> HIDE DEF t, m, n
<1>2. \A i \in DOMAIN cs : i \in DOMAIN t /\ t[i] = cs[i]
  BY <1>1
<1>3. \A i \in DOMAIN ds : i + m \in DOMAIN t /\ t[i + m] = ds[i]
  BY <1>1
<1>4. ASSUME NEW i \in DOMAIN t
      PROVE  \/ i \in DOMAIN cs /\ t[i] = cs[i]
             \/ i - m \in DOMAIN ds /\ t[i] = ds[i - m] /\ i \in Nat
  BY <1>1
<1>5. Inks(t) = Inks(cs) \cup Inks(ds)
  BY <1>2, <1>3, <1>4 DEF Inks
<1>6. ASSUME Apart(cs), Apart(ds), Inks(cs) \cap Inks(ds) = {} PROVE Apart(t)
  <2>1. ASSUME NEW i \in DOMAIN cs, NEW j \in DOMAIN ds
        PROVE  TextInk(cs[i].text) \cap TextInk(ds[j].text) = {}
    BY <1>6 DEF Inks
  <2>2. ASSUME NEW i \in DOMAIN t, NEW j \in DOMAIN t, i # j
        PROVE  TextInk(t[i].text) \cap TextInk(t[j].text) = {}
    <3>1. CASE i \in DOMAIN cs /\ t[i] = cs[i] /\ j \in DOMAIN cs /\ t[j] = cs[j]
      BY <1>6, <2>2, <3>1 DEF Apart
    <3>2. CASE i - m \in DOMAIN ds /\ t[i] = ds[i - m] /\ j - m \in DOMAIN ds /\ t[j] = ds[j - m]
               /\ i \in Nat /\ j \in Nat
      <4>1. i - m # j - m
        BY <1>1, <2>2, <3>2
      <4>2. QED
        BY <1>6, <3>2, <4>1 DEF Apart
    <3>3. CASE i \in DOMAIN cs /\ t[i] = cs[i] /\ j - m \in DOMAIN ds /\ t[j] = ds[j - m]
      BY <2>1, <3>3
    <3>4. CASE i - m \in DOMAIN ds /\ t[i] = ds[i - m] /\ j \in DOMAIN cs /\ t[j] = cs[j]
      BY <2>1, <3>4
    <3>5. QED
      BY <1>4, <3>1, <3>2, <3>3, <3>4
  <2>3. QED
    BY <2>2 DEF Apart
<1>7. QED
  BY <1>5, <1>6 DEF t

LEMMA PushedInk ==
  ASSUME options \in Options, NEW cs \in Seq(Fitting), NEW ls \in Texts,
         NEW first \in Nat, NEW last \in Nat, first <= last,
         Length(Trim(ls)) <= MaxChunkChars
  PROVE  /\ Inks(Pushed(cs, ls, first, last)) = Inks(cs) \cup TextInk(ls)
         /\ Apart(cs) /\ Inks(cs) \cap TextInk(ls) = {} => Apart(Pushed(cs, ls, first, last))
<1> DEFINE text == Trim(ls)
           c == [text |-> text, first |-> first, last |-> last, index |-> Len(cs)]
           S == Fitting \cup {c}
<1>1. TextInk(text) = TextInk(ls) /\ c.text = text
  BY TrimInk
<1>2. Pushed(cs, ls, first, last) = IF text = <<>> THEN cs ELSE Append(cs, c)
  BY DEF Pushed
<1> HIDE DEF text, c
<1>3. CASE text = <<>>
  <2>1. TextInk(<<>>) = {}
    BY DEF TextInk
  <2>2. QED
    BY <1>1, <1>2, <1>3, <2>1
<1>4. CASE text # <<>>
  <2>1. cs \in Seq(S) /\ c \in S
    OBVIOUS
  <2> HIDE DEF S
  <2>2. /\ Inks(Append(cs, c)) = Inks(cs) \cup TextInk(c.text)
        /\ Apart(cs) /\ Inks(cs) \cap TextInk(c.text) = {} => Apart(Append(cs, c))
    BY <2>1, AppendInk
  <2>3. QED
    BY <1>1, <1>2, <1>4, <2>2
<1>5. QED
  BY <1>3, <1>4

\* The ink of a line up to a place, and of its next piece.
Before(l, b) == {l[c] : c \in Ink(l) \cap (1 .. b)}

LEMMA PieceInk ==
  ASSUME options \in Options, NEW l \in Seq(Chars), NEW i \in Nat \ {0}, NEW m \in Nat,
         m = (i - 1) * MaxChunkChars
  PROVE  /\ i * MaxChunkChars = m + MaxChunkChars
         /\ LineInk(Piece(l, i)) = {l[c] : c \in Ink(l) \cap (m + 1 .. m + MaxChunkChars)}
<1> DEFINE M == MaxChunkChars
           a == (i - 1) * M + 1
           b == Smaller(i * M, Len(l))
<1>1. M \in Nat \ {0} /\ Len(l) \in Nat
  BY OptionsAre
<1>2. Piece(l, i) = SubSeq(l, a, b)
  BY DEF Piece
<1> HIDE DEF M
<1>3. i * M = m + M
  BY <1>1 DEF M
<1>4. a = m + 1 /\ b \in 0 .. Len(l) /\ b <= m + M /\ (b = m + M \/ b = Len(l))
  BY <1>1, <1>3 DEF Smaller, M
<1> HIDE DEF a, b
<1>5. LineInk(SubSeq(l, a, b)) = {l[c] : c \in Ink(l) \cap (a .. b)}
  <2>1. a \in Nat \ {0}
    BY <1>4
  <2>2. QED
    BY <1>4, <2>1, PartInk
<1>6. Ink(l) \cap (a .. b) = Ink(l) \cap (m + 1 .. m + M)
  <2>1. Ink(l) \subseteq 1 .. Len(l)
    BY InkIs
  <2>2. ASSUME NEW c \in 1 .. Len(l) PROVE c \in a .. b <=> c \in m + 1 .. m + M
    BY <1>1, <1>4
  <2>3. QED
    BY <2>1, <2>2
<1>7. QED
  BY <1>2, <1>3, <1>5, <1>6 DEF M

LEMMA BeforeJoins ==
  ASSUME NEW l \in Seq(Chars), NEW m \in Nat, NEW w \in Nat
  PROVE  LET next == {l[c] : c \in Ink(l) \cap (m + 1 .. m + w)}
         IN /\ Before(l, m) \cup next = Before(l, m + w)
            /\ next \subseteq LineInk(l)
            /\ Distinct(<<l>>) => Before(l, m) \cap next = {}
<1> DEFINE next == {l[c] : c \in Ink(l) \cap (m + 1 .. m + w)}
<1>1. (1 .. m) \cup (m + 1 .. m + w) = 1 .. m + w
  OBVIOUS
<1>2. Before(l, m) \cup next = Before(l, m + w)
  BY <1>1 DEF Before
<1>3. next \subseteq LineInk(l)
  BY DEF LineInk
<1>4. ASSUME Distinct(<<l>>), NEW a \in Ink(l) \cap (1 .. m), NEW b \in Ink(l) \cap (m + 1 .. m + w)
      PROVE  l[a] # l[b]
  <2>1. 1 \in DOMAIN <<l>> /\ <<l>>[1] = l
    OBVIOUS
  <2>2. l[a] = l[b] => a = b
    BY <1>4, <2>1 DEF Distinct
  <2>3. \A x \in 1 .. m, y \in m + 1 .. m + w : x # y
    OBVIOUS
  <2>4. a # b
    BY <2>3
  <2>5. QED
    BY <2>2, <2>4
<1>5. Distinct(<<l>>) => Before(l, m) \cap next = {}
  BY <1>4 DEF Before
<1>6. QED
  BY <1>2, <1>3, <1>5

\* The pieces of a long line have its ink, each character once.
LEMMA PiecesInk ==
  ASSUME options \in Options, NEW cs \in Seq(Fitting), NEW l \in Seq(Chars), NEW n \in Nat
  PROVE  /\ Inks(Pieces(cs, l, n)) = Inks(cs) \cup LineInk(l)
         /\ Distinct(<<l>>) /\ Apart(cs) /\ Inks(cs) \cap LineInk(l) = {}
              => Apart(Pieces(cs, l, n))
<1> DEFINE M == MaxChunkChars
           free == Distinct(<<l>>) /\ Apart(cs) /\ Inks(cs) \cap LineInk(l) = {}
<1>1. ASSUME NEW i \in Nat \ {0}
      PROVE  <<Piece(l, i)>> \in Texts /\ Length(Trim(<<Piece(l, i)>>)) <= MaxChunkChars
  BY PieceIs
<1>2. ASSUME NEW i \in Nat \ {0}, NEW acc \in Seq(Fitting)
      PROVE  Pushed(acc, <<Piece(l, i)>>, n, n) \in Seq(Fitting)
  <2>1. n <= n
    OBVIOUS
  <2>2. QED
    BY <1>1, <2>1, PushedIs
<1>3. PICK f : Cuts(f, cs, l, n)
  <2> DEFINE A == Seq(Fitting)
  <2>1. cs \in A /\ \A i \in Nat \ {0}, acc \in A : Pushed(acc, <<Piece(l, i)>>, n, n) \in A
    BY <1>2
  <2> HIDE DEF A
  <2>2. QED
    BY <2>1, PiecesFold
<1>4. M \in Nat \ {0} /\ Count(l) \in Nat /\ Count(l) * M \in Nat /\ Count(l) * M >= Len(l)
      /\ Len(l) \in Nat
  BY OptionsAre, CountIs
<1> DEFINE good(k) == /\ f[k] \in Seq(Fitting)
                      /\ Inks(f[k]) = Inks(cs) \cup Before(l, k * M)
                      /\ free => Apart(f[k])
           done == {k \in Nat : k <= Count(l) => good(k)}
<1>5. 0 \in done
  <2>1. 0 * M = 0 /\ 1 .. 0 = {}
    BY <1>4
  <2>2. Before(l, 0 * M) = {}
    BY <2>1 DEF Before
  <2>3. good(0)
    BY <1>3, <2>2 DEF Cuts
  <2>4. QED
    BY <2>3
<1>6. ASSUME NEW k \in done PROVE k + 1 \in done
  <2> HIDE DEF good, free
  <2>1. SUFFICES ASSUME k + 1 <= Count(l) PROVE good(k + 1)
    OBVIOUS
  <2>2. k \in Nat /\ k \in 0 .. Count(l) - 1 /\ k + 1 \in Nat \ {0} /\ k + 1 - 1 = k /\ good(k)
    BY <1>4, <2>1
  <2>3. PICK m \in Nat : m = k * M
    BY <1>4, <2>2
  <2> DEFINE p == Piece(l, k + 1)
             next == {l[c] : c \in Ink(l) \cap (m + 1 .. m + M)}
  <2>4. (k + 1) * M = m + M /\ LineInk(p) = next
    <3>1. m = (k + 1 - 1) * MaxChunkChars
      BY <2>2, <2>3
    <3> DEFINE i == k + 1
    <3>2. i \in Nat \ {0} /\ m = (i - 1) * MaxChunkChars
      BY <2>2, <3>1
    <3> HIDE DEF i
    <3>3. /\ i * MaxChunkChars = m + MaxChunkChars
          /\ LineInk(Piece(l, i)) = {l[c] : c \in Ink(l) \cap (m + 1 .. m + MaxChunkChars)}
      BY <3>2, PieceInk
    <3>4. QED
      BY <3>3 DEF i
  <2>5. f[k + 1] = Pushed(f[k], <<p>>, n, n)
    BY <1>3, <2>2 DEF Cuts
  <2>6. TextInk(<<p>>) = next
    BY <2>4, OneLineInk
  <2>7. /\ Before(l, m) \cup next = Before(l, m + M) /\ next \subseteq LineInk(l)
        /\ Distinct(<<l>>) => Before(l, m) \cap next = {}
    BY <1>4, BeforeJoins
  <2>8. <<p>> \in Texts /\ Length(Trim(<<p>>)) <= MaxChunkChars /\ n <= n
    BY <1>1, <2>2
  <2> HIDE DEF p, next
  <2>9. /\ f[k] \in Seq(Fitting) /\ Inks(f[k]) = Inks(cs) \cup Before(l, m)
        /\ free => Apart(f[k])
    BY <2>2, <2>3 DEF good
  <2>10. /\ Inks(f[k + 1]) = Inks(f[k]) \cup next
         /\ Apart(f[k]) /\ Inks(f[k]) \cap next = {} => Apart(f[k + 1])
    BY <2>5, <2>6, <2>8, <2>9, PushedInk
  <2>11. free => Inks(f[k]) \cap next = {}
    BY <2>7, <2>9 DEF free
  <2>12. Inks(f[k + 1]) = Inks(cs) \cup Before(l, (k + 1) * M)
    BY <2>4, <2>7, <2>9, <2>10
  <2>13. f[k + 1] \in Seq(Fitting)
    BY <2>5, <2>8, <2>9, PushedIs
  <2>14. QED
    BY <2>9, <2>10, <2>11, <2>12, <2>13 DEF good
<1>7. good(Count(l))
  <2> HIDE DEF good
  <2>1. Count(l) \in done
    <3> HIDE DEF done
    <3>1. QED
      BY <1>4, <1>5, <1>6, Induct
  <2>2. QED
    BY <1>4, <2>1
<1>8. Before(l, Count(l) * M) = LineInk(l)
  <2>1. Ink(l) \subseteq 1 .. Len(l)
    BY InkIs
  <2> DEFINE b == Count(l) * M
  <2>2. \A c \in 1 .. Len(l) : c \in 1 .. b
    <3>1. b \in Nat /\ b >= Len(l)
      BY <1>4
    <3> HIDE DEF b
    <3>2. QED
      BY <1>4, <3>1
  <2> HIDE DEF b
  <2>3. Ink(l) \cap (1 .. b) = Ink(l)
    BY <2>1, <2>2
  <2>4. Before(l, b) = LineInk(l)
    BY <2>3 DEF Before, LineInk
  <2>5. QED
    BY <2>4 DEF b
<1>9. QED
  BY <1>3, <1>7, <1>8 DEF Cuts

-----------------------------------------------------------------------------
(* The loop over the lines of a call.                                      *)

\* Without an overlap.
Once == WindowStep = ChunkLines

\* The ink of the lines from a to b.
Segment(ls, a, b) == UNION {LineInk(ls[i]) : i \in a .. b}

\* The chunks have the ink of the first k lines, without an overlap no other and no
\* character twice.
Filled(ls, cs, k) ==
  /\ Segment(ls, 1, k) \subseteq Inks(cs)
  /\ Once => Inks(cs) \subseteq Segment(ls, 1, k) /\ Apart(cs)

\* How many lines are before the buffer.
Flushing == start + line - Len(buffer.lines)

\* The buffer has the lines up to the one that is next, the chunks all before it.
WindowInv ==
  pc = "windows" =>
    /\ Len(buffer.lines) <= line
    /\ \A i \in 1 .. Len(buffer.lines) : buffer.lines[i] = part.lines[Flushing + i]
    /\ Distinct(part.lines) /\ Filled(part.lines, cut, Flushing)

LEMMA Segments ==
  ASSUME NEW ls \in Texts, Distinct(ls), NEW k \in Nat, NEW m \in k .. Len(ls)
  PROVE  /\ Segment(ls, 1, k) \cup Segment(ls, k + 1, m) = Segment(ls, 1, m)
         /\ Segment(ls, 1, k) \cap Segment(ls, k + 1, m) = {}
<1>1. /\ DOMAIN ls = 1 .. Len(ls) /\ Len(ls) \in Nat /\ m \in Nat
      /\ (1 .. k) \cup (k + 1 .. m) = 1 .. m
  BY DEF Texts
<1>2. ASSUME NEW i \in 1 .. k, NEW j \in k + 1 .. m, NEW x \in LineInk(ls[i])
      PROVE  x \notin LineInk(ls[j])
  <2>1. i # j /\ i \in DOMAIN ls /\ j \in DOMAIN ls
    <3>1. i # j /\ i \in 1 .. Len(ls) /\ j \in 1 .. Len(ls)
      BY <1>1
    <3>2. QED
      BY <1>1, <3>1
  <2>2. SUFFICES ASSUME x \in LineInk(ls[j]) PROVE FALSE
    OBVIOUS
  <2>3. PICK a \in Ink(ls[i]) : x = ls[i][a]
    BY <1>2 DEF LineInk
  <2>4. PICK b \in Ink(ls[j]) : x = ls[j][b]
    BY <2>2 DEF LineInk
  <2>5. QED
    BY <2>1, <2>3, <2>4 DEF Distinct
<1>3. Segment(ls, 1, k) \cup Segment(ls, k + 1, m) = Segment(ls, 1, m)
  BY <1>1 DEF Segment
<1>4. Segment(ls, 1, k) \cap Segment(ls, k + 1, m) = {}
  BY <1>2 DEF Segment
<1>5. QED
  BY <1>3, <1>4

\* The chunks of the next lines.
LEMMA FillsOn ==
  ASSUME NEW ls \in Texts, Distinct(ls), NEW k \in Nat, NEW m \in k .. Len(ls),
         NEW cs, NEW ds, Filled(ls, cs, k),
         Inks(ds) = Inks(cs) \cup Segment(ls, k + 1, m),
         Apart(cs) /\ Inks(cs) \cap Segment(ls, k + 1, m) = {} => Apart(ds)
  PROVE  Filled(ls, ds, m)
<1>1. /\ Segment(ls, 1, k) \cup Segment(ls, k + 1, m) = Segment(ls, 1, m)
      /\ Segment(ls, 1, k) \cap Segment(ls, k + 1, m) = {}
  BY Segments
<1>2. QED
  BY <1>1 DEF Filled

LEMMA BufferIs ==
  ASSUME Well, WindowInv, pc = "windows"
  PROVE  /\ Flushing \in Nat /\ start + line \in Flushing .. Len(part.lines)
         /\ part.lines \in Texts /\ Distinct(part.lines)
         /\ TextInk(buffer.lines) = Segment(part.lines, Flushing + 1, start + line)
         /\ buffer.lines = <<>> => Flushing = start + line
<1>1. /\ start \in Nat /\ line \in Nat /\ buffer.lines \in Texts /\ part.lines \in Texts
      /\ Len(buffer.lines) \in Nat /\ Len(buffer.lines) <= line /\ Distinct(part.lines)
  BY DEF Well, Gathered, WindowInv, Texts
<1>2. start + line <= Len(part.lines) /\ Len(part.lines) \in Nat
  BY <1>1, WindowEndIs DEF Well, Gathered
<1>3. Flushing \in Nat /\ Flushing + Len(buffer.lines) = start + line
  BY <1>1 DEF Flushing
<1>4. TextInk(buffer.lines) = Segment(part.lines, Flushing + 1, start + line)
  <2> DEFINE n == Len(buffer.lines)
             k == Flushing
  <2>1. /\ DOMAIN buffer.lines = 1 .. n
        /\ \A i \in 1 .. n : buffer.lines[i] = part.lines[k + i]
    BY <1>1 DEF Texts, WindowInv
  <2>2. n \in Nat /\ k \in Nat /\ start + line = k + n
    BY <1>1, <1>3
  <2> HIDE DEF n, k
  <2>3. \A i \in 1 .. n : k + i \in k + 1 .. k + n
    BY <2>2
  <2>4. \A j \in k + 1 .. k + n : j - k \in 1 .. n /\ k + (j - k) = j
    BY <2>2
  <2>5. TextInk(buffer.lines) = UNION {LineInk(part.lines[k + i]) : i \in 1 .. n}
    BY <2>1 DEF TextInk
  <2>6. {LineInk(part.lines[k + i]) : i \in 1 .. n} = {LineInk(part.lines[j]) : j \in k + 1 .. k + n}
    BY <2>3, <2>4
  <2>7. QED
    BY <2>2, <2>5, <2>6 DEF Segment, k
<1>5. start + line \in Flushing .. Len(part.lines)
  BY <1>1, <1>2, <1>3
<1>6. buffer.lines = <<>> => Flushing = start + line
  BY <1>1, <1>3
<1>7. QED
  BY <1>1, <1>3, <1>4, <1>5, <1>6

LEMMA FlushFills ==
  ASSUME Well, WindowInv, pc = "windows", NEW last \in Nat, buffer.first <= last,
         buffer.lines # <<>>
  PROVE  Filled(part.lines, Flushed(last), start + line)
<1>1. /\ options \in Options /\ cut \in Seq(Fitting) /\ buffer.lines \in Texts
      /\ buffer.first \in Nat /\ Length(Trim(buffer.lines)) <= MaxChunkChars
  BY DEF Well, Given, Gathered
<1>2. /\ Inks(Flushed(last)) = Inks(cut) \cup TextInk(buffer.lines)
      /\ Apart(cut) /\ Inks(cut) \cap TextInk(buffer.lines) = {} => Apart(Flushed(last))
  BY <1>1, PushedInk DEF Flushed
<1>3. Filled(part.lines, cut, Flushing)
  BY DEF WindowInv
<1> DEFINE ls == part.lines  k == Flushing  m == start + line
<1>4. /\ ls \in Texts /\ Distinct(ls) /\ k \in Nat /\ m \in k .. Len(ls)
      /\ TextInk(buffer.lines) = Segment(ls, k + 1, m)
  BY BufferIs
<1> HIDE DEF ls, k, m
<1>5. /\ Inks(Flushed(last)) = Inks(cut) \cup Segment(ls, k + 1, m)
      /\ Apart(cut) /\ Inks(cut) \cap Segment(ls, k + 1, m) = {} => Apart(Flushed(last))
  BY <1>2, <1>4
<1>6. Filled(ls, cut, k)
  BY <1>3 DEF ls, k
<1>7. Filled(ls, Flushed(last), m)
  BY <1>4, <1>5, <1>6, FillsOn
<1>8. QED
  BY <1>7 DEF ls, m

\* The buffer starts where the chunks end.
LEMMA WindowSays ==
  ASSUME WindowInv, UNCHANGED <<input, part>>,
         pc' = "windows" =>
           /\ Len(buffer'.lines) <= line'
           /\ \A i \in 1 .. Len(buffer'.lines) : buffer'.lines[i] = part.lines[Flushing' + i]
           /\ Distinct(part.lines) /\ Filled(part.lines, cut', Flushing')
  PROVE  WindowInv'
<1>1. Once' = Once /\ part' = part
  BY SameSpans DEF Once
<1>2. Filled(part.lines, cut', Flushing') => Filled(part.lines, cut, Flushing)'
  BY <1>1 DEF Filled
<1>3. QED
  BY <1>1, <1>2 DEF WindowInv

LEMMA NextLineFills ==
  ASSUME Well, WindowInv, NextLine
  PROVE  WindowInv'
<1> DEFINE ls == part.lines
           at == start + line
           l == ls[at + 1]
           number == part.base + start + line
           full == ~ Fits(Append(buffer.lines, l)) /\ buffer.lines # <<>>
           gathered == IF full THEN <<>> ELSE buffer.lines
<1>1. /\ pc = "windows" /\ start + line < WindowEnd
      /\ IF Len(l) > MaxChunkChars
         THEN /\ cut' = Pieces(BeforeLong(number - 1), l, number)
              /\ buffer' = [lines |-> <<>>, first |-> number + 1]
         ELSE /\ cut' = IF full THEN Flushed(number - 1) ELSE cut
              /\ buffer' = [lines |-> Append(gathered, l),
                            first |-> FirstLine(gathered, number)]
      /\ line' = line + 1
      /\ UNCHANGED <<input, mode, pc, sections, part, start, chunks>>
  BY DEF NextLine
<1>2. /\ ls \in Texts /\ part.base \in Nat \ {0} /\ start \in Nat /\ line \in Nat
      /\ buffer.lines \in Texts /\ buffer.first \in Nat /\ options \in Options
      /\ cut \in Seq(Fitting) /\ Len(buffer.lines) \in Nat
  BY DEF Well, Given, Gathered, Texts
<1>3. at \in Nat /\ at + 1 \in 1 .. Len(ls) /\ at + 1 \in at .. Len(ls)
  <2>1. start + line + 1 \in 1 .. Len(ls)
    BY <1>1, LineAhead
  <2>2. at \in Nat /\ start + line + 1 = at + 1 /\ Len(ls) \in Nat
    BY <1>2 DEF Texts
  <2> HIDE DEF at, ls
  <2>3. QED
    BY <2>1, <2>2
<1>4. l \in Seq(Chars)
  BY <1>2, <1>3, ElementOfSeq DEF Texts
<1>5. number \in Nat \ {0} /\ number - 1 \in Nat
  BY <1>2
<1>6. /\ Flushing = at - Len(buffer.lines) /\ Distinct(ls) /\ Filled(ls, cut, Flushing)
      /\ Len(buffer.lines) <= line
      /\ \A i \in 1 .. Len(buffer.lines) : buffer.lines[i] = ls[Flushing + i]
      /\ Flushing \in Nat
      /\ buffer.lines = <<>> => Flushing = at
  <2>1. Flushing \in Nat /\ (buffer.lines = <<>> => Flushing = at)
    <3>1. pc = "windows"
      BY <1>1
    <3>2. QED
      BY <3>1, BufferIs
  <2>2. Flushing = at - Len(buffer.lines)
    BY <1>2 DEF Flushing
  <2>3. /\ Len(buffer.lines) <= line /\ Distinct(ls) /\ Filled(ls, cut, Flushing)
        /\ \A i \in 1 .. Len(buffer.lines) : buffer.lines[i] = ls[Flushing + i]
    BY <1>1 DEF WindowInv
  <2> HIDE DEF ls, at
  <2>4. QED
    BY <2>1, <2>2, <2>3
<1>7. ASSUME buffer.lines # <<>>
      PROVE  Flushed(number - 1) \in Seq(Fitting) /\ Filled(ls, Flushed(number - 1), at)
  <2>1. buffer.first <= number - 1 /\ Length(Trim(buffer.lines)) <= MaxChunkChars
    BY <1>2, <1>5, <1>7 DEF Well, Gathered
  <2> DEFINE last == number - 1
  <2>2. last \in Nat /\ buffer.first <= last
    BY <1>5, <2>1
  <2> HIDE DEF last
  <2>3. Filled(ls, Flushed(last), at)
    BY <1>1, <1>7, <2>2, FlushFills
  <2>4. Flushed(last) \in Seq(Fitting)
    BY <1>2, <2>1, <2>2, PushedIs DEF Flushed
  <2>5. QED
    BY <2>3, <2>4 DEF last
<1>8. /\ part' = part /\ start' = start /\ line' = line + 1 /\ UNCHANGED input
      /\ Flushing' = start' + line' - Len(buffer'.lines)
  BY <1>1 DEF Flushing
<1>9. Distinct(<<l>>)
  <2>1. DOMAIN <<l>> = {1} /\ <<l>>[1] = l /\ at + 1 \in DOMAIN ls
    BY <1>2, <1>3 DEF Texts
  <2> HIDE DEF l
  <2>2. l = ls[at + 1]
    BY DEF l
  <2>3. QED
    BY <1>6, <2>1, <2>2 DEF Distinct
<1> HIDE DEF ls, at, l, number
<1>10. CASE Len(l) > MaxChunkChars
  <2> DEFINE cs == BeforeLong(number - 1)
  <2>1. cs \in Seq(Fitting) /\ Filled(ls, cs, at)
    BY <1>2, <1>6, <1>7 DEF BeforeLong
  <2>2. cut' = Pieces(cs, l, number) /\ buffer' = [lines |-> <<>>, first |-> number + 1]
    BY <1>1, <1>10
  <2> HIDE DEF cs
  <2>3. /\ Inks(cut') = Inks(cs) \cup LineInk(l)
        /\ Apart(cs) /\ Inks(cs) \cap LineInk(l) = {} => Apart(cut')
    BY <1>2, <1>4, <1>5, <1>9, <2>1, <2>2, PiecesInk
  <2>4. LineInk(l) = Segment(ls, at + 1, at + 1)
    <3>1. (at + 1) .. (at + 1) = {at + 1} /\ l = ls[at + 1]
      BY <1>3 DEF l
    <3>2. QED
      BY <3>1 DEF Segment
  <2>5. Filled(ls, cut', at + 1)
    <3> DEFINE m == at + 1
    <3>1. m \in at .. Len(ls) /\ at \in Nat
      BY <1>3
    <3>2. /\ Inks(cut') = Inks(cs) \cup Segment(ls, at + 1, m)
          /\ Apart(cs) /\ Inks(cs) \cap Segment(ls, at + 1, m) = {} => Apart(cut')
      BY <2>3, <2>4
    <3> HIDE DEF m
    <3>3. Filled(ls, cut', m)
      BY <1>2, <1>6, <2>1, <3>1, <3>2, FillsOn
    <3>4. QED
      BY <3>3 DEF m
  <2>6. buffer'.lines = <<>> /\ Len(buffer'.lines) = 0
    BY <2>2
  <2>7. Flushing' = at + 1 /\ Len(buffer'.lines) <= line'
    BY <1>2, <1>8, <2>6 DEF at
  <2>8. \A i \in 1 .. Len(buffer'.lines) : buffer'.lines[i] = ls[Flushing' + i]
    BY <2>6
  <2>9. QED
    BY <1>6, <1>8, <2>5, <2>7, <2>8, WindowSays DEF ls
<1>11. CASE ~ (Len(l) > MaxChunkChars)
  <2>1. /\ cut' = IF full THEN Flushed(number - 1) ELSE cut
        /\ buffer'.lines = Append(gathered, l)
    BY <1>1, <1>11
  <2>2. gathered \in Seq(Seq(Chars)) /\ l \in Seq(Chars) /\ Len(gathered) \in Nat
    BY <1>2, <1>4 DEF Texts
  <2> DEFINE n == Len(gathered)
  <2>3. /\ n \in Nat /\ n <= line /\ n <= at /\ Filled(ls, cut', at - n)
        /\ \A i \in 1 .. n : gathered[i] = ls[at - n + i]
    <3>1. CASE full
      <4>1. gathered = <<>> /\ n = 0 /\ cut' = Flushed(number - 1)
        BY <2>1, <3>1
      <4>2. Filled(ls, cut', at)
        BY <1>7, <3>1, <4>1
      <4>3. QED
        BY <1>2, <1>3, <4>1, <4>2
    <3>2. CASE ~ full
      <4>1. gathered = buffer.lines /\ cut' = cut
        BY <2>1, <3>2
      <4> HIDE DEF gathered, full
      <4>2. n = Len(buffer.lines)
        BY <4>1
      <4>3. n \in Nat /\ n <= line
        BY <1>2, <1>6, <4>2
      <4> HIDE DEF n
      <4>4. at - n = Flushing
        BY <1>6, <4>2
      <4>5. n <= at
        BY <1>2, <4>3 DEF at
      <4>6. QED
        BY <1>6, <4>1, <4>2, <4>3, <4>4, <4>5
    <3>3. QED
      BY <3>1, <3>2
  <2> HIDE DEF gathered, full
  <2>4. /\ Len(buffer'.lines) = n + 1 /\ buffer'.lines[n + 1] = l
        /\ \A i \in 1 .. n : buffer'.lines[i] = gathered[i]
    BY <2>1, <2>2, AppendProperties
  <2> HIDE DEF n
  <2>5. Flushing' = at - n /\ Len(buffer'.lines) <= line'
    <3>1. start' + line' = at + 1
      BY <1>2, <1>8 DEF at
    <3>2. QED
      BY <1>2, <1>3, <1>8, <2>3, <2>4, <3>1
  <2>6. ASSUME NEW i \in 1 .. Len(buffer'.lines)
        PROVE  buffer'.lines[i] = ls[Flushing' + i]
    <3>1. i \in 1 .. n \/ i = n + 1
      BY <2>3, <2>4
    <3>2. CASE i \in 1 .. n
      BY <2>3, <2>4, <2>5, <3>2
    <3>3. CASE i = n + 1
      <4>1. at - n + (n + 1) = at + 1
        BY <1>3, <2>3
      <4>2. QED
        BY <2>4, <2>5, <3>3, <4>1 DEF l
    <3>4. QED
      BY <3>1, <3>2, <3>3
  <2>7. Filled(ls, cut', Flushing')
    BY <2>3, <2>5
  <2>8. QED
    BY <1>6, <1>8, <2>5, <2>6, <2>7, WindowSays DEF ls
<1>12. QED
  BY <1>10, <1>11

LEMMA EndWindowCuts ==
  ASSUME Well, WindowInv, EndWindow
  PROVE  Filled(part.lines, cut', WindowEnd)
<1>1. /\ pc = "windows" /\ start + line = WindowEnd
      /\ cut' = IF buffer.lines = <<>> THEN cut ELSE Flushed(part.base + WindowEnd - 1)
  BY DEF EndWindow
<1>2. CASE buffer.lines = <<>>
  <2>1. Flushing = WindowEnd /\ Filled(part.lines, cut, Flushing)
    BY <1>1, <1>2, BufferIs DEF WindowInv
  <2>2. QED
    BY <1>1, <1>2, <2>1
<1>3. CASE buffer.lines # <<>>
  <2> DEFINE last == part.base + WindowEnd - 1
  <2>1. /\ part.base \in Nat \ {0} /\ start \in Nat /\ line \in Nat /\ buffer.first \in Nat
        /\ WindowEnd \in Nat /\ buffer.first < part.base + start + line
    BY <1>1, <1>3, WindowEndIs DEF Well, Gathered
  <2>2. last \in Nat /\ buffer.first <= last
    <3>1. part.base + start + line = part.base + WindowEnd
      <4>1. \A b, s, i \in Nat : b + s + i = b + (s + i)
        OBVIOUS
      <4>2. QED
        BY <1>1, <2>1, <4>1
    <3>2. \A b \in Nat \ {0}, w, f \in Nat : f < b + w => b + w - 1 \in Nat /\ f <= b + w - 1
      OBVIOUS
    <3>3. QED
      BY <2>1, <3>1, <3>2
  <2>3. cut' = Flushed(last)
    BY <1>1, <1>3
  <2> HIDE DEF last
  <2>4. QED
    BY <1>1, <1>3, <2>2, <2>3, FlushFills
<1>4. QED
  BY <1>2, <1>3

LEMMA EndWindowFills ==
  ASSUME Well, WindowInv, EndWindow
  PROVE  WindowInv'
<1>1. /\ pc = "windows" /\ start + line = WindowEnd
      /\ buffer' = [buffer EXCEPT !.lines = <<>>] /\ line' = 0
      /\ IF WindowEnd >= Len(part.lines)
         THEN pc' = "sections"
         ELSE start' = start + WindowStep /\ UNCHANGED pc
      /\ UNCHANGED <<input, part>>
  BY DEF EndWindow
<1>2. /\ part.lines \in Texts /\ start \in Nat /\ line \in Nat /\ options \in Options
      /\ buffer \in [lines : Texts, first : Nat] /\ Distinct(part.lines)
  BY <1>1 DEF Well, Given, Gathered, WindowInv
<1>3. CASE WindowEnd >= Len(part.lines)
  BY <1>1, <1>3, WindowSays
<1>4. CASE ~ (WindowEnd >= Len(part.lines))
  <2>1. /\ WindowEnd \in Nat /\ Len(part.lines) \in Nat /\ WindowEnd < Len(part.lines)
        /\ WindowEnd = start + ChunkLines /\ WindowStep \in 1 .. ChunkLines /\ ChunkLines \in Nat
    BY <1>1, <1>2, <1>4, WindowEndIs, OptionsAre
  <2>2. start' = start + WindowStep
    BY <1>1, <1>4
  <2>3. start' \in Nat /\ start' <= WindowEnd /\ (Once => start' = WindowEnd)
    BY <1>2, <2>1, <2>2 DEF Once
  <2>4. buffer'.lines = <<>> /\ Len(buffer'.lines) = 0
    BY <1>1, <1>2
  <2>5. Flushing' = start'
    <3>1. Flushing' = start' + line' - Len(buffer'.lines)
      BY DEF Flushing
    <3>2. QED
      BY <1>1, <2>3, <2>4, <3>1
  <2>6. Filled(part.lines, cut', WindowEnd)
    BY EndWindowCuts
  <2>7. Filled(part.lines, cut', start')
    <3>1. \A i \in 1 .. start' : i \in 1 .. WindowEnd
      BY <2>1, <2>3
    <3>2. Segment(part.lines, 1, start') \subseteq Segment(part.lines, 1, WindowEnd)
      BY <3>1 DEF Segment
    <3>3. QED
      BY <2>3, <2>6, <3>2 DEF Filled
  <2>8. \A i \in 1 .. Len(buffer'.lines) : buffer'.lines[i] = part.lines[Flushing' + i]
    BY <2>4
  <2>9. Len(buffer'.lines) <= line'
    BY <1>1, <2>4
  <2>10. QED
    BY <1>1, <1>2, <2>5, <2>7, <2>8, <2>9, WindowSays
<1>5. QED
  BY <1>3, <1>4

\* A call begins with nothing gathered.
LEMMA WindowsFill ==
  ASSUME Given, UNCHANGED input, NEW ls \in Texts, Distinct(ls), NEW base, Windows(ls, base)
  PROVE  WindowInv'
<1>1. /\ part'.lines = ls /\ start' = 0 /\ line' = 0 /\ buffer'.lines = <<>> /\ cut' = <<>>
  BY DEF Windows
<1>2. Len(buffer'.lines) = 0
  BY <1>1
<1>3. Flushing' = 0
  <2>1. Flushing' = start' + line' - Len(buffer'.lines)
    BY DEF Flushing
  <2>2. QED
    BY <1>1, <1>2, <2>1
<1>4. Inks(<<>>) = {} /\ Apart(<<>>) /\ Segment(ls, 1, 0) = {}
  <2>1. 1 .. 0 = {} /\ DOMAIN <<>> = {}
    OBVIOUS
  <2>2. QED
    BY <2>1 DEF Inks, Apart, Segment
<1>5. Filled(part.lines, cut, Flushing)'
  BY <1>1, <1>3, <1>4 DEF Filled
<1>6. QED
  BY <1>1, <1>2, <1>5 DEF WindowInv

-----------------------------------------------------------------------------
(* The sections of the file.                                               *)

\* The ink of a section, of those that are left and of the lines of the call.
SpanInk(s) == UNION {LineInk(Line(n)) : n \in s.first .. s.last}
Left == UNION {SpanInk(s) : s \in sections}
Cutting == IF pc = "windows" THEN TextInk(part.lines) ELSE {}

Disjoint(ss) == \A s, t \in ss : s = t \/ s.last < t.first \/ t.last < s.first

\* The ink that is kept is in the chunks, in the call or in a section that is left; without
\* an overlap it is in one of them only.
FileInv ==
  /\ Disjoint(nodes) /\ Disjoint(sections)
  /\ pc = "split" => chunks = <<>> /\ sections = {}
  /\ pc # "split" => ToKeep \subseteq Inks(chunks) \cup Left \cup Cutting
  /\ pc = "done" => sections = {}
  /\ Left \cap Cutting = {}
  /\ Once => Apart(chunks) /\ Inks(chunks) \cap (Left \cup Cutting) = {}

\* A character knows its line and its place there.
LEMMA InkAt ==
  ASSUME NEW n, NEW c \in Ink(Line(n))
  PROVE  Line(n)[c].at = <<n, c>>
BY DEF Ink, Line

LEMMA SpanLines ==
  ASSUME file \in Seq(LineKinds), NEW s \in Spans
  PROVE  TextInk(LinesOf(s)) = SpanInk(s) /\ Distinct(LinesOf(s))
<1> DEFINE ls == LinesOf(s)
           n == s.last - s.first + 1
<1>1. s.first \in Nat \ {0} /\ s.last \in Nat /\ s.first <= s.last /\ n \in Nat
  BY DEF Spans
<1>2. /\ ls \in Texts /\ DOMAIN ls = 1 .. n
      /\ \A i \in 1 .. n : ls[i] = Line(s.first + i - 1)
  BY <1>1, LinesAre DEF Texts
<1> HIDE DEF ls
<1>3. \A i \in 1 .. n : s.first + i - 1 \in s.first .. s.last
  BY <1>1
<1>4. \A m \in s.first .. s.last : m - s.first + 1 \in 1 .. n /\ s.first + (m - s.first + 1) - 1 = m
  BY <1>1
<1>5. TextInk(ls) = SpanInk(s)
  <2>1. TextInk(ls) \subseteq SpanInk(s)
    BY <1>2, <1>3 DEF TextInk, SpanInk
  <2>2. ASSUME NEW m \in s.first .. s.last PROVE LineInk(Line(m)) \subseteq TextInk(ls)
    <3>1. m - s.first + 1 \in DOMAIN ls /\ ls[m - s.first + 1] = Line(m)
      BY <1>2, <1>4
    <3>2. QED
      BY <3>1 DEF TextInk
  <2>3. QED
    BY <2>1, <2>2 DEF SpanInk
<1>6. ASSUME NEW i \in 1 .. n, NEW k \in 1 .. n, NEW a \in Ink(ls[i]), NEW b \in Ink(ls[k]),
             ls[i][a] = ls[k][b]
      PROVE  i = k /\ a = b
  <2> DEFINE u == s.first + i - 1  v == s.first + k - 1
  <2>1. ls[i] = Line(u) /\ ls[k] = Line(v)
    BY <1>2
  <2> HIDE DEF u, v
  <2>2. ls[i][a].at = <<u, a>> /\ ls[k][b].at = <<v, b>>
    BY <2>1, InkAt
  <2>3. u = v /\ a = b
    BY <1>6, <2>2
  <2>4. i = k
    BY <1>1, <2>3 DEF u, v
  <2>5. QED
    BY <2>3, <2>4
<1>7. Distinct(ls)
  BY <1>2, <1>6 DEF Distinct
<1>8. QED
  BY <1>5, <1>7 DEF ls

LEMMA SpansApart ==
  ASSUME NEW s \in Spans, NEW t \in Spans, s.last < t.first
  PROVE  SpanInk(s) \cap SpanInk(t) = {}
<1>1. SUFFICES ASSUME NEW m \in s.first .. s.last, NEW n \in t.first .. t.last,
                      NEW x \in LineInk(Line(m)), x \in LineInk(Line(n))
               PROVE  FALSE
  BY DEF SpanInk
<1>2. m # n
  <2>1. s.first \in Nat /\ s.last \in Nat /\ t.first \in Nat /\ t.last \in Nat
    BY DEF Spans
  <2>2. QED
    BY <2>1
<1>3. PICK a \in Ink(Line(m)) : x = Line(m)[a]
  BY DEF LineInk
<1>4. PICK b \in Ink(Line(n)) : x = Line(n)[b]
  BY <1>1 DEF LineInk
<1>5. x.at = <<m, a>> /\ x.at = <<n, b>>
  BY <1>3, <1>4, InkAt
<1>6. QED
  BY <1>2, <1>5

\* What a section has, the others have not.
LEMMA SectionInk ==
  ASSUME sections \subseteq Spans, Disjoint(sections), NEW s \in sections
  PROVE  LET rest == UNION {SpanInk(t) : t \in sections \ {s}}
         IN Left = SpanInk(s) \cup rest /\ SpanInk(s) \cap rest = {}
<1> DEFINE rest == UNION {SpanInk(t) : t \in sections \ {s}}
<1>1. Left = SpanInk(s) \cup rest
  BY DEF Left
<1>2. ASSUME NEW t \in sections \ {s} PROVE SpanInk(s) \cap SpanInk(t) = {}
  <2>1. s \in Spans /\ t \in Spans /\ (s.last < t.first \/ t.last < s.first)
    BY DEF Disjoint
  <2>2. CASE s.last < t.first
    BY <2>1, <2>2, SpansApart
  <2>3. CASE t.last < s.first
    BY <2>1, <2>3, SpansApart
  <2>4. QED
    BY <2>1, <2>2, <2>3
<1>3. SpanInk(s) \cap rest = {}
  BY <1>2
<1>4. QED
  BY <1>1, <1>3

LEMMA ToKeepIs ==
  /\ mode = "tree-sitter" => ToKeep = UNION {SpanInk(n) : n \in nodes}
  /\ mode # "tree-sitter" => ToKeep = UNION {LineInk(Line(n)) : n \in Lines}
<1>1. \A n : {x \in Characters(<<Line(n)>>) : x.ink} = LineInk(Line(n))
  BY InkOf, OneLineInk
<1>2. ToKeep = UNION {LineInk(Line(n)) : n \in IF mode = "tree-sitter"
                                               THEN UNION {m.first .. m.last : m \in nodes}
                                               ELSE Lines}
  BY <1>1 DEF ToKeep
<1>3. UNION {LineInk(Line(n)) : n \in UNION {m.first .. m.last : m \in nodes}}
        = UNION {SpanInk(n) : n \in nodes}
  BY DEF SpanInk
<1>4. QED
  BY <1>2, <1>3

\* Sections that start at the lines of a set and end at the first of the lines of E.
Sectioned(starts, E) == {[first |-> n, last |-> Min(E[n])] : n \in starts}

\* A section ends before the next one starts.
Parted(starts, E) ==
  /\ starts \subseteq Lines
  /\ \A n \in starts : E[n] \subseteq n .. Len(file) /\ Len(file) \in E[n]
  /\ \A m, n \in starts : m < n => \E e \in E[m] : e < n

Reaches(starts, E, n) == \E m \in starts : m <= n /\ \A e \in E[m] : n <= e

LEMMA SpansFrom ==
  ASSUME file \in Seq(LineKinds), NEW starts, NEW E, Parted(starts, E)
  PROVE  /\ Disjoint(Sectioned(starts, E))
         /\ \A n \in Lines : Reaches(starts, E, n)
                              => \E s \in Sectioned(starts, E) : n \in s.first .. s.last
<1> DEFINE ss == {[first |-> n, last |-> Min(E[n])] : n \in starts}
<1>0. /\ starts \subseteq Lines
      /\ \A n \in starts : E[n] \subseteq n .. Len(file) /\ Len(file) \in E[n]
      /\ \A m, n \in starts : m < n => \E e \in E[m] : e < n
  BY DEF Parted
<1>1. Lines = 1 .. Len(file) /\ Len(file) \in Nat /\ \A n \in starts : n \in Nat
  <2>1. Lines = 1 .. Len(file) /\ Len(file) \in Nat
    BY DEF Lines
  <2>2. \A n \in Lines : n \in Nat
    BY <2>1
  <2>3. QED
    BY <1>0, <2>1, <2>2
<1>2. ASSUME NEW n \in starts
      PROVE  Min(E[n]) \in E[n] /\ Min(E[n]) \in Nat /\ \A e \in E[n] : Min(E[n]) <= e
  <2>1. E[n] \subseteq Nat /\ E[n] # {}
    <3>1. n \in Nat
      BY <1>1
    <3>2. \A e \in n .. Len(file) : e \in Nat
      BY <1>1, <3>1
    <3>3. QED
      BY <1>0, <3>2
  <2>2. Min(E[n]) \in E[n] /\ \A e \in E[n] : Min(E[n]) <= e
    BY <2>1, MinIs
  <2>3. QED
    BY <2>1, <2>2
<1>3. ASSUME NEW m \in starts, NEW n \in starts, m < n PROVE Min(E[m]) < n
  <2>1. PICK e \in E[m] : e < n
    BY <1>0, <1>3
  <2>2. Min(E[m]) <= e /\ Min(E[m]) \in Nat /\ e \in Nat /\ n \in Nat
    <3>1. m \in Nat /\ n \in Nat
      BY <1>1
    <3>2. e \in Nat
      <4>1. \A x \in m .. Len(file) : x \in Nat
        BY <1>1, <3>1
      <4>2. QED
        BY <1>0, <4>1
    <3>3. QED
      BY <1>2, <3>1, <3>2
  <2>3. QED
    BY <2>1, <2>2
<1>4. Disjoint(ss)
  <2>1. SUFFICES ASSUME NEW m \in starts, NEW n \in starts, m # n
                 PROVE  Min(E[m]) < n \/ Min(E[n]) < m
    BY DEF Disjoint
  <2>2. m < n \/ n < m
    BY <1>1, <2>1
  <2>3. QED
    BY <1>3, <2>2
<1>5. ASSUME NEW n \in Lines, NEW m \in starts, m <= n, \A e \in E[m] : n <= e
      PROVE  \E s \in ss : n \in s.first .. s.last
  <2> DEFINE s == [first |-> m, last |-> Min(E[m])]
  <2>1. s \in ss /\ s.first = m /\ s.last = Min(E[m])
    OBVIOUS
  <2>2. n \in m .. Min(E[m])
    BY <1>1, <1>2, <1>5
  <2>3. QED
    BY <2>1, <2>2
<1>6. QED
  BY <1>4, <1>5 DEF Sectioned, Reaches

LEMMA MarkdownCovers ==
  ASSUME file \in Seq(LineKinds), file # <<>>
  PROVE  /\ Disjoint(MarkdownSections)
         /\ \A n \in Lines : LineInk(Line(n)) \subseteq UNION {SpanInk(s) : s \in MarkdownSections}
<1> DEFINE starts == {n \in Lines : n = 1 \/ (file[n].heading /\ ~ InFence(n))}
           E == [n \in starts |-> {m \in n .. Len(file) : m = Len(file) \/ m + 1 \in starts}]
           ss == Sectioned(starts, E)
<1>1. Lines = 1 .. Len(file) /\ Len(file) \in Nat \ {0} /\ starts \subseteq Lines
  BY DEF Lines
<1>2. MarkdownSections = ss
  BY DEF MarkdownSections, Sectioned
<1>3. \A n \in starts : E[n] \subseteq n .. Len(file) /\ Len(file) \in E[n]
  BY <1>1
<1>4. ASSUME NEW m \in starts, NEW n \in starts, m < n
      PROVE  \E e \in E[m] : e < n
  <2>1. n - 1 \in m .. Len(file) /\ n - 1 + 1 = n /\ n - 1 < n
    BY <1>1, <1>4
  <2>2. n - 1 \in E[m]
    BY <2>1
  <2>3. QED
    BY <2>1, <2>2
<1>5. ASSUME NEW n \in Lines
      PROVE  Reaches(starts, E, n)
  <2> DEFINE T == {m \in starts : m <= n}
  <2>1. 1 \in T /\ T \subseteq 1 .. n /\ n \in Nat
    BY <1>1
  <2> HIDE DEF T
  <2>2. PICK m \in T : \A k \in T : k <= m
    BY <2>1, MaxIs
  <2>3. m \in starts /\ m <= n /\ m \in Nat
    BY <1>1, <2>1 DEF T
  <2>4. ASSUME NEW e \in E[m] PROVE n <= e
    <3>1. e \in m .. Len(file) /\ (e = Len(file) \/ e + 1 \in starts)
      BY <2>3
    <3>2. CASE e = Len(file)
      BY <1>1, <3>2
    <3>3. CASE e + 1 \in starts
      <4> HIDE DEF starts, E
      <4>1. e + 1 > m /\ e \in Nat
        BY <2>3, <3>1
      <4>2. ~ (e + 1 <= n)
        <5>1. e + 1 <= n => e + 1 \in T
          BY <3>3 DEF T
        <5>2. QED
          BY <2>2, <2>3, <4>1, <5>1
      <4>3. QED
        BY <2>1, <4>1, <4>2
    <3>4. QED
      BY <3>1, <3>2, <3>3
  <2>5. QED
    BY <2>3, <2>4 DEF Reaches
<1> HIDE DEF starts, E
<1>6. /\ Disjoint(ss)
      /\ \A n \in Lines : Reaches(starts, E, n) => \E s \in ss : n \in s.first .. s.last
  <2>1. Parted(starts, E)
    BY <1>1, <1>3, <1>4 DEF Parted
  <2>2. QED
    BY <2>1, SpansFrom
<1>7. \A n \in Lines : \E s \in ss : n \in s.first .. s.last
  BY <1>5, <1>6
<1>8. QED
  BY <1>2, <1>6, <1>7 DEF SpanInk

LEMMA ParagraphsCover ==
  ASSUME file \in Seq(LineKinds)
  PROVE  /\ Disjoint(Paragraphs)
         /\ \A n \in Lines : LineInk(Line(n)) \subseteq UNION {SpanInk(s) : s \in Paragraphs}
<1> DEFINE blank(n) == n \notin Lines \/ Blank(Line(n))
           starts == {n \in Lines : ~ blank(n) /\ blank(n - 1)}
           E == [n \in starts |-> {m \in n .. Len(file) : blank(m + 1)}]
           ss == Sectioned(starts, E)
<1>1. Lines = 1 .. Len(file) /\ Len(file) \in Nat /\ starts \subseteq Lines
      /\ \A n \in starts : ~ blank(n) /\ blank(n - 1)
  BY DEF Lines
<1>2. Paragraphs = ss
  BY DEF Paragraphs, Sectioned
<1>3. \A n \in starts : E[n] \subseteq n .. Len(file) /\ Len(file) \in E[n]
  <2>1. blank(Len(file) + 1)
    BY <1>1
  <2> HIDE DEF blank
  <2>2. QED
    BY <1>1, <2>1
<1>4. \A n \in starts : \A e : e \in E[n] <=> e \in n .. Len(file) /\ blank(e + 1)
  OBVIOUS
<1> HIDE DEF starts, E
<1>5. ASSUME NEW m \in starts, NEW n \in starts, m < n
      PROVE  \E e \in E[m] : e < n
  <2>1. ~ blank(m) /\ blank(n - 1)
    BY <1>1
  <2> HIDE DEF blank
  <2>2. m \in Nat /\ n \in Nat /\ m < n - 1 /\ n <= Len(file)
    <3>1. m # n - 1
      BY <2>1
    <3>2. m \in 1 .. Len(file) /\ n \in 1 .. Len(file)
      BY <1>1
    <3>3. QED
      BY <1>1, <1>5, <3>1, <3>2
  <2>3. n - 2 \in m .. Len(file) /\ (n - 2) + 1 = n - 1 /\ n - 2 < n
    BY <1>1, <2>2
  <2>4. n - 2 \in E[m]
    BY <1>4, <2>1, <2>3
  <2>5. QED
    BY <2>3, <2>4
<1>6. ASSUME NEW n \in Lines, ~ blank(n)
      PROVE  Reaches(starts, E, n)
  <2> DEFINE T == {m \in 1 .. n : \A k \in m .. n : ~ blank(k)}
  <2>1. n \in T /\ T \subseteq 1 .. n /\ T \subseteq Nat /\ n \in Nat /\ n <= Len(file)
    <3>1. n \in 1 .. n /\ n .. n = {n} /\ n \in Nat /\ n <= Len(file)
      BY <1>1
    <3> HIDE DEF blank
    <3>2. QED
      BY <1>6, <3>1
  <2>2. PICK m \in T : \A k \in T : m <= k
    <3> HIDE DEF T
    <3>1. QED
      BY <2>1, Least
  <2>3. m \in 1 .. n /\ \A k \in m .. n : ~ blank(k)
    OBVIOUS
  <2>4. blank(m - 1)
    <3>1. CASE m = 1
      BY <1>1, <3>1
    <3>2. CASE m # 1
      <4>1. SUFFICES ASSUME ~ blank(m - 1) PROVE FALSE
        OBVIOUS
      <4> HIDE DEF blank
      <4>2. m - 1 \in 1 .. n /\ \A k \in m - 1 .. n : k = m - 1 \/ k \in m .. n
        BY <2>1, <2>3, <3>2
      <4>3. m - 1 \in T
        BY <2>3, <4>1, <4>2
      <4> HIDE DEF T
      <4>4. m <= m - 1
        BY <2>2, <4>3
      <4>5. QED
        BY <2>1, <2>3, <4>4
    <3>3. QED
      BY <3>1, <3>2
  <2>5. m \in starts
    <3>1. m \in Lines /\ ~ blank(m)
      <4>1. m \in Lines /\ m \in m .. n
        BY <1>1, <2>1, <2>3
      <4> HIDE DEF blank
      <4>2. QED
        BY <2>3, <4>1
    <3> HIDE DEF blank
    <3>2. QED
      BY <2>4, <3>1 DEF starts
  <2>6. ASSUME NEW e \in E[m] PROVE n <= e
    <3> HIDE DEF T
    <3>1. e \in m .. Len(file) /\ blank(e + 1)
      BY <1>4, <2>5
    <3> HIDE DEF blank
    <3>2. ~ (e + 1 \in m .. n)
      BY <2>3, <3>1
    <3>3. QED
      BY <1>1, <2>1, <2>3, <3>1, <3>2
  <2>7. QED
    BY <2>1, <2>3, <2>5, <2>6 DEF Reaches
<1>7. /\ Disjoint(ss)
      /\ \A n \in Lines : Reaches(starts, E, n) => \E s \in ss : n \in s.first .. s.last
  <2>1. Parted(starts, E)
    BY <1>1, <1>3, <1>5 DEF Parted
  <2>2. QED
    BY <2>1, SpansFrom
<1>8. ASSUME NEW n \in Lines
      PROVE  LineInk(Line(n)) \subseteq UNION {SpanInk(s) : s \in ss}
  <2>1. CASE Blank(Line(n))
    BY <2>1, BlankInk
  <2>2. CASE ~ Blank(Line(n))
    <3>1. Reaches(starts, E, n)
      BY <1>6, <2>2
    <3>2. \E s \in ss : n \in s.first .. s.last
      BY <1>7, <3>1
    <3> HIDE DEF ss
    <3>3. QED
      BY <3>2 DEF SpanInk
  <2>3. QED
    BY <2>1, <2>2
<1>9. QED
  BY <1>2, <1>7, <1>8

-----------------------------------------------------------------------------
(* The steps keep what they find.                                          *)

\* What the input alone decides.
LEMMA SameInk ==
  ASSUME UNCHANGED input
  PROVE  /\ Once' = Once /\ Lines' = Lines
         /\ \A s : SpanInk(s)' = SpanInk(s)
         /\ mode' = mode => ToKeep' = ToKeep
BY SameSpans DEF Once, SpanInk, Lines, Line, input, ToKeep, Characters

\* FileInv of the next state, with what is left and what is in the call by name.
LEMMA FileSays ==
  ASSUME FileInv, UNCHANGED <<input, mode>>, pc' # "split",
         NEW left, left = UNION {SpanInk(s) : s \in sections'},
         NEW cutting, cutting = IF pc' = "windows" THEN TextInk(part'.lines) ELSE {},
         Disjoint(sections'), pc' = "done" => sections' = {},
         ToKeep \subseteq Inks(chunks') \cup left \cup cutting,
         left \cap cutting = {},
         Once => Apart(chunks') /\ Inks(chunks') \cap (left \cup cutting) = {}
  PROVE  FileInv'
<1>1. Once' = Once /\ ToKeep' = ToKeep /\ \A s : SpanInk(s)' = SpanInk(s)
  BY SameInk
<1>2. Left' = left
  BY <1>1 DEF Left
<1>3. Cutting' = cutting
  BY DEF Cutting
<1>4. Disjoint(nodes)' /\ Disjoint(sections)'
  BY DEF FileInv, Disjoint, input
<1>5. QED
  BY <1>1, <1>2, <1>3, <1>4 DEF FileInv

LEMMA NoChunks == Inks(<<>>) = {} /\ Apart(<<>>)
<1>1. DOMAIN <<>> = {}
  OBVIOUS
<1>2. QED
  BY <1>1 DEF Inks, Apart

LEMMA InitInk == Init => WindowInv /\ FileInv
<1> SUFFICES ASSUME Init PROVE WindowInv /\ FileInv
  OBVIOUS
<1>1. pc = "split" /\ sections = {} /\ chunks = <<>>
  BY DEF Init
<1>2. Disjoint(nodes)
  <2>1. nodes = {} \/ nodes \in NodeSets
    BY DEF Init
  <2>2. QED
    BY <2>1 DEF NodeSets, Disjoint
<1>3. QED
  BY <1>1, <1>2, NoChunks DEF WindowInv, FileInv, Disjoint, Left, Cutting

LEMMA SplitInk ==
  ASSUME Well, FileInv, Split
  PROVE  WindowInv' /\ FileInv'
<1>1. /\ pc = "split" /\ UNCHANGED <<input, mode, chunks>> /\ chunks' = <<>> /\ sections = {}
      /\ file \in Seq(LineKinds) /\ file # <<>> /\ Given
  BY DEF Split, FileInv, Well, Given
<1>2. Lines = 1 .. Len(file) /\ Len(file) \in Nat /\ 1 <= Len(file)
  BY <1>1 DEF Lines
<1>3. CASE mode = "line-window"
  <2> DEFINE s == [first |-> 1, last |-> Len(file)]
             ls == LinesOf(s)
  <2>1. Windows(ls, 1) /\ sections' = {}
    BY <1>1, <1>3 DEF Split
  <2>2. s \in Spans /\ s.first .. s.last = Lines
    BY <1>2 DEF Spans
  <2> HIDE DEF s
  <2>3. ls \in Texts /\ TextInk(ls) = SpanInk(s) /\ Distinct(ls)
    BY <1>1, <2>2, SpanLines, LinesAre
  <2> HIDE DEF ls
  <2>4. WindowInv'
    BY <1>1, <2>1, <2>3, WindowsFill
  <2>5. ToKeep = TextInk(ls)
    BY <1>3, <2>2, <2>3, ToKeepIs DEF SpanInk
  <2>6. pc' = "windows" /\ part'.lines = ls
    BY <2>1 DEF Windows
  <2> DEFINE left == UNION {SpanInk(t) : t \in sections'}
  <2>7. left = {} /\ Disjoint(sections')
    BY <2>1 DEF Disjoint
  <2>8. /\ pc' # "split" /\ pc' # "done"
        /\ TextInk(ls) = IF pc' = "windows" THEN TextInk(part'.lines) ELSE {}
        /\ Inks(chunks') = {} /\ Apart(chunks')
    BY <1>1, <2>6, NoChunks
  <2>9. FileInv'
    BY <1>1, <2>5, <2>7, <2>8, FileSays
  <2>10. QED
    BY <2>4, <2>9
<1>4. CASE mode # "line-window"
  <2>1. /\ pc' = "sections"
        /\ sections' = CASE mode = "markdown" -> MarkdownSections
                         [] mode = "text" -> Paragraphs
                         [] mode = "tree-sitter" -> nodes
    BY <1>1, <1>4 DEF Split
  <2>2. mode \in {"markdown", "text", "tree-sitter"}
    BY <1>1, <1>4, ChunkerAssumption DEF Given
  <2> DEFINE left == UNION {SpanInk(t) : t \in sections'}
  <2>3. Disjoint(sections') /\ ToKeep \subseteq left
    <3>1. CASE mode = "tree-sitter"
      <4>1. sections' = nodes
        BY <2>1, <3>1
      <4>2. QED
        BY <3>1, <4>1, ToKeepIs DEF FileInv
    <3>2. CASE mode = "markdown"
      <4>1. sections' = MarkdownSections
        BY <2>1, <3>2
      <4>2. QED
        BY <1>1, <3>2, <4>1, ToKeepIs, MarkdownCovers
    <3>3. CASE mode = "text"
      <4>1. sections' = Paragraphs
        BY <2>1, <3>3
      <4>2. QED
        BY <1>1, <3>3, <4>1, ToKeepIs, ParagraphsCover
    <3>4. QED
      BY <2>2, <3>1, <3>2, <3>3
  <2>4. WindowInv'
    BY <2>1 DEF WindowInv
  <2>5. /\ pc' # "split" /\ pc' # "done"
        /\ {} = IF pc' = "windows" THEN TextInk(part'.lines) ELSE {}
        /\ Inks(chunks') = {} /\ Apart(chunks')
        /\ left = UNION {SpanInk(t) : t \in sections'}
    BY <1>1, <2>1, NoChunks
  <2> HIDE DEF left
  <2>6. /\ ToKeep \subseteq Inks(chunks') \cup left \cup {} /\ left \cap {} = {}
        /\ Once => Apart(chunks') /\ Inks(chunks') \cap (left \cup {}) = {}
    BY <2>3, <2>5
  <2>7. FileInv'
    BY <1>1, <2>3, <2>5, <2>6, FileSays
  <2>8. QED
    BY <2>4, <2>7
<1>5. QED
  BY <1>3, <1>4

\* A section or a node becomes a chunk or the call.
LEMMA CutInk ==
  ASSUME Well, WindowInv, FileInv, NEW s \in sections, pc = "sections",
         UNCHANGED <<input, mode>>, sections' = sections \ {s},
         NEW index \in Nat, NEW text, text = Trim(LinesOf(s)),
         IF Length(text) > MaxChunkChars
         THEN Windows(text, s.first) /\ UNCHANGED chunks
         ELSE /\ chunks' = IF text = <<>> THEN chunks ELSE Whole(text, s, index)
              /\ pc' = "sections"
  PROVE  WindowInv' /\ FileInv'
<1> DEFINE rest == UNION {SpanInk(t) : t \in sections \ {s}}
<1>1. /\ file \in Seq(LineKinds) /\ Given /\ s \in Spans /\ sections \subseteq Spans
      /\ chunks \in Seq(Fitting) /\ Disjoint(sections) /\ Disjoint(sections')
  BY DEF Well, Given, FileInv, Disjoint
<1>2. LinesOf(s) \in Texts /\ text \in Texts
  BY <1>1, LinesAre, TrimIs
<1>3. TextInk(text) = SpanInk(s) /\ Distinct(text)
  BY <1>1, <1>2, SpanLines, TrimInk
<1>4. Left = SpanInk(s) \cup rest /\ SpanInk(s) \cap rest = {}
  BY <1>1, SectionInk
<1>5. rest = UNION {SpanInk(t) : t \in sections'}
  OBVIOUS
<1> HIDE DEF rest
<1>6. /\ ToKeep \subseteq Inks(chunks) \cup SpanInk(s) \cup rest
      /\ Once => Apart(chunks) /\ Inks(chunks) \cap (SpanInk(s) \cup rest) = {}
  <2>1. Cutting = {}
    BY DEF Cutting
  <2>2. QED
    BY <1>4, <2>1 DEF FileInv
<1>7. CASE Length(text) > MaxChunkChars
  <2>1. Windows(text, s.first) /\ chunks' = chunks
    BY <1>7
  <2>2. WindowInv'
    BY <1>1, <1>2, <1>3, <2>1, WindowsFill
  <2>3. pc' = "windows" /\ part'.lines = text
    BY <2>1 DEF Windows
  <2>4. /\ pc' # "split" /\ pc' # "done"
        /\ SpanInk(s) = IF pc' = "windows" THEN TextInk(part'.lines) ELSE {}
    BY <1>3, <2>3
  <2>5. /\ ToKeep \subseteq Inks(chunks') \cup rest \cup SpanInk(s)
        /\ rest \cap SpanInk(s) = {}
        /\ Once => Apart(chunks') /\ Inks(chunks') \cap (rest \cup SpanInk(s)) = {}
    BY <1>4, <1>6, <2>1
  <2>6. FileInv'
    BY <1>1, <1>5, <2>4, <2>5, FileSays
  <2>7. QED
    BY <2>2, <2>6
<1>8. CASE ~ (Length(text) > MaxChunkChars)
  <2>1. pc' = "sections" /\ chunks' = IF text = <<>> THEN chunks ELSE Whole(text, s, index)
    BY <1>8
  <2>2. /\ Inks(chunks') = Inks(chunks) \cup SpanInk(s)
        /\ Apart(chunks) /\ Inks(chunks) \cap SpanInk(s) = {} => Apart(chunks')
    <3>1. CASE text = <<>>
      <4>1. SpanInk(s) = {}
        BY <1>3, <3>1 DEF TextInk
      <4>2. QED
        BY <2>1, <3>1, <4>1
    <3>2. CASE text # <<>>
      <4> DEFINE c == [text |-> text, first |-> s.first, last |-> s.last, index |-> index]
                 S == Fitting \cup {c}
      <4>1. chunks' = Append(chunks, c) /\ c.text = text
        BY <2>1, <3>2 DEF Whole
      <4>2. chunks \in Seq(S) /\ c \in S
        BY <1>1
      <4> HIDE DEF c, S
      <4>3. /\ Inks(Append(chunks, c)) = Inks(chunks) \cup TextInk(c.text)
            /\ Apart(chunks) /\ Inks(chunks) \cap TextInk(c.text) = {} => Apart(Append(chunks, c))
        BY <4>2, AppendInk
      <4>4. QED
        BY <1>3, <4>1, <4>3
    <3>3. QED
      BY <3>1, <3>2
  <2>3. WindowInv'
    BY <2>1 DEF WindowInv
  <2>4. /\ pc' # "split" /\ pc' # "done"
        /\ {} = IF pc' = "windows" THEN TextInk(part'.lines) ELSE {}
    BY <2>1
  <2>5. /\ ToKeep \subseteq Inks(chunks') \cup rest \cup {}
        /\ rest \cap {} = {}
        /\ Once => Apart(chunks') /\ Inks(chunks') \cap (rest \cup {}) = {}
    BY <1>4, <1>6, <2>2
  <2>6. FileInv'
    BY <1>1, <1>5, <2>4, <2>5, FileSays
  <2>7. QED
    BY <2>3, <2>6
<1>9. QED
  BY <1>7, <1>8

LEMMA NextSectionInk ==
  ASSUME Well, WindowInv, FileInv, NextSection
  PROVE  WindowInv' /\ FileInv'
<1> DEFINE s == First(sections)
           text == Trim(LinesOf(s))
<1>1. /\ pc = "sections" /\ sections # {} /\ sections' = sections \ {s}
      /\ IF Length(text) > MaxChunkChars
         THEN Windows(text, s.first) /\ UNCHANGED chunks
         ELSE /\ chunks' = IF text = <<>> THEN chunks ELSE Whole(text, s, Len(chunks))
              /\ pc' = "sections"
      /\ UNCHANGED <<input, mode>>
  BY DEF NextSection
<1>2. s \in sections /\ Len(chunks) \in Nat
  BY <1>1, FirstIs DEF Well, Given
<1>3. text = Trim(LinesOf(s))
  OBVIOUS
<1> HIDE DEF s, text
<1>4. QED
  BY <1>1, <1>2, <1>3, CutInk

LEMMA NextNodeInk ==
  ASSUME Well, WindowInv, FileInv, NextNode
  PROVE  WindowInv' /\ FileInv'
<1> DEFINE n == First(sections)
           text == Trim(LinesOf(n))
<1>1. /\ pc = "sections" /\ mode = "tree-sitter" /\ sections # {} /\ sections' = sections \ {n}
      /\ IF Length(text) > MaxChunkChars
         THEN Windows(text, n.first) /\ UNCHANGED chunks
         ELSE chunks' = Whole(text, n, 0) /\ pc' = "sections"
      /\ UNCHANGED <<input, mode>>
  BY DEF NextNode
<1>2. n \in sections /\ n \in Spans /\ ~ Blank(Line(n.first)) /\ file \in Seq(LineKinds)
  BY <1>1, FirstIs DEF Well, Given
<1>3. text # <<>> /\ text = Trim(LinesOf(n))
  <2>1. 1 \in 1 .. n.last - n.first + 1
    BY <1>2 DEF Spans
  <2> HIDE DEF n
  <2>2. /\ LinesOf(n) \in Texts /\ 1 \in 1 .. Len(LinesOf(n))
        /\ LinesOf(n)[1] = Line(n.first + 1 - 1)
    BY <1>2, <2>1, LinesAre
  <2>3. n.first + 1 - 1 = n.first
    BY <1>2 DEF Spans
  <2>4. QED
    BY <1>2, <2>2, <2>3, TrimIs
<1> HIDE DEF n, text
<1>4. 0 \in Nat /\ IF Length(text) > MaxChunkChars
                   THEN Windows(text, n.first) /\ UNCHANGED chunks
                   ELSE /\ chunks' = IF text = <<>> THEN chunks ELSE Whole(text, n, 0)
                        /\ pc' = "sections"
  BY <1>1, <1>3
<1>5. QED
  BY <1>1, <1>2, <1>3, <1>4, CutInk

\* A step that leaves the chunks of the file, the sections and the lines of the call.
LEMMA SameFile ==
  ASSUME FileInv, UNCHANGED <<input, mode, pc, sections, part, chunks>>
  PROVE  FileInv'
<1>1. Once' = Once /\ ToKeep' = ToKeep /\ \A s : SpanInk(s)' = SpanInk(s)
  BY SameInk
<1>2. Left' = Left /\ Cutting' = Cutting
  BY <1>1 DEF Left, Cutting
<1>3. Disjoint(nodes)' /\ Disjoint(sections)'
  BY DEF FileInv, Disjoint, input
<1>4. QED
  BY <1>1, <1>2, <1>3 DEF FileInv

\* The last window of a call: what was cut follows the chunks of the file.
LEMMA EndWindowInk ==
  ASSUME Well, WindowInv, FileInv, EndWindow
  PROVE  FileInv'
<1>1. /\ pc = "windows" /\ start + line = WindowEnd
      /\ IF WindowEnd >= Len(part.lines)
         THEN pc' = "sections" /\ chunks' = chunks \o cut'
         ELSE UNCHANGED <<pc, chunks>>
      /\ UNCHANGED <<input, mode, sections, part>>
  BY DEF EndWindow
<1>2. CASE ~ (WindowEnd >= Len(part.lines))
  BY <1>1, <1>2, SameFile
<1>3. CASE WindowEnd >= Len(part.lines)
  <2> DEFINE ls == part.lines
  <2>1. /\ pc' = "sections" /\ chunks' = chunks \o cut'
        /\ chunks \in Seq(Fitting) /\ cut' \in Seq(Fitting)
    <3>1. Well' /\ Fitting' = Fitting
      BY <1>1, EndWindowKeeps, SameSpans
    <3>2. QED
      BY <1>1, <1>3, <3>1 DEF Well
  <2>2. /\ Inks(chunks') = Inks(chunks) \cup Inks(cut')
        /\ Apart(chunks) /\ Apart(cut') /\ Inks(chunks) \cap Inks(cut') = {} => Apart(chunks')
    BY <2>1, ConcatInk
  <2>3. ls \in Texts /\ WindowEnd = Len(ls)
    <3>1. ls \in Texts
      BY DEF Well, Gathered
    <3>2. WindowEnd \in Nat /\ Len(ls) \in Nat /\ WindowEnd <= Len(ls) /\ WindowEnd >= Len(ls)
      BY <1>1, <1>3, WindowEndIs
    <3>3. QED
      BY <3>1, <3>2
  <2>4. Filled(ls, cut', Len(ls))
    BY <2>3, EndWindowCuts
  <2>5. Segment(ls, 1, Len(ls)) = TextInk(ls) /\ Cutting = TextInk(ls)
    <3>1. DOMAIN ls = 1 .. Len(ls)
      BY <2>3 DEF Texts
    <3>2. QED
      BY <1>1, <3>1 DEF Segment, TextInk, Cutting
  <2> HIDE DEF ls
  <2>6. /\ Cutting \subseteq Inks(cut')
        /\ Once => Inks(cut') \subseteq Cutting /\ Apart(cut')
    BY <2>4, <2>5 DEF Filled
  <2>7. /\ ToKeep \subseteq Inks(chunks) \cup Left \cup Cutting /\ Left \cap Cutting = {}
        /\ Once => Apart(chunks) /\ Inks(chunks) \cap (Left \cup Cutting) = {}
        /\ Disjoint(sections')
    BY <1>1 DEF FileInv, Disjoint
  <2>8. /\ ToKeep \subseteq Inks(chunks') \cup Left \cup {} /\ Left \cap {} = {}
        /\ Once => Apart(chunks') /\ Inks(chunks') \cap (Left \cup {}) = {}
    BY <2>2, <2>6, <2>7
  <2>9. /\ pc' # "split" /\ pc' # "done"
        /\ {} = IF pc' = "windows" THEN TextInk(part'.lines) ELSE {}
        /\ Left = UNION {SpanInk(s) : s \in sections'}
    BY <1>1, <2>1 DEF Left
  <2>10. QED
    BY <1>1, <2>7, <2>8, <2>9, FileSays
<1>4. QED
  BY <1>2, <1>3

LEMMA FinishInk ==
  ASSUME Well, FileInv, Finish
  PROVE  WindowInv' /\ FileInv'
<1>1. /\ pc = "sections" /\ sections = {} /\ UNCHANGED <<input, sections>>
      /\ \/ pc' = "split" /\ chunks' = chunks /\ chunks = <<>>
         \/ pc' = "done" /\ chunks' = Reindexed(chunks) /\ mode' = mode
  BY DEF Finish
<1>2. WindowInv'
  BY <1>1 DEF WindowInv
<1>3. CASE pc' = "split" /\ chunks' = chunks /\ chunks = <<>>
  <2>1. Disjoint(nodes)' /\ Disjoint(sections)'
    BY <1>1 DEF FileInv, Disjoint, input
  <2>2. Left' = {} /\ Cutting' = {} /\ chunks' = <<>> /\ sections' = {} /\ pc' = "split"
    BY <1>1, <1>3 DEF Left, Cutting
  <2>3. Inks(chunks)' = {} /\ Apart(chunks)'
    BY <2>2, NoChunks
  <2>4. QED
    BY <1>2, <2>1, <2>2, <2>3 DEF FileInv
<1>4. CASE pc' = "done" /\ chunks' = Reindexed(chunks) /\ mode' = mode
  <2>1. DOMAIN chunks' = DOMAIN chunks /\ \A i \in DOMAIN chunks : chunks'[i].text = chunks[i].text
    <3>1. \A i \in DOMAIN chunks : chunks[i] \in Fitting
      BY DEF Well
    <3>2. \A c \in Fitting : \A k : [c EXCEPT !.index = k].text = c.text
      BY DEF Fitting
    <3>3. QED
      BY <1>4, <3>1, <3>2 DEF Reindexed
  <2>2. Inks(chunks') = Inks(chunks) /\ (Apart(chunks) => Apart(chunks'))
    BY <2>1 DEF Inks, Apart
  <2>3. Left = {} /\ Cutting = {} /\ Disjoint(sections')
    BY <1>1 DEF Left, Cutting, Disjoint
  <2>4. /\ ToKeep \subseteq Inks(chunks') \cup {} \cup {}
        /\ Once => Apart(chunks') /\ Inks(chunks') \cap ({} \cup {}) = {}
    BY <1>1, <2>2, <2>3 DEF FileInv
  <2>5. /\ pc' # "split" /\ sections' = {}
        /\ {} = UNION {SpanInk(s) : s \in sections'}
        /\ {} = IF pc' = "windows" THEN TextInk(part'.lines) ELSE {}
    BY <1>1, <1>4
  <2>6. FileInv'
    BY <1>1, <1>4, <2>3, <2>4, <2>5, FileSays
  <2>7. QED
    BY <1>2, <2>6
<1>5. QED
  BY <1>1, <1>3, <1>4

\* The inductive invariant of NothingLost.
Keeps == Well /\ WindowInv /\ FileInv

LEMMA NextKeepsInk == Keeps /\ [Next]_vars => Keeps'
<1> SUFFICES ASSUME Well, WindowInv, FileInv, [Next]_vars PROVE WindowInv' /\ FileInv'
  BY NextWell DEF Keeps
<1>1. CASE Split
  BY <1>1, SplitInk
<1>2. CASE NextSection
  BY <1>2, NextSectionInk
<1>3. CASE NextNode
  BY <1>3, NextNodeInk
<1>4. CASE NextLine
  <2>1. UNCHANGED <<input, mode, pc, sections, part, chunks>>
    BY <1>4 DEF NextLine
  <2>2. QED
    BY <1>4, <2>1, NextLineFills, SameFile
<1>5. CASE EndWindow
  BY <1>5, EndWindowFills, EndWindowInk
<1>6. CASE Finish
  BY <1>6, FinishInk
<1>7. CASE UNCHANGED vars
  <2>1. UNCHANGED <<input, mode, pc, sections, part, start, line, buffer, cut, chunks>>
    BY <1>7 DEF vars, input
  <2>2. WindowInv'
    <3>1. Flushing' = Flushing /\ Once' = Once
      BY <2>1, SameInk DEF Flushing
    <3>2. QED
      BY <2>1, <3>1 DEF WindowInv, Filled
  <2>3. FileInv'
    BY <2>1, SameFile
  <2>4. QED
    BY <2>2, <2>3
<1>8. QED
  BY <1>1, <1>2, <1>3, <1>4, <1>5, <1>6, <1>7 DEF Next

LEMMA KeepsHold == Spec => []Keeps
<1>1. Init => Keeps
  BY InitWell, InitInk DEF Keeps
<1>2. QED
  BY <1>1, NextKeepsInk, PTL DEF Spec

LEMMA KeepsAll == Keeps => NothingLost
<1> SUFFICES ASSUME Well, FileInv, pc = "done", NEW x \in ToKeep
             PROVE  /\ Holders(x) # {}
                    /\ WindowStep = ChunkLines => Cardinality(Holders(x)) = 1
  BY DEF Keeps, NothingLost
<1>1. Left = {} /\ Cutting = {}
  BY DEF FileInv, Left, Cutting
<1>2. x \in Inks(chunks) /\ (Once => Apart(chunks))
  BY <1>1 DEF FileInv
<1>3. x.ink
  BY DEF ToKeep
<1>4. \A i \in DOMAIN chunks : i \in Holders(x) <=> x \in TextInk(chunks[i].text)
  BY <1>3, InkOf DEF Holders
<1>5. PICK i \in DOMAIN chunks : x \in TextInk(chunks[i].text)
  BY <1>2 DEF Inks
<1>6. i \in Holders(x)
  BY <1>4, <1>5
<1>7. ASSUME WindowStep = ChunkLines PROVE Cardinality(Holders(x)) = 1
  <2>1. Apart(chunks)
    BY <1>2, <1>7 DEF Once
  <2>2. \A j \in Holders(x) : j \in DOMAIN chunks /\ x \in TextInk(chunks[j].text)
    BY <1>4 DEF Holders
  <2>3. \A j \in Holders(x) : j = i
    BY <1>5, <2>1, <2>2 DEF Apart
  <2>4. Holders(x) = {i}
    BY <1>6, <2>3
  <2>5. QED
    BY <2>4, FS_Singleton
<1>8. QED
  BY <1>6, <1>7

\* Every character that is not blank ends up in a chunk, and in one only when windows do
\* not overlap, through sections, trimming, windows, flushed buffers and the pieces of long
\* lines (chunkMarkdownFile, chunkParagraphTextFile, pushBoundedLineChunks, pushChunk).
THEOREM TextIsKept == Spec => []NothingLost
  BY KeepsHold, KeepsAll, PTL
=============================================================================
