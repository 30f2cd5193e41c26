---------------------------- MODULE WildcardProofs ----------------------------
(***************************************************************************)
(* Proofs about module Wildcard, for every set of letters and patterns and *)
(* inputs of every length.                                                 *)
(*                                                                         *)
(* Regular expressions and strings.Split are compared position by          *)
(* position: after the pieces of k segments the matcher can be exactly at  *)
(* those positions of the input whose first k segments agree with the      *)
(* pattern.  The inductions are over the length of a literal, of the       *)
(* input and of the pattern.                                               *)
(***************************************************************************)
EXTENDS Wildcard, WellFoundedInduction, SequenceTheorems, TLAPS

(* Induction over the natural numbers, for a set of them. *)
LEMMA NatInd ==
    ASSUME NEW T \in SUBSET Nat, 0 \in T, \A n \in T : n + 1 \in T
    PROVE  T = Nat
<1> DEFINE Bad == Nat \ T
<1> SUFFICES ASSUME Bad # {} PROVE FALSE
  BY Zenon
<1>1. PICK x \in Bad : \A y \in Bad : ~(<<y, x>> \in OpToRel(<, Nat))
  <2>1. Bad \subseteq Nat
    OBVIOUS
  <2> HIDE DEF Bad
  <2> QED
    BY <2>1, NatLessThanWellFounded, WFMin
<1>2. \A y \in Bad : ~(y < x)
  BY <1>1, Zenon DEF OpToRel
<1>3. x # 0 /\ x - 1 \in Nat /\ x - 1 < x
  OBVIOUS
<1> QED
  BY <1>2, <1>3

(* The function a LET with a recursive function chooses. *)
Recurrence(g, n, S, base, step) ==
    /\ g \in [0 .. n -> S]
    /\ g[0] = base
    /\ \A i \in 1 .. n : g[i] = step[<<i, g[i - 1]>>]

(* A recurrence over 0 .. n has a solution. *)
LEMMA RecursionExists ==
    ASSUME NEW n \in Nat, NEW S, NEW base \in S, NEW step \in [(1 .. n) \X S -> S]
    PROVE  \E g : Recurrence(g, n, S, base, step)
<1> DEFINE Upto(m) == \E g \in [0 .. m -> S] :
                         /\ g[0] = base
                         /\ \A i \in 1 .. m : g[i] = step[<<i, g[i - 1]>>]
           T == {m \in Nat : m <= n => Upto(m)}
<1>1. 0 \in T
  <2> DEFINE h == [i \in 0 .. 0 |-> base]
  <2>1. h \in [0 .. 0 -> S] /\ h[0] = base /\ 1 .. 0 = {}
    OBVIOUS
  <2>2. Upto(0)
    <3> HIDE DEF h
    <3> QED
      BY <2>1
  <2> QED
    BY <2>2
<1>2. ASSUME NEW m \in T PROVE m + 1 \in T
  <2> SUFFICES ASSUME m + 1 <= n PROVE Upto(m + 1)
    OBVIOUS
  <2>1. PICK g \in [0 .. m -> S] :
             /\ g[0] = base
             /\ \A i \in 1 .. m : g[i] = step[<<i, g[i - 1]>>]
    BY <1>2
  <2> DEFINE h == [i \in 0 .. m + 1 |->
                     IF i = m + 1 THEN step[<<m + 1, g[m]>>] ELSE g[i]]
  <2>2. h \in [0 .. m + 1 -> S]
    BY <2>1
  <2>3. h[0] = base
    BY <2>1
  <2>4. ASSUME NEW i \in 1 .. m + 1 PROVE h[i] = step[<<i, h[i - 1]>>]
    <3>1. CASE i = m + 1
      <4>1. i - 1 = m /\ m \in 0 .. m + 1 /\ m # m + 1 /\ i \in 0 .. m + 1
        BY <3>1
      <4>2. h[i] = step[<<i, g[m]>>] /\ h[m] = g[m]
        BY <3>1, <4>1
      <4> QED
        BY <4>1, <4>2, Zenon
    <3>2. CASE i # m + 1
      <4>1. i \in 1 .. m /\ i - 1 \in 0 .. m + 1 /\ i - 1 # m + 1 /\ i \in 0 .. m + 1
        BY <3>2
      <4>2. h[i] = g[i] /\ h[i - 1] = g[i - 1]
        BY <4>1
      <4> QED
        BY <2>1, <4>1, <4>2
    <3> QED
      BY <3>1, <3>2
  <2> HIDE DEF h
  <2> QED
    BY <2>2, <2>3, <2>4
<1>3. T = Nat
  <2>1. T \in SUBSET Nat
    OBVIOUS
  <2> HIDE DEF T
  <2> QED
    BY <1>1, <1>2, <2>1, NatInd
<1>4. Upto(n)
  <2> HIDE DEF Upto
  <2> QED
    BY <1>3
<1> QED
  BY <1>4 DEF Recurrence

(* Two functions that go on in the same way. *)
InStep(g, h, n) ==
    /\ g[0] = h[0]
    /\ \A i \in 1 .. n : g[i - 1] = h[i - 1] => g[i] = h[i]
Same(g, h, n) == \A i \in 0 .. n : g[i] = h[i]

(* Two functions that obey the same recurrence are the same. *)
LEMMA RecursionUnique ==
    ASSUME NEW n \in Nat, NEW g, NEW h, InStep(g, h, n)
    PROVE  Same(g, h, n)
<1> USE DEF InStep, Same
<1> DEFINE T == {m \in Nat : m <= n => g[m] = h[m]}
<1>1. 0 \in T
  OBVIOUS
<1>2. ASSUME NEW m \in T PROVE m + 1 \in T
  <2> SUFFICES ASSUME m + 1 <= n PROVE g[m + 1] = h[m + 1]
    OBVIOUS
  <2>1. m + 1 \in 1 .. n /\ (m + 1) - 1 = m /\ g[m] = h[m]
    BY <1>2
  <2> QED
    BY <2>1
<1>3. T = Nat
  <2>1. T \in SUBSET Nat
    OBVIOUS
  <2> HIDE DEF T
  <2> QED
    BY <1>1, <1>2, <2>1, NatInd
<1> QED
  BY <1>3

(* Something that was appended to is not empty. *)
LEMMA AppendNotEmpty ==
    ASSUME NEW S, NEW w \in Seq(S), NEW c \in S
    PROVE  Append(w, c) # <<>>
<1>1. Len(Append(w, c)) = Len(w) + 1 /\ Len(w) \in Nat
  BY AppendProperties
<1>2. Len(Append(w, c)) # 0
  BY <1>1
<1>3. Len(<<>>) = 0
  OBVIOUS
<1> QED
  BY <1>2, <1>3, Zenon

(* Append is injective. *)
LEMMA AppendSame ==
    ASSUME NEW S, NEW v \in Seq(S), NEW w \in Seq(S), NEW b \in S, NEW c \in S
    PROVE  Append(v, b) = Append(w, c) <=> v = w /\ b = c
BY AppendInjective

(* The runes of patterns, those of inputs among them, and what             *)
(* strings.Split makes of them.                                            *)
Symbols == Runes \cup {"*"}
Segments == {segs \in Seq(Seq(Symbols \ {Separator})) : Len(segs) >= 1}

(* What one more rune does to the segments. *)
Grows(before, r, after) ==
    LET n == Len(before) IN
    /\ n \in Nat /\ n >= 1
    /\ r = Separator =>
          /\ Len(after) = n + 1
          /\ after[n + 1] = <<>>
          /\ \A i \in 1 .. n : after[i] = before[i]
    /\ r # Separator =>
          /\ Len(after) = n
          /\ after[n] = Append(before[n], r)
          /\ \A i \in 1 .. n - 1 : after[i] = before[i]

(* No rune changes the segments before the last. *)
LEMMA GrowsKeeps ==
    ASSUME NEW a, NEW r, NEW b, Grows(a, r, b)
    PROVE  /\ Len(a) \in Nat /\ Len(a) >= 1 /\ Len(b) \in Nat /\ Len(a) <= Len(b)
           /\ \A i \in 1 .. Len(a) - 1 : b[i] = a[i]
<1> DEFINE n == Len(a)
<1>1. n \in Nat /\ n >= 1
  BY DEF Grows
<1>2. CASE r = Separator
  <2>1. Len(b) = n + 1 /\ \A i \in 1 .. n : b[i] = a[i]
    BY <1>2 DEF Grows
  <2> HIDE DEF n
  <2>2. /\ Len(b) \in Nat /\ n <= Len(b)
        /\ \A i \in 1 .. n - 1 : b[i] = a[i]
    BY <1>1, <2>1
  <2> QED
    BY <1>1, <2>2 DEF n
<1>3. CASE r # Separator
  BY <1>1, <1>3 DEF Grows
<1> QED
  BY <1>2, <1>3

(* Cut takes segments to segments and does what Grows says. *)
LEMMA CutFacts ==
    ASSUME NEW segs \in Segments, NEW r \in Symbols
    PROVE  Cut(segs, r) \in Segments /\ Grows(segs, r, Cut(segs, r))
<1> USE DEF Grows
<1> DEFINE X == Symbols \ {Separator}
<1>1. segs \in Seq(Seq(X)) /\ Len(segs) \in Nat /\ Len(segs) >= 1
  BY DEF Segments
<1>2. CASE r = Separator
  <2>1. Cut(segs, r) = Append(segs, <<>>)
    BY <1>2 DEF Cut
  <2>2. <<>> \in Seq(X)
    OBVIOUS
  <2> HIDE DEF X
  <2>3. /\ Cut(segs, r) \in Seq(Seq(X))
        /\ Len(Cut(segs, r)) = Len(segs) + 1
        /\ Cut(segs, r)[Len(segs) + 1] = <<>>
        /\ \A i \in 1 .. Len(segs) : Cut(segs, r)[i] = segs[i]
    BY <1>1, <2>1, <2>2, AppendProperties
  <2> QED
    BY <1>1, <1>2, <2>3 DEF Segments, X
<1>3. CASE r # Separator
  <2> DEFINE n == Len(segs)
             e == Append(segs[n], r)
  <2>0. n \in 1 .. Len(segs)
    BY <1>1
  <2>1. Cut(segs, r) = [segs EXCEPT ![n] = e]
    BY <1>3, <2>0 DEF Cut
  <2>2. e \in Seq(X)
    <3>1. segs[n] \in Seq(X)
      BY <1>1, <2>0, ElementOfSeq
    <3>2. r \in X
      BY <1>3
    <3> HIDE DEF X
    <3> QED
      BY <3>1, <3>2, AppendProperties
  <2> HIDE DEF X, e
  <2>3. /\ [segs EXCEPT ![n] = e] \in Seq(Seq(X))
        /\ Len([segs EXCEPT ![n] = e]) = n
        /\ \A j \in 1 .. n : [segs EXCEPT ![n] = e][j] = IF j = n THEN e ELSE segs[j]
    <3> DEFINE Y == Seq(X)
    <3>1. segs \in Seq(Y) /\ e \in Y /\ n \in 1 .. Len(segs)
      BY <1>1, <2>0, <2>2
    <3> HIDE DEF Y
    <3>2. /\ [segs EXCEPT ![n] = e] \in Seq(Y)
          /\ Len([segs EXCEPT ![n] = e]) = n
          /\ \A j \in 1 .. n : [segs EXCEPT ![n] = e][j] = IF j = n THEN e ELSE segs[j]
      BY <3>1, ExceptSeq
    <3> QED
      BY <3>2, Zenon DEF Y
  <2>4. /\ Cut(segs, r) \in Seq(Seq(X))
        /\ Len(Cut(segs, r)) = Len(segs)
        /\ Cut(segs, r)[Len(segs)] = Append(segs[Len(segs)], r)
        /\ \A i \in 1 .. Len(segs) - 1 : Cut(segs, r)[i] = segs[i]
    <3>1. n = Len(segs) /\ \A i \in 1 .. n - 1 : i \in 1 .. n /\ i # n
      BY <1>1
    <3> HIDE DEF n
    <3>2. Cut(segs, r)[n] = e /\ \A i \in 1 .. n - 1 : Cut(segs, r)[i] = segs[i]
      BY <2>0, <2>1, <2>3, <3>1
    <3> QED
      BY <2>1, <2>3, <3>1, <3>2, Zenon DEF e, n
  <2> QED
    BY <1>1, <1>3, <2>4 DEF Segments, X
<1> QED
  BY <1>2, <1>3

(* The recursion of Splits. *)
LEMMA SplitsDef ==
    ASSUME NEW s \in Seq(Symbols)
    PROVE  /\ Splits(s) \in [0 .. Len(s) -> Segments]
           /\ Splits(s)[0] = << <<>> >>
           /\ \A q \in 1 .. Len(s) : Splits(s)[q] = Cut(Splits(s)[q - 1], s[q])
<1> DEFINE n == Len(s)
           base == << <<>> >>
           step == [x \in (1 .. n) \X Segments |-> Cut(x[2], s[x[1]])]
<1>0. n \in Nat
  OBVIOUS
<1>1. \A q \in 1 .. n : s[q] \in Symbols
  OBVIOUS
<1>2. base \in Segments
  BY DEF Segments
<1>3. step \in [(1 .. n) \X Segments -> Segments]
  BY <1>1, CutFacts
<1>a. PICK h : Recurrence(h, n, Segments, base, step)
  <2> HIDE DEF n, base, step
  <2> QED
    BY <1>0, <1>2, <1>3, RecursionExists, Zenon
<1>4. /\ h \in [0 .. n -> Segments]
      /\ h[0] = base
      /\ \A i \in 1 .. n : h[i] = step[<<i, h[i - 1]>>]
  BY <1>a, Zenon DEF Recurrence
<1>5. \A i \in 1 .. n : h[i] = Cut(h[i - 1], s[i])
  <2> TAKE i \in 1 .. n
  <2>1. i - 1 \in 0 .. n
    BY <1>0
  <2>2. <<i, h[i - 1]>> \in (1 .. n) \X Segments
    BY <2>1, <1>4
  <2> QED
    BY <1>4, <2>2, Zenon
<1> DEFINE Def(g) == [i \in 0 .. n |-> IF i = 0 THEN base ELSE Cut(g[i - 1], s[i])]
<1>6. h = Def(h)
  <2>1. \A i \in 0 .. n : h[i] = IF i = 0 THEN base ELSE Cut(h[i - 1], s[i])
    <3> TAKE i \in 0 .. n
    <3>1. i = 0 \/ i \in 1 .. n
      BY <1>0
    <3> HIDE DEF n, base, step
    <3> QED
      BY <1>4, <1>5, <3>1
  <2> HIDE DEF n, base, step
  <2> QED
    BY <2>1, <1>4
<1>7. Splits(s) = CHOOSE g : g = Def(g)
  BY DEF Splits
<1>8. Splits(s) = Def(Splits(s))
  <2> HIDE DEF Def
  <2> QED
    BY <1>6, <1>7
<1>9. /\ DOMAIN Splits(s) = 0 .. n
      /\ Splits(s)[0] = base
      /\ \A q \in 1 .. n : Splits(s)[q] = Cut(Splits(s)[q - 1], s[q])
  <2>1. \A q \in 1 .. n : q \in 0 .. n /\ q # 0
    BY <1>0
  <2>2. 0 \in 0 .. n
    BY <1>0
  <2> HIDE DEF n, base, step
  <2> QED
    BY <1>8, <2>1, <2>2, Zenon
<1>10. \A i \in 0 .. n : Splits(s)[i] = h[i]
  <2>1. InStep(Splits(s), h, n)
    BY <1>4, <1>5, <1>9 DEF InStep
  <2> HIDE DEF n, base
  <2> QED
    BY <1>0, <2>1, RecursionUnique DEF Same
<1>11. Splits(s) \in [0 .. n -> Segments]
  <2>1. \A i \in 0 .. n : Splits(s)[i] \in Segments
    BY <1>4, <1>10
  <2>2. Splits(s) = [i \in 0 .. n |-> Splits(s)[i]]
    <3> HIDE DEF n, base
    <3> QED
      BY <1>8
  <2> HIDE DEF n
  <2> QED
    BY <2>1, <2>2
<1> QED
  BY <1>9, <1>11

(* The segments before and after one rune. *)
LEMMA SplitStep ==
    ASSUME NEW s \in Seq(Symbols), NEW q \in 1 .. Len(s)
    PROVE  Grows(Splits(s)[q - 1], s[q], Splits(s)[q])
<1>1. Splits(s)[q - 1] \in Segments
  BY SplitsDef
<1>2. Splits(s)[q] = Cut(Splits(s)[q - 1], s[q])
  BY SplitsDef
<1>3. s[q] \in Symbols
  OBVIOUS
<1> QED
  BY <1>1, <1>2, <1>3, CutFacts

(* Only the runes before a position count for it. *)
LEMMA SplitPrefix ==
    ASSUME NEW s \in Seq(Symbols), NEW t \in Seq(Symbols), NEW n \in Nat,
           n <= Len(s), n <= Len(t), \A i \in 1 .. n : s[i] = t[i]
    PROVE  \A i \in 0 .. n : Splits(s)[i] = Splits(t)[i]
<1>1. ASSUME NEW i \in 1 .. n, Splits(s)[i - 1] = Splits(t)[i - 1]
      PROVE  Splits(s)[i] = Splits(t)[i]
  <2>1. i \in 1 .. Len(s) /\ i \in 1 .. Len(t)
    OBVIOUS
  <2>2. Splits(s)[i] = Cut(Splits(s)[i - 1], s[i])
    BY <2>1, SplitsDef
  <2>3. Splits(t)[i] = Cut(Splits(t)[i - 1], t[i])
    BY <2>1, SplitsDef
  <2> QED
    BY <1>1, <2>2, <2>3
<1>2. Splits(s)[0] = Splits(t)[0]
  BY SplitsDef, Zenon
<1>3. InStep(Splits(s), Splits(t), n)
  BY <1>1, <1>2 DEF InStep
<1> QED
  BY <1>3, RecursionUnique DEF Same

(* A segment stays as it is once the next one has begun. *)
LEMMA SplitLater ==
    ASSUME NEW s \in Seq(Symbols), NEW p \in 0 .. Len(s), NEW q \in p .. Len(s)
    PROVE  /\ Len(Splits(s)[p]) <= Len(Splits(s)[q])
           /\ \A i \in 1 .. Len(Splits(s)[p]) - 1 : Splits(s)[q][i] = Splits(s)[p][i]
<1> DEFINE D == Splits(s)
           Holds(x) == /\ Len(D[p]) <= Len(D[x])
                       /\ \A i \in 1 .. Len(D[p]) - 1 : D[x][i] = D[p][i]
           T == {m \in Nat : p + m <= Len(s) => Holds(p + m)}
<1>0. Len(s) \in Nat /\ \A x \in 0 .. Len(s) : Len(D[x]) \in Nat /\ Len(D[x]) >= 1
  BY SplitsDef DEF Segments
<1>1. 0 \in T
  BY <1>0
<1>2. ASSUME NEW m \in T PROVE m + 1 \in T
  <2> SUFFICES ASSUME p + (m + 1) <= Len(s) PROVE Holds(p + (m + 1))
    OBVIOUS
  <2> DEFINE x == p + (m + 1)
  <2>1. x \in 1 .. Len(s) /\ x - 1 = p + m /\ Holds(x - 1)
    BY <1>0, <1>2
  <2>2. /\ Len(D[x - 1]) <= Len(D[x])
        /\ \A i \in 1 .. Len(D[x - 1]) - 1 : D[x][i] = D[x - 1][i]
    <3>1. Grows(D[x - 1], s[x], D[x])
      BY <2>1, SplitStep
    <3> HIDE DEF x, D
    <3> QED
      BY <3>1, GrowsKeeps
  <2>3. Len(D[x]) \in Nat /\ Len(D[x - 1]) \in Nat /\ Len(D[p]) \in Nat
    BY <1>0, <2>1
  <2> HIDE DEF D, x
  <2> QED
    BY <2>1, <2>2, <2>3 DEF x
<1>3. T = Nat
  <2>1. T \in SUBSET Nat
    OBVIOUS
  <2> HIDE DEF T
  <2> QED
    BY <1>1, <1>2, <2>1, NatInd, Zenon
<1>4. q - p \in Nat /\ p + (q - p) = q /\ q <= Len(s)
  BY <1>0
<1> HIDE DEF Holds
<1>5. Holds(q)
  BY <1>3, <1>4, Zenon
<1> QED
  BY <1>5 DEF Holds

(* A separator ends the segment before it. *)
LEMMA SplitEnded ==
    ASSUME NEW s \in Seq(Symbols), NEW p \in 0 .. Len(s) - 1,
           s[p + 1] = Separator, NEW q \in p + 1 .. Len(s)
    PROVE  /\ Len(Splits(s)[p]) < Len(Splits(s)[q])
           /\ \A i \in 1 .. Len(Splits(s)[p]) : Splits(s)[q][i] = Splits(s)[p][i]
<1> DEFINE D == Splits(s)
<1>1. p + 1 \in 1 .. Len(s) /\ (p + 1) - 1 = p /\ p + 1 \in 0 .. Len(s)
  OBVIOUS
<1>2. Grows(D[p], s[p + 1], D[p + 1])
  BY <1>1, SplitStep
<1>3. /\ Len(D[p + 1]) <= Len(D[q])
      /\ \A i \in 1 .. Len(D[p + 1]) - 1 : D[q][i] = D[p + 1][i]
  BY <1>1, SplitLater, Zenon
<1>4. Len(D[q]) \in Nat
  BY SplitsDef DEF Segments
<1> HIDE DEF D
<1>5. /\ Len(D[p]) \in Nat /\ Len(D[p + 1]) = Len(D[p]) + 1
      /\ \A i \in 1 .. Len(D[p]) : D[p + 1][i] = D[p][i]
  BY <1>2 DEF Grows
<1>6. Len(D[p]) < Len(D[q]) /\ Len(D[p + 1]) - 1 = Len(D[p])
  BY <1>3, <1>4, <1>5
<1>7. \A i \in 1 .. Len(D[p]) : D[q][i] = D[p][i]
  BY <1>3, <1>5, <1>6
<1> QED
  BY <1>6, <1>7 DEF D

(* Every segment but the last is ended by a separator. *)
LEMMA SplitBoundary ==
    ASSUME NEW s \in Seq(Symbols), NEW q \in 0 .. Len(s),
           NEW k \in Nat, 1 <= k, k < Len(Splits(s)[q])
    PROVE  \E p \in 0 .. q - 1 : s[p + 1] = Separator /\ Len(Splits(s)[p]) = k
<1> DEFINE D == Splits(s)
           Holds(x) == k < Len(D[x]) =>
                          \E p \in 0 .. x - 1 : s[p + 1] = Separator /\ Len(D[p]) = k
           T == {m \in Nat : m <= Len(s) => Holds(m)}
<1>0. Len(s) \in Nat
  OBVIOUS
<1>1. 0 \in T
  <2>1. Len(D[0]) = 1
    <3>1. D[0] = << <<>> >>
      BY SplitsDef, Zenon
    <3> QED
      BY <3>1
  <2>2. ~(k < Len(D[0]))
    BY <2>1
  <2> QED
    BY <2>2
<1>2. ASSUME NEW m \in T PROVE m + 1 \in T
  <2> SUFFICES ASSUME m + 1 <= Len(s), k < Len(D[m + 1])
               PROVE  \E p \in 0 .. (m + 1) - 1 : s[p + 1] = Separator /\ Len(D[p]) = k
    OBVIOUS
  <2>1. m \in Nat /\ m + 1 \in 1 .. Len(s) /\ (m + 1) - 1 = m /\ Holds(m)
    BY <1>0, <1>2
  <2>2. Grows(D[m], s[m + 1], D[m + 1])
    BY <2>1, SplitStep
  <2> HIDE DEF D
  <2>3. CASE k < Len(D[m])
    BY <2>1, <2>3
  <2>4. CASE ~(k < Len(D[m]))
    <3>1. Len(D[m]) \in Nat /\ s[m + 1] = Separator /\ Len(D[m + 1]) = Len(D[m]) + 1
      BY <2>2, <2>4 DEF Grows
    <3>2. Len(D[m]) = k
      BY <3>1, <2>4
    <3>3. m \in 0 .. (m + 1) - 1
      BY <2>1
    <3> QED
      BY <3>1, <3>2, <3>3
  <2> QED
    BY <2>3, <2>4
<1>3. T = Nat
  <2>1. T \in SUBSET Nat
    OBVIOUS
  <2> HIDE DEF T
  <2> QED
    BY <1>1, <1>2, <2>1, NatInd, Zenon
<1>4. q \in Nat /\ q <= Len(s)
  BY <1>0
<1> HIDE DEF Holds
<1>5. Holds(q)
  BY <1>3, <1>4
<1> QED
  BY <1>5 DEF Holds

(* The runes after p and up to q are in one segment, which was empty at p. *)
Stretch(s, p, q) ==
    /\ Len(Splits(s)[p]) = Len(Splits(s)[q])
    /\ \A i \in p + 1 .. q : s[i] # Separator
    /\ \A i \in 1 .. Len(Splits(s)[p]) - 1 : Splits(s)[p][i] = Splits(s)[q][i]

(* Every position lies in a segment that began at some earlier one. *)
LEMMA SegmentStart ==
    ASSUME NEW s \in Seq(Symbols), NEW q \in 0 .. Len(s)
    PROVE  \E p \in 0 .. q : /\ Stretch(s, p, q)
                            /\ Splits(s)[p][Len(Splits(s)[p])] = <<>>
<1> DEFINE D == Splits(s)
           Holds(x) == \E p \in 0 .. x : Stretch(s, p, x) /\ D[p][Len(D[p])] = <<>>
           T == {m \in Nat : m <= Len(s) => Holds(m)}
<1>0. Len(s) \in Nat
  OBVIOUS
<1>1. 0 \in T
  <2>1. Len(D[0]) = 1 /\ D[0][1] = <<>>
    BY SplitsDef
  <2>2. Stretch(s, 0, 0)
    BY DEF Stretch
  <2>3. Holds(0)
    BY <2>1, <2>2
  <2> QED
    BY <2>3
<1>2. ASSUME NEW m \in T PROVE m + 1 \in T
  <2> SUFFICES ASSUME m + 1 <= Len(s) PROVE Holds(m + 1)
    OBVIOUS
  <2>1. m \in Nat /\ m + 1 \in 1 .. Len(s) /\ (m + 1) - 1 = m /\ Holds(m)
    BY <1>0, <1>2
  <2>2. Grows(D[m], s[m + 1], D[m + 1])
    BY <2>1, SplitStep
  <2>3. CASE s[m + 1] = Separator
    <3>1. Stretch(s, m + 1, m + 1)
      BY <2>1 DEF Stretch
    <3>2. D[m + 1][Len(D[m + 1])] = <<>>
      <4> HIDE DEF D
      <4> QED
        BY <2>2, <2>3 DEF Grows
    <3>3. m + 1 \in 0 .. m + 1
      BY <2>1
    <3> QED
      BY <3>1, <3>2, <3>3
  <2>4. CASE s[m + 1] # Separator
    <3>1. PICK p \in 0 .. m : Stretch(s, p, m) /\ D[p][Len(D[p])] = <<>>
      BY <2>1
    <3>2. Stretch(s, p, m + 1)
      <4>1. /\ Len(D[p]) = Len(D[m])
            /\ \A i \in p + 1 .. m : s[i] # Separator
            /\ \A i \in 1 .. Len(D[p]) - 1 : D[p][i] = D[m][i]
        BY <3>1, Zenon DEF Stretch
      <4> HIDE DEF D
      <4>2. /\ Len(D[m + 1]) = Len(D[m])
            /\ \A i \in 1 .. Len(D[m]) - 1 : D[m + 1][i] = D[m][i]
        BY <2>2, <2>4 DEF Grows
      <4>3. \A i \in p + 1 .. m + 1 : i = m + 1 \/ i \in p + 1 .. m
        BY <2>1
      <4>4. \A i \in p + 1 .. m + 1 : s[i] # Separator
        BY <2>4, <4>1, <4>3
      <4>5. \A i \in 1 .. Len(D[p]) - 1 : D[p][i] = D[m + 1][i]
        BY <4>1, <4>2, Zenon
      <4> QED
        BY <4>1, <4>2, <4>4, <4>5 DEF Stretch, D
    <3>3. p \in 0 .. m + 1
      BY <2>1
    <3> QED
      BY <3>1, <3>2, <3>3
  <2> QED
    BY <2>3, <2>4
<1>3. T = Nat
  <2>1. T \in SUBSET Nat
    OBVIOUS
  <2> HIDE DEF T
  <2> QED
    BY <1>1, <1>2, <2>1, NatInd, Zenon
<1>4. q \in Nat /\ q <= Len(s)
  BY <1>0
<1> HIDE DEF Holds
<1>5. Holds(q)
  BY <1>3, <1>4
<1> QED
  BY <1>5 DEF Holds

(* Runes other than separators make the segment grow, and no other. *)
LEMMA SegmentGrows ==
    ASSUME NEW s \in Seq(Symbols), NEW p \in 0 .. Len(s), NEW q \in p + 1 .. Len(s),
           \A i \in p + 1 .. q : s[i] # Separator
    PROVE  Stretch(s, p, q) /\ Splits(s)[q][Len(Splits(s)[q])] # <<>>
<1> DEFINE D == Splits(s)
           Holds(x) == Stretch(s, p, x) /\ (x > p => D[x][Len(D[x])] # <<>>)
           T == {m \in Nat : p + m <= q => Holds(p + m)}
<1>0. p \in Nat /\ q \in Nat /\ Len(s) \in Nat /\ q <= Len(s) /\ p < q
  OBVIOUS
<1>1. 0 \in T
  <2>1. Stretch(s, p, p)
    <3>1. \A i \in p + 1 .. p : FALSE
      BY <1>0
    <3> QED
      BY <3>1, Zenon DEF Stretch
  <2> QED
    BY <1>0, <2>1
<1>2. ASSUME NEW m \in T PROVE m + 1 \in T
  <2> SUFFICES ASSUME p + (m + 1) <= q PROVE Holds(p + (m + 1))
    OBVIOUS
  <2> DEFINE x == p + (m + 1)
  <2>1. /\ m \in Nat /\ x \in 1 .. Len(s) /\ x - 1 = p + m
        /\ Holds(x - 1) /\ x \in p + 1 .. q
    BY <1>0, <1>2
  <2>2. s[x] # Separator /\ s[x] \in Symbols
    BY <2>1
  <2>3. Grows(D[x - 1], s[x], D[x])
    BY <2>1, SplitStep
  <2>4. D[x - 1] \in Segments /\ D[x] \in Segments
    BY <2>1, SplitsDef
  <2>5. /\ Len(D[p]) = Len(D[x - 1])
        /\ \A i \in p + 1 .. x - 1 : s[i] # Separator
        /\ \A i \in 1 .. Len(D[p]) - 1 : D[p][i] = D[x - 1][i]
    BY <2>1 DEF Stretch
  <2> HIDE DEF D, x
  <2>6. /\ Len(D[x]) = Len(D[x - 1])
        /\ D[x][Len(D[x])] = Append(D[x - 1][Len(D[x - 1])], s[x])
        /\ \A i \in 1 .. Len(D[x - 1]) - 1 : D[x][i] = D[x - 1][i]
    BY <2>2, <2>3 DEF Grows
  <2>7. D[x][Len(D[x])] # <<>>
    <3>1. D[x - 1][Len(D[x - 1])] \in Seq(Symbols)
      <4>1. Len(D[x - 1]) \in 1 .. Len(D[x - 1])
        BY <2>4 DEF Segments
      <4>2. D[x - 1] \in Seq(Seq(Symbols \ {Separator}))
        BY <2>4 DEF Segments
      <4>3. D[x - 1][Len(D[x - 1])] \in Seq(Symbols \ {Separator})
        BY <4>1, <4>2, ElementOfSeq
      <4> QED
        BY <4>3, SeqMonotonic
    <3>2. Append(D[x - 1][Len(D[x - 1])], s[x]) # <<>>
      <4>1. s[x] \in Symbols
        BY <2>2
      <4> QED
        BY <3>1, <4>1, AppendNotEmpty, Zenon
    <3> QED
      BY <2>6, <3>2
  <2>8. \A i \in p + 1 .. x : s[i] # Separator
    BY <1>0, <2>1
  <2>9. \A i \in 1 .. Len(D[p]) - 1 : D[p][i] = D[x][i]
    BY <2>5, <2>6
  <2> QED
    BY <2>5, <2>6, <2>7, <2>8, <2>9 DEF Stretch, D, x
<1>3. T = Nat
  <2>1. T \in SUBSET Nat
    OBVIOUS
  <2> HIDE DEF T
  <2> QED
    BY <1>1, <1>2, <2>1, NatInd, Zenon
<1>4. q - p \in Nat /\ p + (q - p) = q
  BY <1>0
<1> HIDE DEF Holds
<1>5. Holds(q)
  <2>1. p + (q - p) <= q => Holds(p + (q - p))
    BY <1>3, <1>4, Zenon
  <2> QED
    BY <1>0, <1>4, <2>1
<1> QED
  BY <1>0, <1>5 DEF Holds

-----------------------------------------------------------------------------
(* Regular expressions. *)
Pieces == [piece : Runes \cup {"^", "word", "rest"}, optional : BOOLEAN]

(* Where a regular expression ends. *)
Ends(regex, s) == Reached(regex, s)[Len(regex)]

(* A step of the matcher stays inside the input. *)
LEMMA StepType ==
    ASSUME NEW s \in Seq(Symbols), NEW from \in SUBSET (0 .. Len(s)), NEW r
    PROVE  Step(from, r, s) \in SUBSET (0 .. Len(s))
<1>1. Len(s) \in Nat /\ 1 .. Len(s) \subseteq 0 .. Len(s)
  OBVIOUS
<1>2. Reach(from, r.piece, s) \subseteq 0 .. Len(s)
  <2>1. CASE r.piece = "^"
    BY <2>1 DEF Reach
  <2>2. CASE r.piece = "word"
    BY <1>1, <2>2 DEF Reach
  <2>3. CASE r.piece = "rest"
    BY <1>1, <2>3 DEF Reach
  <2>4. CASE r.piece \notin {"^", "word", "rest"}
    BY <1>1, <2>4 DEF Reach
  <2> QED
    BY <2>1, <2>2, <2>3, <2>4
<1> QED
  BY <1>2, Zenon DEF Step

(* The recursion of Reached. *)
LEMMA ReachedDef ==
    ASSUME NEW s \in Seq(Symbols), NEW regex, Len(regex) \in Nat
    PROVE  /\ Reached(regex, s) \in [0 .. Len(regex) -> SUBSET (0 .. Len(s))]
           /\ Reached(regex, s)[0] = 0 .. Len(s)
           /\ \A i \in 1 .. Len(regex) :
                 Reached(regex, s)[i] = Step(Reached(regex, s)[i - 1], regex[i], s)
<1> DEFINE n == Len(regex)
           S == SUBSET (0 .. Len(s))
           base == 0 .. Len(s)
           step == [x \in (1 .. n) \X S |-> Step(x[2], regex[x[1]], s)]
           R == Reached(regex, s)
<1>0. n \in Nat
  OBVIOUS
<1>2. base \in S
  OBVIOUS
<1>3. step \in [(1 .. n) \X S -> S]
  BY StepType
<1>a. PICK h : Recurrence(h, n, S, base, step)
  <2> HIDE DEF n, base, step, S
  <2> QED
    BY <1>0, <1>2, <1>3, RecursionExists, Zenon
<1>4. /\ h \in [0 .. n -> S]
      /\ h[0] = base
      /\ \A i \in 1 .. n : h[i] = step[<<i, h[i - 1]>>]
  <2> HIDE DEF n, base, step, S
  <2> QED
    BY <1>a DEF Recurrence
<1>5. \A i \in 1 .. n : h[i] = Step(h[i - 1], regex[i], s)
  <2> TAKE i \in 1 .. n
  <2>1. i - 1 \in 0 .. n
    BY <1>0
  <2> HIDE DEF n, S, base
  <2>2. <<i, h[i - 1]>> \in (1 .. n) \X S
    BY <2>1, <1>4
  <2> QED
    BY <1>4, <2>2, Zenon
<1> DEFINE Def(g) == [i \in 0 .. n |-> IF i = 0 THEN base ELSE Step(g[i - 1], regex[i], s)]
<1>6. h = Def(h)
  <2>1. \A i \in 0 .. n : h[i] = IF i = 0 THEN base ELSE Step(h[i - 1], regex[i], s)
    <3> TAKE i \in 0 .. n
    <3>1. i = 0 \/ i \in 1 .. n
      BY <1>0
    <3> HIDE DEF n, base, step, S
    <3> QED
      BY <1>4, <1>5, <3>1
  <2> HIDE DEF n, base, step, S
  <2> QED
    BY <2>1, <1>4
<1>7. R = CHOOSE g : g = Def(g)
  BY DEF Reached
<1>8. R = Def(R)
  <2> HIDE DEF Def, R
  <2> QED
    BY <1>6, <1>7
<1>9. /\ R[0] = base
      /\ \A i \in 1 .. n : R[i] = Step(R[i - 1], regex[i], s)
  <2>1. \A q \in 1 .. n : q \in 0 .. n /\ q # 0
    BY <1>0
  <2>2. 0 \in 0 .. n
    BY <1>0
  <2> HIDE DEF n, base, step, R
  <2> QED
    BY <1>8, <2>1, <2>2, Zenon
<1>10. \A i \in 0 .. n : R[i] = h[i]
  <2>1. InStep(R, h, n)
    <3> HIDE DEF n, base, step, S, R
    <3> QED
      BY <1>4, <1>5, <1>9 DEF InStep
  <2> HIDE DEF n, R
  <2> QED
    BY <1>0, <2>1, RecursionUnique DEF Same
<1>11. R \in [0 .. n -> S]
  <2> HIDE DEF n, base, S, R
  <2>1. \A i \in 0 .. n : R[i] \in S
    BY <1>4, <1>10
  <2>2. R = [i \in 0 .. n |-> R[i]]
    BY <1>8
  <2> QED
    BY <2>1, <2>2
<1> QED
  BY <1>9, <1>11

(* One more piece. *)
LEMMA EndsStep ==
    ASSUME NEW s \in Seq(Symbols), NEW regex \in Seq(Pieces), NEW x \in Pieces
    PROVE  /\ Ends(regex, s) \in SUBSET (0 .. Len(s))
           /\ Ends(Append(regex, x), s) = Step(Ends(regex, s), x, s)
<1> DEFINE n == Len(regex)
           more == Append(regex, x)
<1>1. /\ n \in Nat /\ Len(more) = n + 1 /\ more[n + 1] = x
      /\ \A i \in 1 .. n : more[i] = regex[i]
  BY AppendProperties
<1>2. Ends(regex, s) \in SUBSET (0 .. Len(s))
  <2>1. n \in 0 .. n
    BY <1>1
  <2> QED
    BY <1>1, <2>1, ReachedDef DEF Ends
<1>3. InStep(Reached(more, s), Reached(regex, s), n)
  <2>1. ASSUME NEW i \in 1 .. n, Reached(more, s)[i - 1] = Reached(regex, s)[i - 1]
        PROVE  Reached(more, s)[i] = Reached(regex, s)[i]
    <3>1. i \in 1 .. Len(more) /\ i \in 1 .. Len(regex)
      BY <1>1
    <3> HIDE DEF more
    <3>2. Reached(more, s)[i] = Step(Reached(more, s)[i - 1], more[i], s)
      BY <1>1, <3>1, ReachedDef
    <3>3. Reached(regex, s)[i] = Step(Reached(regex, s)[i - 1], regex[i], s)
      BY <1>1, <3>1, ReachedDef
    <3> QED
      BY <1>1, <2>1, <3>2, <3>3
  <2>2. Reached(more, s)[0] = Reached(regex, s)[0]
    <3> HIDE DEF more
    <3> QED
      BY <1>1, ReachedDef
  <2> HIDE DEF more, n
  <2> QED
    BY <2>1, <2>2 DEF InStep
<1>4. Reached(more, s)[n] = Reached(regex, s)[n]
  <2>1. n \in 0 .. n
    BY <1>1
  <2> HIDE DEF more, n
  <2> QED
    BY <1>1, <1>3, <2>1, RecursionUnique DEF Same
<1>5. Reached(more, s)[n + 1] = Step(Reached(more, s)[n], x, s)
  <2>1. n + 1 \in 1 .. Len(more) /\ (n + 1) - 1 = n
    BY <1>1
  <2> HIDE DEF more, n
  <2> QED
    BY <1>1, <2>1, ReachedDef
<1> QED
  BY <1>1, <1>2, <1>4, <1>5 DEF Ends

-----------------------------------------------------------------------------
(* The positions of s before which there are k segments that agree with    *)
(* those of P and then w; and the ones behind k segments that agree.       *)
AtWord(P, s, k, w) ==
    {q \in 0 .. Len(s) : /\ Len(Splits(s)[q]) = k + 1
                         /\ Agree(P, Splits(s)[q], k)
                         /\ Splits(s)[q][k + 1] = w}
Whole(P, s, k) ==
    {q \in 0 .. Len(s) : Len(Splits(s)[q]) = k /\ Agree(P, Splits(s)[q], k)}

(* Agreement looks at k segments only. *)
LEMMA AgreeSame ==
    ASSUME NEW P, NEW a, NEW b, NEW k \in Nat, Len(a) \in Nat, Len(b) \in Nat,
           k <= Len(a), k <= Len(b), \A i \in 1 .. k : a[i] = b[i]
    PROVE  Agree(P, a, k) <=> Agree(P, b, k)
BY DEF Agree

(* Facts on the segments up to a position, for the steps below. *)
LEMMA SplitsAt ==
    ASSUME NEW s \in Seq(Symbols), NEW q \in 0 .. Len(s)
    PROVE  /\ Len(Splits(s)[q]) \in Nat /\ Len(Splits(s)[q]) >= 1
           /\ Splits(s)[q][Len(Splits(s)[q])] \in Seq(Symbols \ {Separator})
           /\ \A i \in 1 .. Len(Splits(s)[q]) :
                 Splits(s)[q][i] \in Seq(Symbols \ {Separator})
<1>1. Splits(s)[q] \in Seq(Seq(Symbols \ {Separator})) /\ Len(Splits(s)[q]) >= 1
  BY SplitsDef, Zenon DEF Segments
<1> DEFINE Y == Seq(Symbols \ {Separator})
<1> HIDE DEF Y
<1>2. Splits(s)[q] \in Seq(Y)
  BY <1>1 DEF Y
<1>3. Len(Splits(s)[q]) \in Nat /\ \A i \in 1 .. Len(Splits(s)[q]) : Splits(s)[q][i] \in Y
  BY <1>2, ElementOfSeq, LenProperties
<1>4. Len(Splits(s)[q]) \in 1 .. Len(Splits(s)[q])
  BY <1>1, <1>3
<1> QED
  BY <1>1, <1>3, <1>4 DEF Y

(* The last segment is empty only at the start and behind a separator. *)
LEMMA LastSegment ==
    ASSUME NEW s \in Seq(Symbols), NEW q \in 1 .. Len(s)
    PROVE  Splits(s)[q][Len(Splits(s)[q])] = <<>> <=> s[q] = Separator
<1> DEFINE D == Splits(s)
<1>1. Grows(D[q - 1], s[q], D[q])
  BY SplitStep
<1>2. CASE s[q] = Separator
  <2> HIDE DEF D
  <2>1. D[q][Len(D[q])] = <<>>
    BY <1>1, <1>2 DEF Grows
  <2> QED
    BY <1>2, <2>1 DEF D
<1>3. CASE s[q] # Separator
  <2>1. q - 1 \in 0 .. Len(s) /\ s[q] \in Symbols
    OBVIOUS
  <2>2. D[q - 1][Len(D[q - 1])] \in Seq(Symbols \ {Separator})
    BY <2>1, SplitsAt
  <2>3. Append(D[q - 1][Len(D[q - 1])], s[q]) # <<>>
    <3>1. s[q] \in Symbols \ {Separator}
      BY <1>3, <2>1
    <3> QED
      BY <2>2, <3>1, AppendNotEmpty, Zenon
  <2> HIDE DEF D
  <2>4. D[q][Len(D[q])] = Append(D[q - 1][Len(D[q - 1])], s[q])
    BY <1>1, <1>3 DEF Grows
  <2> QED
    BY <1>3, <2>3, <2>4 DEF D
<1> QED
  BY <1>2, <1>3

(* A letter goes on in the same segment. *)
LEMMA LetterStep ==
    ASSUME NEW s \in Seq(Symbols), NEW P, NEW k \in Nat, NEW w \in Seq(Letters),
           NEW c \in Letters
    PROVE  Step(AtWord(P, s, k, w), Piece(c), s) = AtWord(P, s, k, Append(w, c))
<1> DEFINE D == Splits(s)
           X == Symbols \ {Separator}
<1>1. c \in X /\ w \in Seq(X) /\ c \notin {"^", "word", "rest"} /\ c # Separator
  <2>1. Letters \subseteq X /\ c \notin {"^", "word", "rest"} /\ c # Separator
    BY WildcardAssumption DEF Symbols, Runes, Separator
  <2> QED
    BY <2>1, SeqMonotonic
<1>2. Step(AtWord(P, s, k, w), Piece(c), s)
         = {q \in 1 .. Len(s) : q - 1 \in AtWord(P, s, k, w) /\ s[q] = c}
  BY <1>1 DEF Step, Piece, Reach
<1>3. ASSUME NEW q \in 1 .. Len(s)
      PROVE  (q - 1 \in AtWord(P, s, k, w) /\ s[q] = c)
                <=> q \in AtWord(P, s, k, Append(w, c))
  <2>1. /\ q - 1 \in 0 .. Len(s) /\ q \in 0 .. Len(s) /\ s[q] \in Symbols
        /\ Len(D[q]) \in Nat /\ Len(D[q - 1]) \in Nat /\ Len(D[q - 1]) >= 1
    <3>1. q - 1 \in 0 .. Len(s) /\ q \in 0 .. Len(s) /\ s[q] \in Symbols
      OBVIOUS
    <3> QED
      BY <3>1, SplitsAt, Zenon
  <2>2. Grows(D[q - 1], s[q], D[q])
    BY SplitStep
  <2>3. CASE s[q] = Separator
    <3>1. D[q][Len(D[q])] = <<>>
      BY <2>3, LastSegment
    <3>2. Append(w, c) # <<>>
      <4> HIDE DEF X
      <4> QED
        BY <1>1, AppendProperties
    <3> QED
      BY <1>1, <2>3, <3>1, <3>2 DEF AtWord
  <2>4. CASE s[q] # Separator
    <3> HIDE DEF D
    <3>1. /\ Len(D[q]) = Len(D[q - 1])
          /\ D[q][Len(D[q])] = Append(D[q - 1][Len(D[q - 1])], s[q])
          /\ \A i \in 1 .. Len(D[q - 1]) - 1 : D[q][i] = D[q - 1][i]
      BY <2>2, <2>4, Zenon DEF Grows
    <3>2. D[q - 1][Len(D[q - 1])] \in Seq(X)
      BY <2>1, SplitsAt, Zenon DEF D
    <3>3. s[q] \in X
      BY <2>1, <2>4
    <3>4. Append(D[q - 1][Len(D[q - 1])], s[q]) = Append(w, c)
             <=> D[q - 1][Len(D[q - 1])] = w /\ s[q] = c
      <4> DEFINE v == D[q - 1][Len(D[q - 1])]
                 b == s[q]
      <4>1. v \in Seq(X) /\ b \in X
        BY <3>2, <3>3
      <4> HIDE DEF X, v, b
      <4>2. Append(v, b) = Append(w, c) <=> v = w /\ b = c
        BY <1>1, <4>1, AppendSame
      <4> QED
        BY <4>2, Zenon DEF v, b
    <3>5. CASE Len(D[q]) = k + 1
      <4>1. Agree(P, D[q], k) <=> Agree(P, D[q - 1], k)
        <5>1. \A i \in 1 .. k : D[q][i] = D[q - 1][i]
          BY <3>1, <3>5
        <5>2. k <= Len(D[q]) /\ k <= Len(D[q - 1])
          BY <3>1, <3>5
        <5> QED
          BY <2>1, <5>1, <5>2, AgreeSame, Zenon
      <4>2. Len(D[q]) = k + 1 /\ Len(D[q - 1]) = k + 1
        BY <3>1, <3>5
      <4> QED
        BY <2>1, <3>1, <3>4, <4>1, <4>2, Zenon DEF AtWord, D
    <3>6. CASE Len(D[q]) # k + 1
      BY <3>1, <3>6 DEF AtWord, D
    <3> QED
      BY <3>5, <3>6
  <2> QED
    BY <2>3, <2>4
<1>4. 0 \notin AtWord(P, s, k, Append(w, c))
  <2>1. D[0] = << <<>> >> /\ Append(w, c) # <<>>
    <3>1. Append(w, c) # <<>>
      <4> HIDE DEF X
      <4> QED
        BY <1>1, AppendProperties
    <3> QED
      BY <3>1, SplitsDef
  <2>2. Len(D[0]) = 1 /\ D[0][1] = <<>>
    BY <2>1
  <2> QED
    BY <2>1, <2>2 DEF AtWord
<1>5. AtWord(P, s, k, Append(w, c)) \subseteq 1 .. Len(s)
  BY <1>4 DEF AtWord
<1> QED
  BY <1>2, <1>3, <1>5

(* "[^/]+" goes on to any later place in the same segment. *)
LEMMA WordStep ==
    ASSUME NEW s \in Seq(Symbols), NEW P, NEW k \in Nat
    PROVE  Step(AtWord(P, s, k, <<>>), Piece("word"), s)
              = {q \in 0 .. Len(s) : /\ Len(Splits(s)[q]) = k + 1
                                     /\ Agree(P, Splits(s)[q], k)
                                     /\ Splits(s)[q][k + 1] # <<>>}
<1> DEFINE D == Splits(s)
           from == AtWord(P, s, k, <<>>)
           To(q) == Len(D[q]) = k + 1 /\ Agree(P, D[q], k) /\ D[q][k + 1] # <<>>
           Runs(p, q) == p < q /\ \A i \in p + 1 .. q : s[i] # Separator
<1>1. Step(from, Piece("word"), s) = {q \in 1 .. Len(s) : \E p \in from : Runs(p, q)}
  BY DEF Step, Piece, Reach
<1>2. ASSUME NEW q \in 1 .. Len(s), NEW p \in from, Runs(p, q)
      PROVE  To(q)
  <2>1. p \in 0 .. Len(s) /\ Len(D[p]) = k + 1 /\ Agree(P, D[p], k)
    BY DEF AtWord
  <2>2. q \in p + 1 .. Len(s) /\ q \in 0 .. Len(s)
    BY <1>2, <2>1
  <2>3. Stretch(s, p, q) /\ D[q][Len(D[q])] # <<>>
    BY <1>2, <2>1, <2>2, SegmentGrows
  <2>4. Len(D[q]) = k + 1 /\ \A i \in 1 .. k : D[p][i] = D[q][i]
    BY <2>1, <2>3 DEF Stretch
  <2>5. Agree(P, D[q], k)
    <3>1. k <= Len(D[p]) /\ k <= Len(D[q]) /\ Len(D[p]) \in Nat /\ Len(D[q]) \in Nat
      BY <2>1, <2>4
    <3> HIDE DEF D
    <3> QED
      BY <2>1, <2>4, <3>1, AgreeSame
  <2> QED
    BY <2>3, <2>4, <2>5
<1>3. ASSUME NEW q \in 0 .. Len(s), To(q)
      PROVE  q \in 1 .. Len(s) /\ \E p \in from : Runs(p, q)
  <2>1. PICK p \in 0 .. q : Stretch(s, p, q) /\ D[p][Len(D[p])] = <<>>
    BY SegmentStart
  <2>2. /\ Len(D[p]) = k + 1 /\ D[p][k + 1] = <<>>
        /\ \A i \in 1 .. k : D[p][i] = D[q][i]
        /\ \A i \in p + 1 .. q : s[i] # Separator
    BY <1>3, <2>1 DEF Stretch
  <2>3. p # q
    BY <1>3, <2>2
  <2>4. p \in 0 .. Len(s) /\ p < q /\ q \in 1 .. Len(s)
    BY <2>3
  <2>5. Agree(P, D[p], k)
    <3>1. k <= Len(D[p]) /\ k <= Len(D[q]) /\ Len(D[p]) \in Nat /\ Len(D[q]) \in Nat
      BY <1>3, <2>2
    <3> HIDE DEF D
    <3> QED
      BY <1>3, <2>2, <3>1, AgreeSame
  <2>6. p \in from
    BY <2>2, <2>4, <2>5 DEF AtWord
  <2> QED
    BY <2>2, <2>4, <2>6
<1>4. \A q \in 1 .. Len(s) : q \in 0 .. Len(s)
  OBVIOUS
<1>5. Step(from, Piece("word"), s) = {q \in 0 .. Len(s) : To(q)}
  <2> HIDE DEF from, To, Runs
  <2> QED
    BY <1>1, <1>2, <1>3, <1>4
<1> QED
  BY <1>5

(* A separator ends a segment and begins the next one. *)
LEMMA SeparatorStep ==
    ASSUME NEW s \in Seq(Symbols), NEW P, NEW k \in Nat, k >= 1
    PROVE  Reach(Whole(P, s, k), Separator, s) = AtWord(P, s, k, <<>>)
<1> DEFINE D == Splits(s)
<1>1. Reach(Whole(P, s, k), Separator, s)
         = {q \in 1 .. Len(s) : q - 1 \in Whole(P, s, k) /\ s[q] = Separator}
  BY DEF Reach, Separator
<1>2. ASSUME NEW q \in 1 .. Len(s)
      PROVE  (q - 1 \in Whole(P, s, k) /\ s[q] = Separator)
                <=> q \in AtWord(P, s, k, <<>>)
  <2>1. /\ q - 1 \in 0 .. Len(s) /\ q \in 0 .. Len(s)
        /\ Len(D[q]) \in Nat /\ Len(D[q - 1]) \in Nat
    BY SplitsAt
  <2>2. Grows(D[q - 1], s[q], D[q])
    BY SplitStep
  <2>3. CASE s[q] = Separator
    <3> HIDE DEF D
    <3>1. /\ Len(D[q]) = Len(D[q - 1]) + 1
          /\ D[q][Len(D[q])] = <<>>
          /\ \A i \in 1 .. Len(D[q - 1]) : D[q][i] = D[q - 1][i]
      BY <2>2, <2>3 DEF Grows
    <3>2. CASE Len(D[q - 1]) = k
      <4>1. Agree(P, D[q], k) <=> Agree(P, D[q - 1], k)
        <5>1. k <= Len(D[q]) /\ k <= Len(D[q - 1])
          BY <3>1, <3>2
        <5> QED
          BY <2>1, <3>1, <3>2, <5>1, AgreeSame, Zenon
      <4> QED
        BY <2>1, <2>3, <3>1, <3>2, <4>1 DEF AtWord, Whole, D
    <3>3. CASE Len(D[q - 1]) # k
      <4>1. Len(D[q]) # k + 1
        BY <2>1, <3>1, <3>3
      <4> QED
        BY <3>3, <4>1 DEF AtWord, Whole, D
    <3> QED
      BY <3>2, <3>3
  <2>4. CASE s[q] # Separator
    <3>1. D[q][Len(D[q])] # <<>>
      BY <2>4, LastSegment
    <3> QED
      BY <2>4, <3>1 DEF AtWord
  <2> QED
    BY <2>3, <2>4
<1>3. AtWord(P, s, k, <<>>) \subseteq 1 .. Len(s)
  <2>1. Len(D[0]) = 1
    <3>1. D[0] = << <<>> >>
      BY SplitsDef, Zenon
    <3> QED
      BY <3>1
  <2>2. 0 \notin AtWord(P, s, k, <<>>)
    BY <2>1 DEF AtWord
  <2> QED
    BY <2>2 DEF AtWord
<1> QED
  BY <1>1, <1>2, <1>3

-----------------------------------------------------------------------------
(* What the loop of CompileWithSeparator writes for one segment. *)

Literal(w) == [i \in DOMAIN w |-> Piece(w[i])]

(* A segment without the separator behind it. *)
Body(regex, segment) ==
    IF segment = <<"*">> THEN Append(regex, Piece("word")) ELSE regex \o Literal(segment)

(* The pieces the code writes are pieces. *)
LEMMA PieceType ==
    /\ \A c \in Letters \cup {Separator, "word", "rest", "^"} : Piece(c) \in Pieces
    /\ [piece |-> Separator, optional |-> TRUE] \in Pieces
BY DEF Piece, Pieces, Runes

(* A literal is written as one piece for each of its runes. *)
LEMMA LiteralType ==
    ASSUME NEW w \in Seq(Letters)
    PROVE  /\ Literal(w) \in Seq(Pieces) /\ Len(Literal(w)) = Len(w)
           /\ \A i \in 1 .. Len(w) : Literal(w)[i] = Piece(w[i])
<1>1. Len(w) \in Nat /\ DOMAIN w = 1 .. Len(w) /\ \A i \in 1 .. Len(w) : w[i] \in Letters
  OBVIOUS
<1>2. \A i \in 1 .. Len(w) : Piece(w[i]) \in Pieces
  BY <1>1, PieceType
<1>3. Literal(w) = [i \in 1 .. Len(w) |-> Piece(w[i])]
  BY <1>1 DEF Literal
<1>4. Literal(w) \in [1 .. Len(w) -> Pieces]
  BY <1>2, <1>3
<1>5. Literal(w) \in Seq(Pieces)
  BY <1>1, <1>4
<1>6. DOMAIN Literal(w) = 1 .. Len(w)
  BY <1>3
<1> HIDE DEF Literal
<1> QED
  BY <1>1, <1>3, <1>5, <1>6

(* One letter more. *)
LEMMA LiteralAppend ==
    ASSUME NEW w \in Seq(Letters), NEW c \in Letters, NEW regex \in Seq(Pieces)
    PROVE  regex \o Literal(Append(w, c)) = Append(regex \o Literal(w), Piece(c))
<1> DEFINE n == Len(w)
           more == Append(w, c)
           L == Literal(w)
           M == Literal(more)
<1>1. /\ n \in Nat /\ more \in Seq(Letters) /\ Len(more) = n + 1 /\ more[n + 1] = c
      /\ \A i \in 1 .. n : more[i] = w[i]
  BY AppendProperties
<1>2. /\ L \in Seq(Pieces) /\ Len(L) = n /\ \A i \in 1 .. n : L[i] = Piece(w[i])
  BY LiteralType
<1>3. /\ M \in Seq(Pieces) /\ Len(M) = n + 1 /\ \A i \in 1 .. n + 1 : M[i] = Piece(more[i])
  <2> HIDE DEF more
  <2> QED
    BY <1>1, LiteralType
<1>4. Piece(c) \in Pieces
  BY PieceType
<1> HIDE DEF L, M, more
<1>5. M = Append(L, Piece(c))
  <2>1. /\ Append(L, Piece(c)) \in Seq(Pieces) /\ Len(Append(L, Piece(c))) = n + 1
        /\ Append(L, Piece(c))[n + 1] = Piece(c)
        /\ \A i \in 1 .. n : Append(L, Piece(c))[i] = L[i]
    BY <1>2, <1>4, AppendProperties
  <2>2. \A i \in 1 .. n + 1 : i \in 1 .. n \/ i = n + 1
    BY <1>1
  <2>3. \A i \in 1 .. n + 1 : M[i] = Append(L, Piece(c))[i]
    BY <1>1, <1>2, <1>3, <2>1, <2>2
  <2> QED
    BY <1>3, <2>1, <2>3, SeqEqual
<1>6. regex \o Append(L, Piece(c)) = Append(regex \o L, Piece(c))
  BY <1>2, <1>4
<1> QED
  BY <1>5, <1>6 DEF L, M, more

(* A sequence is its front and its last element. *)
LEMMA AppendFront ==
    ASSUME NEW S, NEW w \in Seq(S), NEW j \in Nat, Len(w) = j + 1
    PROVE  /\ SubSeq(w, 1, j) \in Seq(S) /\ Len(SubSeq(w, 1, j)) = j /\ w[j + 1] \in S
           /\ \A i \in 1 .. j : SubSeq(w, 1, j)[i] = w[i]
           /\ w = Append(SubSeq(w, 1, j), w[j + 1])
<1> DEFINE v == SubSeq(w, 1, j)
           u == Append(v, w[j + 1])
<1>1. w[j + 1] \in S
  OBVIOUS
<1>2. v \in Seq(S) /\ Len(v) = j /\ \A i \in 1 .. j : v[i] = w[i]
  OBVIOUS
<1> HIDE DEF v
<1>3. u \in Seq(S) /\ Len(u) = j + 1 /\ u[j + 1] = w[j + 1] /\ \A i \in 1 .. j : u[i] = v[i]
  BY <1>1, <1>2, AppendProperties
<1> HIDE DEF u
<1>4. \A i \in 1 .. j + 1 : i \in 1 .. j \/ i = j + 1
  OBVIOUS
<1>5. w = u
  BY <1>2, <1>3, <1>4, SeqEqual
<1> QED
  BY <1>1, <1>2, <1>5 DEF u, v

(* A literal, written where the first k segments have been matched, ends  *)
(* where the segment begun there is that literal.                          *)
LEMMA LiteralEnds ==
    ASSUME NEW s \in Seq(Symbols), NEW P, NEW k \in Nat, NEW lit \in Seq(Letters),
           NEW regex \in Seq(Pieces), Ends(regex, s) = AtWord(P, s, k, <<>>)
    PROVE  /\ regex \o Literal(lit) \in Seq(Pieces)
           /\ Ends(regex \o Literal(lit), s) = AtWord(P, s, k, lit)
<1> DEFINE Good(w) == Ends(regex \o Literal(w), s) = AtWord(P, s, k, w)
           T == {j \in Nat : \A w \in Seq(Letters) : Len(w) = j => Good(w)}
<1>0. \A w \in Seq(Letters) : regex \o Literal(w) \in Seq(Pieces)
  <2> TAKE w \in Seq(Letters)
  <2>1. Literal(w) \in Seq(Pieces)
    BY LiteralType
  <2> QED
    BY <2>1
<1>1. 0 \in T
  <2> SUFFICES ASSUME NEW w \in Seq(Letters), Len(w) = 0 PROVE Good(w)
    OBVIOUS
  <2>1. w = <<>>
    OBVIOUS
  <2>2. Literal(w) \in Seq(Pieces) /\ Len(Literal(w)) = 0
    BY LiteralType, Zenon
  <2>3. regex \o Literal(w) = regex
    <3> HIDE DEF Literal
    <3>1. Literal(w) = <<>>
      BY <2>2
    <3> QED
      BY <3>1
  <2> QED
    BY <2>1, <2>3, Zenon
<1>2. ASSUME NEW j \in T PROVE j + 1 \in T
  <2> SUFFICES ASSUME NEW w \in Seq(Letters), Len(w) = j + 1 PROVE Good(w)
    OBVIOUS
  <2> DEFINE v == SubSeq(w, 1, j)
             c == w[j + 1]
  <2>1. v \in Seq(Letters) /\ Len(v) = j /\ c \in Letters /\ w = Append(v, c)
    BY AppendFront
  <2> HIDE DEF v, c
  <2>2. Good(v)
    BY <1>2, <2>1
  <2>3. regex \o Literal(w) = Append(regex \o Literal(v), Piece(c))
    BY <2>1, LiteralAppend
  <2>4. regex \o Literal(v) \in Seq(Pieces) /\ Piece(c) \in Pieces
    BY <1>0, <2>1, PieceType
  <2>5. Ends(regex \o Literal(w), s) = Step(Ends(regex \o Literal(v), s), Piece(c), s)
    BY <2>3, <2>4, EndsStep, Zenon
  <2>6. Step(AtWord(P, s, k, v), Piece(c), s) = AtWord(P, s, k, Append(v, c))
    BY <2>1, LetterStep
  <2> QED
    BY <2>1, <2>2, <2>5, <2>6
<1>3. T = Nat
  <2> HIDE DEF T
  <2>1. T \in SUBSET Nat
    BY DEF T
  <2> QED
    BY <1>1, <1>2, <2>1, NatInd
<1>4. Good(lit)
  <2>1. Len(lit) \in T
    BY <1>3
  <2> HIDE DEF Good
  <2> QED
    BY <2>1
<1> QED
  BY <1>0, <1>4

(* The segments a pattern may have before the last. *)
Simple(segment) == segment = <<"*">> \/ segment \in Seq(Letters)

(* A literal is no wildcard. *)
LEMMA NoStar ==
    ASSUME NEW w \in Seq(Letters)
    PROVE  w # <<"*">> /\ w # <<"*", "*">>
<1>1. "*" \notin Letters
  BY WildcardAssumption
<1>2. \A v : Len(v) >= 1 /\ v[1] = "*" => w # v
  BY <1>1
<1>3. Len(<<"*">>) = 1 /\ <<"*">>[1] = "*" /\ Len(<<"*", "*">>) = 2 /\ <<"*", "*">>[1] = "*"
  OBVIOUS
<1> QED
  BY <1>2, <1>3

(* Agreement on one segment more. *)
LEMMA AgreeMore ==
    ASSUME NEW P, NEW d, NEW k \in Nat, Len(d) = k + 1
    PROVE  Agree(P, d, k + 1) <=>
              /\ Agree(P, d, k)
              /\ IF P[k + 1] = <<"*">> THEN d[k + 1] # <<>> ELSE d[k + 1] = P[k + 1]
<1>1. \A i : i \in 1 .. k + 1 <=> i \in 1 .. k \/ i = k + 1
  OBVIOUS
<1>2. k + 1 >= k
  OBVIOUS
<1> QED
  BY <1>1, <1>2 DEF Agree

(* What is written for a segment is a sequence of pieces. *)
LEMMA BodyType ==
    ASSUME NEW regex \in Seq(Pieces), NEW segment, Simple(segment)
    PROVE  Body(regex, segment) \in Seq(Pieces)
<1>1. CASE segment = <<"*">>
  <2>1. Piece("word") \in Pieces
    BY PieceType
  <2> QED
    BY <1>1, <2>1 DEF Body
<1>2. CASE segment \in Seq(Letters)
  <2>1. Literal(segment) \in Seq(Pieces)
    BY <1>2, LiteralType
  <2>2. segment # <<"*">>
    BY <1>2, NoStar
  <2> QED
    BY <2>1, <2>2 DEF Body
<1> QED
  BY <1>1, <1>2 DEF Simple

(* A segment, written where the first k have been matched, ends where the *)
(* first k + 1 have been matched and no other has begun.                   *)
LEMMA BodyEnds ==
    ASSUME NEW s \in Seq(Symbols), NEW P, NEW k \in Nat, Simple(P[k + 1]),
           NEW regex \in Seq(Pieces), Ends(regex, s) = AtWord(P, s, k, <<>>)
    PROVE  Ends(Body(regex, P[k + 1]), s) = Whole(P, s, k + 1)
<1> DEFINE D == Splits(s)
           Fits(d) == IF P[k + 1] = <<"*">> THEN d[k + 1] # <<>> ELSE d[k + 1] = P[k + 1]
           To == {q \in 0 .. Len(s) : /\ Len(D[q]) = k + 1
                                      /\ Agree(P, D[q], k)
                                      /\ Fits(D[q])}
<1>1. Whole(P, s, k + 1) = To
  <2>1. \A q \in 0 .. Len(s) : Len(D[q]) = k + 1 =>
           (Agree(P, D[q], k + 1) <=> Agree(P, D[q], k) /\ Fits(D[q]))
    BY AgreeMore, Zenon
  <2> HIDE DEF Fits
  <2> QED
    BY <2>1 DEF Whole
<1>2. CASE P[k + 1] = <<"*">>
  <2>1. Body(regex, P[k + 1]) = Append(regex, Piece("word")) /\ Piece("word") \in Pieces
    BY <1>2, PieceType DEF Body
  <2>2. Ends(Body(regex, P[k + 1]), s) = Step(AtWord(P, s, k, <<>>), Piece("word"), s)
    BY <2>1, EndsStep
  <2> HIDE DEF D
  <2>3. Step(AtWord(P, s, k, <<>>), Piece("word"), s)
           = {q \in 0 .. Len(s) : Len(D[q]) = k + 1 /\ Agree(P, D[q], k) /\ D[q][k + 1] # <<>>}
    BY WordStep DEF D
  <2> QED
    BY <1>1, <1>2, <2>2, <2>3, Zenon
<1>3. CASE P[k + 1] \in Seq(Letters)
  <2>1. P[k + 1] # <<"*">>
    BY <1>3, NoStar, Zenon
  <2>2. Body(regex, P[k + 1]) = regex \o Literal(P[k + 1])
    BY <2>1 DEF Body
  <2>3. Ends(Body(regex, P[k + 1]), s) = AtWord(P, s, k, P[k + 1])
    BY <1>3, <2>2, LiteralEnds
  <2> QED
    BY <1>1, <2>1, <2>3 DEF AtWord
<1> QED
  BY <1>2, <1>3 DEF Simple

(* A "?" is written behind the last piece. *)
LEMMA OptionalAppend ==
    ASSUME NEW regex \in Seq(Pieces), NEW c, Piece(c) \in Pieces
    PROVE  Optional(Append(regex, Piece(c))) = Append(regex, [piece |-> c, optional |-> TRUE])
<1> DEFINE n == Len(regex)
           x == Piece(c)
           y == [piece |-> c, optional |-> TRUE]
           a == Append(regex, x)
           b == Append(regex, y)
           o == [a EXCEPT ![n + 1].optional = TRUE]
<1>1. y \in Pieces
  BY DEF Piece, Pieces
<1>2. n \in Nat
  OBVIOUS
<1>3. /\ a \in Seq(Pieces) /\ Len(a) = n + 1 /\ a[n + 1] = x
      /\ \A i \in 1 .. n : a[i] = regex[i]
  BY AppendProperties
<1>4. /\ b \in Seq(Pieces) /\ Len(b) = n + 1 /\ b[n + 1] = y
      /\ \A i \in 1 .. n : b[i] = regex[i]
  BY <1>1, AppendProperties
<1>5. Optional(a) = o
  BY <1>3 DEF Optional
<1>6. [x EXCEPT !.optional = TRUE] = y
  <2> DEFINE z == [x EXCEPT !.optional = TRUE]
  <2>1. DOMAIN y = {"piece", "optional"} /\ y["piece"] = c /\ y["optional"] = TRUE
    OBVIOUS
  <2>2. DOMAIN z = {"piece", "optional"} /\ z["piece"] = c /\ z["optional"] = TRUE
    BY DEF Piece
  <2>3. y = [f \in DOMAIN y |-> y[f]] /\ z = [f \in DOMAIN z |-> z[f]]
    BY Zenon DEF Piece
  <2> HIDE DEF y, z
  <2>4. y = z
    <3>1. \A f \in DOMAIN y : f = "piece" \/ f = "optional"
      BY <2>1, Zenon
    <3>2. DOMAIN y = DOMAIN z /\ \A f \in DOMAIN y : y[f] = z[f]
      BY <2>1, <2>2, <3>1, Zenon
    <3> QED
      BY <2>3, <3>2, Zenon
  <2> QED
    BY <2>4 DEF z
<1> HIDE DEF a, b, x, y
<1>7. /\ DOMAIN o = 1 .. n + 1 /\ o[n + 1] = [a[n + 1] EXCEPT !.optional = TRUE]
      /\ \A i \in 1 .. n : o[i] = a[i]
  BY <1>2, <1>3
<1>8. o[n + 1] = y
  BY <1>3, <1>6, <1>7
<1>9. DOMAIN b = 1 .. n + 1 /\ b = [i \in 1 .. n + 1 |-> b[i]]
  BY <1>2, <1>4
<1>10. o = [i \in 1 .. n + 1 |-> o[i]]
  BY <1>7, Zenon
<1>11. \A i \in 1 .. n + 1 : i \in 1 .. n \/ i = n + 1
  BY <1>2
<1>12. \A i \in 1 .. n + 1 : o[i] = b[i]
  BY <1>3, <1>4, <1>7, <1>8, <1>11
<1> QED
  BY <1>5, <1>9, <1>10, <1>12, Zenon DEF a, b, x, y

(* A segment is written with a separator behind it, optional or not. *)
LEMMA WrittenBody ==
    ASSUME NEW regex \in Seq(Pieces), NEW segment, Simple(segment)
    PROVE  /\ Written(regex, segment) = Append(Body(regex, segment), Piece(Separator))
           /\ Optional(Written(regex, segment))
                 = Append(Body(regex, segment), [piece |-> Separator, optional |-> TRUE])
<1>1. Written(regex, segment) = Append(Body(regex, segment), Piece(Separator))
  BY DEF Written, Body, Literal
<1>2. Body(regex, segment) \in Seq(Pieces) /\ Piece(Separator) \in Pieces
  BY BodyType, PieceType
<1> QED
  BY <1>1, <1>2, OptionalAppend

(* The separator behind a segment; the next segment begins there. *)
LEMMA WrittenEnds ==
    ASSUME NEW s \in Seq(Symbols), NEW P, NEW k \in Nat, Simple(P[k + 1]),
           NEW regex \in Seq(Pieces), Ends(regex, s) = AtWord(P, s, k, <<>>)
    PROVE  /\ Ends(Written(regex, P[k + 1]), s) = AtWord(P, s, k + 1, <<>>)
           /\ Ends(Optional(Written(regex, P[k + 1])), s)
                 = AtWord(P, s, k + 1, <<>>) \cup Whole(P, s, k + 1)
<1> DEFINE body == Body(regex, P[k + 1])
           maybe == [piece |-> Separator, optional |-> TRUE]
<1>1. body \in Seq(Pieces) /\ Piece(Separator) \in Pieces /\ maybe \in Pieces
  BY BodyType, PieceType
<1>2. Ends(body, s) = Whole(P, s, k + 1)
  BY BodyEnds
<1>3. Reach(Whole(P, s, k + 1), Separator, s) = AtWord(P, s, k + 1, <<>>)
  BY SeparatorStep
<1>4. /\ Written(regex, P[k + 1]) = Append(body, Piece(Separator))
      /\ Optional(Written(regex, P[k + 1])) = Append(body, maybe)
  BY WrittenBody, Zenon
<1> HIDE DEF body
<1>5. Ends(Append(body, Piece(Separator)), s) = Step(Whole(P, s, k + 1), Piece(Separator), s)
  BY <1>1, <1>2, EndsStep
<1>6. Ends(Append(body, maybe), s) = Step(Whole(P, s, k + 1), maybe, s)
  <2> HIDE DEF maybe
  <2> QED
    BY <1>1, <1>2, EndsStep
<1>7. Step(Whole(P, s, k + 1), Piece(Separator), s) = Reach(Whole(P, s, k + 1), Separator, s)
  BY DEF Step, Piece
<1>8. Step(Whole(P, s, k + 1), maybe, s)
         = Reach(Whole(P, s, k + 1), Separator, s) \cup Whole(P, s, k + 1)
  BY DEF Step
<1> QED
  BY <1>3, <1>4, <1>5, <1>6, <1>7, <1>8, Zenon

-----------------------------------------------------------------------------
(* The loop over the segments of a pattern. *)

(* The segments of a pattern that is not rejected. *)
Valid(P) ==
    /\ P \in Segments
    /\ \A i \in 1 .. Len(P) : \/ Simple(P[i])
                              \/ P[i] = <<"*", "*">> /\ i = Len(P)

Output == {r \in Seq(Pieces) : Len(r) >= 1}

(* A "?" leaves a sequence of pieces. *)
LEMMA OptionalType ==
    ASSUME NEW regex \in Output
    PROVE  Optional(regex) \in Seq(Pieces)
<1> DEFINE n == Len(regex)
           x == [regex[n] EXCEPT !.optional = TRUE]
           o == Optional(regex)
<1>1. regex \in Seq(Pieces) /\ n \in 1 .. Len(regex) /\ regex[n] \in Pieces
  BY DEF Output
<1>2. x \in Pieces
  BY <1>1, Zenon DEF Pieces
<1>3. o = [regex EXCEPT ![n] = x]
  BY DEF Optional
<1> HIDE DEF x, o
<1>4. o \in Seq(Pieces)
  BY <1>1, <1>2, <1>3, ExceptSeq
<1> QED
  BY <1>4 DEF o

(* So does a turn of the loop, and something has been written. *)
LEMMA SegmentType ==
    ASSUME NEW regex \in Output, NEW segment, NEW last,
           Simple(segment) \/ segment = <<"*", "*">>
    PROVE  Segment(regex, segment, last) \in Output
<1>0. regex \in Seq(Pieces) /\ Len(regex) \in Nat /\ Len(regex) >= 1
  BY DEF Output
<1>1. CASE segment = <<"*", "*">>
  <2> DEFINE o == Optional(regex)
  <2>1. o \in Seq(Pieces)
    BY OptionalType
  <2>2. Piece("rest") \in Pieces
    BY PieceType
  <2>3. Segment(regex, segment, last) = Append(o, Piece("rest"))
    BY <1>1 DEF Segment
  <2> HIDE DEF o
  <2>4. Append(o, Piece("rest")) \in Seq(Pieces) /\ Len(Append(o, Piece("rest"))) = Len(o) + 1
    BY <2>1, <2>2, AppendProperties
  <2> QED
    BY <2>1, <2>3, <2>4 DEF Output
<1>2. CASE segment # <<"*", "*">>
  <2>1. Simple(segment)
    BY <1>2
  <2> DEFINE body == Body(regex, segment)
             maybe == [piece |-> Separator, optional |-> TRUE]
  <2>2. body \in Seq(Pieces) /\ Piece(Separator) \in Pieces /\ maybe \in Pieces
    BY <1>0, <2>1, BodyType, PieceType
  <2>3. \/ Segment(regex, segment, last) = Append(body, Piece(Separator))
        \/ Segment(regex, segment, last) = Append(body, maybe)
    BY <1>0, <1>2, <2>1, WrittenBody, Zenon DEF Segment
  <2> HIDE DEF body, maybe
  <2>4. \A x \in Pieces : Append(body, x) \in Output
    <3> TAKE x \in Pieces
    <3>1. Append(body, x) \in Seq(Pieces) /\ Len(Append(body, x)) = Len(body) + 1
      BY <2>2, AppendProperties
    <3> QED
      BY <2>2, <3>1 DEF Output
  <2> QED
    BY <2>2, <2>3, <2>4, Zenon
<1> QED
  BY <1>1, <1>2

(* One turn of the loop. *)
Turn(P, i, regex) == Segment(regex, P[i], i = Len(P))

(* The loop is well defined: Regexes obeys its recurrence. *)
LEMMA RegexesDef ==
    ASSUME NEW P, Valid(P)
    PROVE  /\ Regexes(P) \in [0 .. Len(P) -> Output]
           /\ Regexes(P)[0] = <<Piece("^")>>
           /\ \A i \in 1 .. Len(P) : Regexes(P)[i] = Turn(P, i, Regexes(P)[i - 1])
<1> DEFINE n == Len(P)
           base == <<Piece("^")>>
           step == [x \in (1 .. n) \X Output |-> Turn(P, x[1], x[2])]
           R == Regexes(P)
<1>0. n \in Nat
  BY DEF Valid, Segments
<1>2. base \in Output
  <2>1. Piece("^") \in Pieces
    BY PieceType
  <2> HIDE DEF base
  <2>2. base \in Seq(Pieces) /\ Len(base) = 1
    BY <2>1 DEF base
  <2> QED
    BY <2>2 DEF Output
<1>3. step \in [(1 .. n) \X Output -> Output]
  <2>1. \A i \in 1 .. n : \A r \in Output : Turn(P, i, r) \in Output
    BY SegmentType, Zenon DEF Turn, Valid
  <2> QED
    BY <2>1
<1>a. PICK h : Recurrence(h, n, Output, base, step)
  <2> HIDE DEF n, base, step
  <2> QED
    BY <1>0, <1>2, <1>3, RecursionExists, Zenon
<1>4. /\ h \in [0 .. n -> Output]
      /\ h[0] = base
      /\ \A i \in 1 .. n : h[i] = step[<<i, h[i - 1]>>]
  <2> HIDE DEF n, base, step
  <2> QED
    BY <1>a DEF Recurrence
<1>5. \A i \in 1 .. n : h[i] = Turn(P, i, h[i - 1])
  <2> TAKE i \in 1 .. n
  <2>1. i - 1 \in 0 .. n
    BY <1>0
  <2> HIDE DEF n, base
  <2>2. <<i, h[i - 1]>> \in (1 .. n) \X Output
    BY <2>1, <1>4
  <2> QED
    BY <1>4, <2>2, Zenon
<1> DEFINE Def(g) == [i \in 0 .. n |-> IF i = 0 THEN base ELSE Turn(P, i, g[i - 1])]
<1>6. h = Def(h)
  <2>1. \A i \in 0 .. n : h[i] = IF i = 0 THEN base ELSE Turn(P, i, h[i - 1])
    <3> TAKE i \in 0 .. n
    <3>1. i = 0 \/ i \in 1 .. n
      BY <1>0
    <3> HIDE DEF n, base, step
    <3> QED
      BY <1>4, <1>5, <3>1
  <2> HIDE DEF n, base, step
  <2> QED
    BY <2>1, <1>4
<1>7. R = CHOOSE g : g = Def(g)
  BY DEF Regexes, Turn
<1>8. R = Def(R)
  <2> HIDE DEF Def, R
  <2> QED
    BY <1>6, <1>7
<1>9. /\ R[0] = base
      /\ \A i \in 1 .. n : R[i] = Turn(P, i, R[i - 1])
  <2>1. \A q \in 1 .. n : q \in 0 .. n /\ q # 0
    BY <1>0
  <2>2. 0 \in 0 .. n
    BY <1>0
  <2> HIDE DEF n, base, step, R
  <2> QED
    BY <1>8, <2>1, <2>2, Zenon
<1>10. \A i \in 0 .. n : R[i] = h[i]
  <2>1. InStep(R, h, n)
    <3> HIDE DEF n, base, step, R
    <3> QED
      BY <1>4, <1>5, <1>9 DEF InStep
  <2> HIDE DEF n, R
  <2> QED
    BY <1>0, <2>1, RecursionUnique DEF Same
<1>11. R \in [0 .. n -> Output]
  <2> HIDE DEF n, base, R
  <2>1. \A i \in 0 .. n : R[i] \in Output
    BY <1>4, <1>10
  <2>2. R = [i \in 0 .. n |-> R[i]]
    BY <1>8
  <2> QED
    BY <2>1, <2>2
<1> QED
  BY <1>9, <1>11

(* Only the start of the text is at the beginning of the first segment. *)
LEMMA StartOnly ==
    ASSUME NEW s \in Seq(Symbols), NEW P
    PROVE  AtWord(P, s, 0, <<>>) = {0}
<1> DEFINE D == Splits(s)
<1>1. 0 \in AtWord(P, s, 0, <<>>)
  <2>1. D[0] = << <<>> >> /\ 0 \in 0 .. Len(s)
    BY SplitsDef
  <2>2. Len(D[0]) = 1 /\ D[0][1] = <<>>
    BY <2>1
  <2>3. Agree(P, D[0], 0)
    BY <2>2 DEF Agree
  <2> QED
    BY <2>1, <2>2, <2>3 DEF AtWord
<1>2. ASSUME NEW q \in 1 .. Len(s) PROVE q \notin AtWord(P, s, 0, <<>>)
  <2> SUFFICES ASSUME Len(D[q]) = 1, D[q][1] = <<>> PROVE FALSE
    BY DEF AtWord
  <2>1. s[q] = Separator
    BY LastSegment
  <2>a. q - 1 \in 0 .. Len(s)
    OBVIOUS
  <2>2. Len(D[q - 1]) \in Nat /\ Len(D[q - 1]) >= 1
    BY <2>a, SplitsAt, Zenon
  <2>3. Len(D[q]) = Len(D[q - 1]) + 1
    BY <2>1, SplitStep DEF Grows
  <2>4. \A x \in Nat : x >= 1 => x + 1 # 1
    OBVIOUS
  <2> HIDE DEF D
  <2> QED
    BY <2>2, <2>3, <2>4, Zenon
<1>3. \A q \in AtWord(P, s, 0, <<>>) : q = 0 \/ q \in 1 .. Len(s)
  BY DEF AtWord
<1> QED
  BY <1>1, <1>2, <1>3

(* "^" holds at the start; behind a "?" it holds everywhere. *)
LEMMA EmptyEnds ==
    ASSUME NEW s \in Seq(Symbols)
    PROVE  /\ Ends(<<Piece("^")>>, s) = {0}
           /\ Ends(Optional(<<Piece("^")>>), s) = 0 .. Len(s)
<1> DEFINE maybe == [piece |-> "^", optional |-> TRUE]
           none == <<>>
<1>1. Ends(none, s) = 0 .. Len(s)
  BY ReachedDef DEF Ends
<1>2. none \in Seq(Pieces) /\ Piece("^") \in Pieces /\ maybe \in Pieces
  BY PieceType DEF Pieces
<1>3. <<Piece("^")>> = Append(none, Piece("^"))
  OBVIOUS
<1>4. Optional(<<Piece("^")>>) = Append(none, maybe)
  BY <1>2, <1>3, OptionalAppend, Zenon
<1> HIDE DEF none
<1>5. Ends(Append(none, Piece("^")), s) = Step(0 .. Len(s), Piece("^"), s)
  BY <1>1, <1>2, EndsStep
<1>6. Ends(Append(none, maybe), s) = Step(0 .. Len(s), maybe, s)
  <2> HIDE DEF maybe
  <2> QED
    BY <1>1, <1>2, EndsStep
<1>7. Reach(0 .. Len(s), "^", s) = {0}
  <2>1. 0 \in 0 .. Len(s)
    OBVIOUS
  <2>2. Reach(0 .. Len(s), "^", s) = (0 .. Len(s)) \cap {0}
    BY DEF Reach
  <2> QED
    BY <2>1, <2>2
<1>8. Step(0 .. Len(s), Piece("^"), s) = {0}
  BY <1>7 DEF Step, Piece
<1>9. Step(0 .. Len(s), maybe, s) = 0 .. Len(s)
  <2>1. Step(0 .. Len(s), maybe, s) = {0} \cup 0 .. Len(s)
    BY <1>7 DEF Step
  <2>2. 0 \in 0 .. Len(s)
    OBVIOUS
  <2> QED
    BY <2>1, <2>2, Zenon
<1> QED
  BY <1>3, <1>4, <1>5, <1>6, <1>8, <1>9, Zenon

(* After k segments, the separator behind the last of them included, the  *)
(* matcher is where segment k + 1 of the input begins and the first k      *)
(* agree with the pattern: the invariant of the loop.                      *)
LEMMA LoopEnds ==
    ASSUME NEW P, Valid(P), NEW s \in Seq(Symbols)
    PROVE  \A k \in 0 .. Len(P) - 1 : Ends(Regexes(P)[k], s) = AtWord(P, s, k, <<>>)
<1> DEFINE n == Len(P)
           R == Regexes(P)
           Good(k) == Ends(R[k], s) = AtWord(P, s, k, <<>>)
           T == {k \in Nat : k < n => Good(k)}
<1>0. n \in Nat /\ n >= 1
  BY DEF Valid, Segments
<1>1. 0 \in T
  BY RegexesDef, EmptyEnds, StartOnly, Zenon
<1>2. ASSUME NEW k \in T PROVE k + 1 \in T
  <2> SUFFICES ASSUME k + 1 < n PROVE Good(k + 1)
    OBVIOUS
  <2>1. k \in 0 .. n /\ k + 1 \in 1 .. n /\ (k + 1) - 1 = k /\ k < n
    BY <1>0
  <2>2. R[k] \in Seq(Pieces)
    BY <2>1, RegexesDef DEF Output
  <2>3. Good(k)
    BY <1>2, <2>1
  <2>4. Simple(P[k + 1])
    BY <1>0, <2>1 DEF Valid
  <2>5. P[k + 1] # <<"*", "*">>
    <3>1. <<"*">> # <<"*", "*">>
      OBVIOUS
    <3> QED
      BY <2>4, <3>1, NoStar, Zenon DEF Simple
  <2>6. R[k + 1] = Turn(P, k + 1, R[k])
    BY <2>1, RegexesDef
  <2>7. R[k + 1] = Written(R[k], P[k + 1])
    BY <1>0, <2>1, <2>5, <2>6 DEF Turn, Segment
  <2> HIDE DEF R
  <2> QED
    BY <2>2, <2>3, <2>4, <2>7, WrittenEnds
<1>3. T = Nat
  <2> HIDE DEF T
  <2>1. T \in SUBSET Nat
    BY DEF T
  <2> QED
    BY <1>1, <1>2, <2>1, NatInd
<1>4. \A k \in 0 .. n - 1 : Good(k)
  <2> HIDE DEF Good
  <2>1. \A k \in 0 .. n - 1 : k \in Nat /\ k < n
    BY <1>0
  <2> QED
    BY <1>3, <2>1
<1> QED
  BY <1>4

(* After the last segment, when that is not "**". *)
LEMMA LastEnds ==
    ASSUME NEW P, Valid(P), Simple(P[Len(P)]), NEW s \in Seq(Symbols)
    PROVE  Ends(Regexes(P)[Len(P)], s) = AtWord(P, s, Len(P), <<>>) \cup Whole(P, s, Len(P))
<1> DEFINE n == Len(P)
           R == Regexes(P)
           m == n - 1
<1>0. n \in Nat /\ n >= 1
  BY DEF Valid, Segments
<1>1. m \in Nat /\ m \in 0 .. n /\ m \in 0 .. n - 1 /\ m + 1 = n /\ n \in 1 .. n
  BY <1>0
<1>2. R[m] \in Seq(Pieces) /\ R[n] = Turn(P, n, R[m])
  BY <1>1, RegexesDef DEF Output
<1>3. Ends(R[m], s) = AtWord(P, s, m, <<>>)
  BY <1>1, LoopEnds
<1>4. P[n] # <<"*", "*">>
  <2>1. <<"*">> # <<"*", "*">>
    OBVIOUS
  <2> QED
    BY <2>1, NoStar, Zenon DEF Simple
<1>5. R[n] = Optional(Written(R[m], P[n]))
  BY <1>2, <1>4 DEF Turn, Segment
<1> HIDE DEF R, m
<1>6. /\ Simple(P[m + 1])
      /\ R[n] = Optional(Written(R[m], P[m + 1]))
  BY <1>1, <1>5
<1>7. Ends(R[n], s) = AtWord(P, s, m + 1, <<>>) \cup Whole(P, s, m + 1)
  BY <1>1, <1>2, <1>3, <1>6, WrittenEnds
<1> QED
  BY <1>1, <1>7 DEF R

(* After a final "**": at the end of the input, when its segments agree    *)
(* with those before it.                                                   *)
LEMMA RestEnds ==
    ASSUME NEW P, Valid(P), P[Len(P)] = <<"*", "*">>, NEW s \in Seq(Symbols)
    PROVE  Len(s) \in Ends(Regexes(P)[Len(P)], s) <=> Agree(P, Split(s), Len(P) - 1)
<1> DEFINE n == Len(P)
           R == Regexes(P)
           m == n - 1
           D == Splits(s)
           e == Len(s)
           F == Ends(Optional(R[m]), s)
<1>0. n \in Nat /\ n >= 1
  BY DEF Valid, Segments
<1>1. m \in Nat /\ m \in 0 .. n /\ n \in 1 .. n
  BY <1>0
<1>2. R[m] \in Output /\ R[n] = Turn(P, n, R[m])
  BY <1>1, RegexesDef
<1>3. R[n] = Append(Optional(R[m]), Piece("rest"))
  BY <1>2 DEF Turn, Segment
<1>4. Optional(R[m]) \in Seq(Pieces) /\ Piece("rest") \in Pieces
  <2>1. Piece("rest") \in Pieces
    BY PieceType
  <2>2. Optional(R[m]) \in Seq(Pieces)
    BY <1>2, OptionalType
  <2> QED
    BY <2>1, <2>2
<1>5. Ends(R[n], s) = Step(F, Piece("rest"), s)
  <2> HIDE DEF R
  <2> QED
    BY <1>3, <1>4, EndsStep
<1>6. Step(F, Piece("rest"), s)
         = F \cup {q \in 1 .. Len(s) : \E p \in F : p < q /\ s[p + 1] = Separator}
  <2> HIDE DEF F
  <2> QED
    BY DEF Step, Piece, Reach
<1>7. e \in Nat /\ e \in 0 .. Len(s) /\ Len(D[e]) \in Nat /\ Split(s) = D[e]
  <2>1. e \in Nat /\ e \in 0 .. Len(s)
    OBVIOUS
  <2> QED
    BY <2>1, SplitsAt DEF Split
<1>8. CASE n = 1
  <2>1. R[m] = <<Piece("^")>>
    BY <1>8, RegexesDef
  <2>2. F = 0 .. Len(s)
    BY <2>1, EmptyEnds
  <2>3. e \in Ends(R[n], s)
    BY <1>5, <1>6, <1>7, <2>2
  <2>4. Agree(P, D[e], m)
    BY <1>7, <1>8 DEF Agree
  <2> QED
    BY <1>7, <2>3, <2>4
<1>9. CASE n > 1
  <2> DEFINE l == n - 2
  <2>1. /\ l \in Nat /\ l \in 0 .. n /\ l \in 0 .. n - 1 /\ l + 1 = m
        /\ m \in 1 .. n /\ m # n /\ m >= 1 /\ m - 1 = l
    <3> HIDE DEF n
    <3> QED
      BY <1>0, <1>9
  <2>2. R[l] \in Seq(Pieces) /\ R[m] = Turn(P, m, R[l])
    <3> HIDE DEF l, m, n
    <3>1. R[l] \in Output /\ R[m] = Turn(P, m, R[m - 1])
      BY <2>1, RegexesDef, Zenon DEF n
    <3> QED
      BY <2>1, <3>1, Zenon DEF Output
  <2>3. Ends(R[l], s) = AtWord(P, s, l, <<>>)
    <3> HIDE DEF l
    <3> QED
      BY <2>1, LoopEnds, Zenon
  <2>4. Simple(P[m])
    BY <2>1, Zenon DEF Valid
  <2>5. P[m] # <<"*", "*">>
    <3>1. <<"*">> # <<"*", "*">>
      OBVIOUS
    <3> QED
      BY <2>4, <3>1, NoStar, Zenon DEF Simple
  <2>6. R[m] = Written(R[l], P[m])
    BY <2>1, <2>2, <2>5, Zenon DEF Turn, Segment
  <2>7. F = AtWord(P, s, m, <<>>) \cup Whole(P, s, m)
    <3> HIDE DEF R, l, m
    <3>1. R[m] = Written(R[l], P[l + 1]) /\ Simple(P[l + 1])
      BY <2>1, <2>4, <2>6, Zenon
    <3>2. Ends(Optional(Written(R[l], P[l + 1])), s)
             = AtWord(P, s, l + 1, <<>>) \cup Whole(P, s, l + 1)
      BY <2>1, <2>2, <2>3, <3>1, WrittenEnds
    <3> QED
      BY <2>1, <3>1, <3>2
  <2> HIDE DEF F, R, l, m
  <2>8. \A p \in F : p \in 0 .. Len(s) /\ Len(D[p]) \in Nat /\ Agree(P, D[p], m)
    BY <2>7, SplitsAt DEF AtWord, Whole
  <2>9. ASSUME e \in Ends(R[n], s) PROVE Agree(P, D[e], m)
    <3>1. CASE e \in F
      BY <2>8, <3>1
    <3>2. ASSUME NEW p \in F, p < e, s[p + 1] = Separator PROVE Agree(P, D[e], m)
      <4>1. p \in 0 .. Len(s) - 1 /\ e \in p + 1 .. Len(s)
        BY <1>7, <2>8, <3>2
      <4>2. /\ Len(D[p]) < Len(D[e])
            /\ \A i \in 1 .. Len(D[p]) : D[e][i] = D[p][i]
        BY <3>2, <4>1, SplitEnded, Zenon
      <4>3. Agree(P, D[p], m) /\ m <= Len(D[p]) /\ Len(D[p]) \in Nat
        BY <2>8 DEF Agree
      <4> HIDE DEF D, e
      <4>4. m <= Len(D[e]) /\ \A i \in 1 .. m : D[p][i] = D[e][i]
        BY <1>1, <1>7, <4>2, <4>3
      <4> QED
        BY <1>1, <1>7, <4>3, <4>4, AgreeSame
    <3> QED
      BY <1>5, <1>6, <2>9, <3>1, <3>2
  <2>10. ASSUME Agree(P, D[e], m) PROVE e \in Ends(R[n], s)
    <3>1. m <= Len(D[e])
      BY <2>10 DEF Agree
    <3>2. CASE m = Len(D[e])
      <4>1. e \in Whole(P, s, m)
        BY <1>7, <2>10, <3>2 DEF Whole
      <4> QED
        BY <1>5, <1>6, <2>7, <4>1, Zenon
    <3>3. CASE m < Len(D[e])
      <4>1. PICK p \in 0 .. e - 1 : s[p + 1] = Separator /\ Len(D[p]) = m
        BY <1>1, <1>7, <2>1, <3>3, SplitBoundary, Zenon
      <4>2. /\ p \in 0 .. Len(s) - 1 /\ e \in p + 1 .. Len(s)
            /\ p \in 0 .. Len(s) /\ e \in 1 .. Len(s) /\ p < e
        BY <1>7
      <4>3. \A i \in 1 .. Len(D[p]) : D[e][i] = D[p][i]
        BY <4>1, <4>2, SplitEnded, Zenon
      <4>4. Agree(P, D[p], m)
        <5> HIDE DEF D, e
        <5>1. m <= Len(D[p]) /\ \A i \in 1 .. m : D[p][i] = D[e][i]
          BY <1>1, <4>1, <4>3
        <5> QED
          BY <1>1, <1>7, <2>10, <3>1, <4>1, <5>1, AgreeSame
      <4>5. p \in F
        BY <2>7, <4>1, <4>2, <4>4 DEF Whole
      <4> QED
        BY <1>5, <1>6, <4>1, <4>2, <4>5
    <3> QED
      BY <1>1, <1>7, <3>1, <3>2, <3>3
  <2>11. e \in Ends(R[n], s) <=> Agree(P, Split(s), m)
    <3>1. Split(s) = D[e]
      BY <1>7
    <3> HIDE DEF D, e, n
    <3> QED
      BY <2>9, <2>10, <3>1
  <2> QED
    BY <2>11 DEF R, m
<1>10. n = 1 \/ n > 1
  <2>1. \A x \in Nat : x >= 1 => x = 1 \/ x > 1
    OBVIOUS
  <2> QED
    BY <1>0, <2>1, Zenon
<1> QED
  BY <1>8, <1>9, <1>10, Zenon

-----------------------------------------------------------------------------
(* CompileWithSeparator and Matches as a whole. *)

(* strings.Split returns at least one segment, none with a separator. *)
LEMMA SplitType ==
    ASSUME NEW s \in Seq(Symbols)
    PROVE  /\ Split(s) \in Segments /\ Split(s) = Splits(s)[Len(s)]
           /\ Len(Split(s)) \in Nat /\ Len(Split(s)) >= 1
<1>1. Len(s) \in 0 .. Len(s)
  OBVIOUS
<1> QED
  BY <1>1, SplitsDef, SplitsAt, Zenon DEF Split

(* The patterns that CompileWithSeparator accepts have valid segments. *)
LEMMA NotRejected ==
    ASSUME NEW p \in Seq(Symbols), ~Rejected(p)
    PROVE  Valid(Split(p))
<1> DEFINE P == Split(p)
           X == Symbols \ {Separator}
<1>1. P \in Segments
  BY SplitType
<1>2. ASSUME NEW i \in 1 .. Len(P)
      PROVE  Simple(P[i]) \/ (P[i] = <<"*", "*">> /\ i = Len(P))
  <2>1. P[i] \in Seq(X)
    <3> HIDE DEF P
    <3> QED
      BY <1>1 DEF Segments
  <2>2. i \in DOMAIN P
    <3> HIDE DEF P
    <3> QED
      BY <1>1 DEF Segments
  <2>3. /\ ~(P[i] = <<"*", "*">> /\ i # Len(P))
        /\ P[i] \notin {<<"*">>, <<"*", "*">>} => \A j \in DOMAIN P[i] : P[i][j] # "*"
    BY <2>2 DEF Rejected
  <2>4. CASE P[i] \in {<<"*">>, <<"*", "*">>}
    BY <2>3, <2>4 DEF Simple
  <2>5. CASE P[i] \notin {<<"*">>, <<"*", "*">>}
    <3>1. \A j \in 1 .. Len(P[i]) : P[i][j] # "*"
      <4>1. DOMAIN P[i] = 1 .. Len(P[i])
        BY <2>1
      <4> QED
        BY <2>3, <2>5, <4>1
    <3>2. \A j \in 1 .. Len(P[i]) : P[i][j] \in Letters
      <4>1. X \ {"*"} \subseteq Letters
        BY DEF Symbols, Runes
      <4> HIDE DEF P, X
      <4> QED
        BY <2>1, <3>1, <4>1
    <3>3. P[i] \in Seq(Letters)
      <4> HIDE DEF P, X
      <4>1. Len(P[i]) \in Nat /\ P[i] = [j \in 1 .. Len(P[i]) |-> P[i][j]]
        BY <2>1
      <4> QED
        BY <3>2, <4>1
    <3> QED
      BY <3>3 DEF Simple
  <2> QED
    BY <2>4, <2>5
<1> QED
  BY <1>1, <1>2 DEF Valid

(* The whole of t is what the segments P ask for. *)
Asks(P, t) == Agree(P, Split(t), Len(P)) /\ Len(Split(t)) = Len(P)

(* The segments without the last rune are those one position before. *)
LEMMA SplitFront ==
    ASSUME NEW s \in Seq(Symbols), s # <<>>
    PROVE  /\ Len(s) \in 1 .. Len(s) /\ Len(s) - 1 \in 0 .. Len(s)
           /\ Last(s) = s[Len(s)]
           /\ Split(Front(s)) = Splits(s)[Len(s) - 1]
<1> DEFINE n == Len(s) - 1
           t == Front(s)
<1>1. n \in Nat /\ Len(s) = n + 1 /\ n \in 0 .. n /\ n <= Len(s)
  OBVIOUS
<1>2. t \in Seq(Symbols) /\ Len(t) = n /\ \A i \in 1 .. n : t[i] = s[i]
  BY <1>1, AppendFront DEF Front
<1> HIDE DEF t
<1>3. \A i \in 0 .. n : Splits(t)[i] = Splits(s)[i]
  <2> HIDE DEF n
  <2> QED
    BY <1>1, <1>2, SplitPrefix
<1>4. Split(t) = Splits(t)[n]
  BY <1>2 DEF Split
<1> QED
  BY <1>1, <1>3, <1>4 DEF t, Last

(* Before the end of the input, or before its last separator. *)
LEMMA EndAsks ==
    ASSUME NEW s \in Seq(Symbols), NEW P, Len(P) \in Nat, Len(P) >= 1
    PROVE  /\ Len(s) \in Whole(P, s, Len(P)) <=> Asks(P, s)
           /\ Len(s) \in AtWord(P, s, Len(P), <<>>)
                 <=> s # <<>> /\ Last(s) = Separator /\ Asks(P, Front(s))
<1> DEFINE n == Len(P)
           e == Len(s)
<1>1. Len(s) \in Whole(P, s, n) <=> Asks(P, s)
  <2>1. Len(s) \in 0 .. Len(s)
    OBVIOUS
  <2> QED
    BY <2>1 DEF Whole, Asks, Split
<1>2. AtWord(P, s, n, <<>>)
         = {q \in 1 .. Len(s) : q - 1 \in Whole(P, s, n) /\ s[q] = Separator}
  <2>1. Reach(Whole(P, s, n), Separator, s) = AtWord(P, s, n, <<>>)
    BY SeparatorStep
  <2> QED
    BY <2>1 DEF Reach, Separator
<1>3. CASE s = <<>>
  BY <1>1, <1>2, <1>3
<1>4. CASE s # <<>>
  <2>1. /\ e \in 1 .. Len(s) /\ e - 1 \in 0 .. Len(s)
        /\ Last(s) = s[e] /\ Split(Front(s)) = Splits(s)[e - 1]
    BY <1>4, SplitFront
  <2>2. e - 1 \in Whole(P, s, n) <=> Asks(P, Front(s))
    BY <2>1 DEF Whole, Asks
  <2> QED
    BY <1>1, <1>2, <1>4, <2>1, <2>2
<1> QED
  BY <1>3, <1>4

(* What a compiled pattern matches is what its segments mean. *)
LEMMA CompileMatches ==
    ASSUME NEW p \in Seq(Symbols), ~Rejected(p), NEW s \in Seq(Symbols)
    PROVE  Matches(CompileWithSeparator(p), s) <=> Means(p, s)
<1> DEFINE P == Split(p)
           n == Len(P)
           R == Regexes(P)[n]
<1>1. Valid(P) /\ n \in Nat /\ n >= 1
  BY NotRejected, SplitType
<1>2. Matches(CompileWithSeparator(p), s) <=> Len(s) \in Ends(R, s)
  BY DEF Matches, CompileWithSeparator, Ends
<1>3. Last(P) = P[n] /\ n \in 1 .. n
  BY <1>1 DEF Last
<1>4. CASE P[n] = <<"*", "*">>
  <2>1. Means(p, s) <=> Agree(P, Split(s), n - 1)
    BY <1>3, <1>4 DEF Means
  <2> HIDE DEF P
  <2>2. Len(s) \in Ends(R, s) <=> Agree(P, Split(s), n - 1)
    BY <1>1, <1>4, RestEnds
  <2> QED
    BY <1>2, <2>1, <2>2
<1>5. CASE P[n] # <<"*", "*">>
  <2>1. Means(p, s) <=> Asks(P, s) \/ (s # <<>> /\ Last(s) = Separator /\ Asks(P, Front(s)))
    BY <1>3, <1>5 DEF Means, Asks
  <2>2. Simple(P[n])
    BY <1>1, <1>3, <1>5 DEF Valid
  <2> HIDE DEF P
  <2>3. Ends(R, s) = AtWord(P, s, n, <<>>) \cup Whole(P, s, n)
    BY <1>1, <2>2, LastEnds
  <2>4. /\ Len(s) \in Whole(P, s, n) <=> Asks(P, s)
        /\ Len(s) \in AtWord(P, s, n, <<>>)
              <=> s # <<>> /\ Last(s) = Separator /\ Asks(P, Front(s))
    BY <1>1, EndAsks
  <2> QED
    BY <1>2, <2>1, <2>3, <2>4
<1> QED
  BY <1>4, <1>5

-----------------------------------------------------------------------------
(* The specification. *)

(* Once there is a matcher, it is the compiled pattern. *)
MatcherInv ==
    /\ pattern \in Seq(Symbols) /\ Len(pattern) <= MaxPattern
    /\ input \in Seq(Runes) /\ Len(input) <= MaxInput
    /\ phase \in {"pattern", "input", "error"}
    /\ phase = "input" => ~Rejected(pattern) /\ matcher = CompileWithSeparator(pattern)
    /\ phase # "input" => matcher = <<>>

(* The invariant holds before a pattern has been written. *)
LEMMA InitInv == Init => MatcherInv
<1> SUFFICES ASSUME Init PROVE MatcherInv
  OBVIOUS
<1>1. Len(<<>>) = 0 /\ <<>> \in Seq(Symbols) /\ <<>> \in Seq(Runes)
  OBVIOUS
<1>2. 0 <= MaxPattern /\ 0 <= MaxInput
  BY WildcardAssumption
<1> QED
  BY <1>1, <1>2 DEF Init, MatcherInv

(* Every step keeps it: only Compile sets the matcher. *)
LEMMA NextInv == MatcherInv /\ [Next]_vars => MatcherInv'
<1> SUFFICES ASSUME MatcherInv, [Next]_vars PROVE MatcherInv'
  OBVIOUS
<1>0. MaxPattern \in Nat /\ MaxInput \in Nat
  BY WildcardAssumption
<1>1. ASSUME NEW r \in Runes \cup {"*"}, WritePattern(r) PROVE MatcherInv'
  <2>1. /\ Append(pattern, r) \in Seq(Symbols)
        /\ Len(Append(pattern, r)) = Len(pattern) + 1 /\ Len(pattern) \in Nat
    BY DEF MatcherInv, Symbols
  <2>2. Len(pattern) + 1 <= MaxPattern
    BY <1>0, <1>1, <2>1 DEF WritePattern
  <2> QED
    BY <1>1, <2>1, <2>2 DEF WritePattern, MatcherInv
<1>2. ASSUME Compile PROVE MatcherInv'
  BY <1>2 DEF Compile, MatcherInv
<1>3. ASSUME NEW r \in Runes, WriteInput(r) PROVE MatcherInv'
  <2>1. /\ Append(input, r) \in Seq(Runes)
        /\ Len(Append(input, r)) = Len(input) + 1 /\ Len(input) \in Nat
    BY DEF MatcherInv
  <2>2. Len(input) + 1 <= MaxInput
    BY <1>0, <1>3, <2>1 DEF WriteInput
  <2> QED
    BY <1>3, <2>1, <2>2 DEF WriteInput, MatcherInv
<1>4. ASSUME UNCHANGED vars PROVE MatcherInv'
  BY <1>4 DEF vars, MatcherInv
<1> QED
  BY <1>1, <1>2, <1>3, <1>4 DEF Next

(* In phase "input" the matcher is the compiled pattern, and the pattern   *)
(* was not rejected (matcher.go:99-163).                                   *)
THEOREM MatcherInvariant == Spec => []MatcherInv
BY InitInv, NextInv, PTL DEF Spec

(* The pattern, the input and the matcher have their types throughout. *)
THEOREM WildcardTypeCorrect == Spec => []TypeOK
<1>1. MatcherInv => TypeOK
  <2> SUFFICES ASSUME MatcherInv PROVE TypeOK
    OBVIOUS
  <2>1. \A i \in DOMAIN matcher : matcher[i] \in Pieces
    <3>1. CASE phase = "input"
      <4> DEFINE P == Split(pattern)
      <4>1. Valid(P) /\ Len(P) \in 0 .. Len(P)
        BY <3>1, NotRejected, SplitType DEF MatcherInv
      <4>2. matcher = Regexes(P)[Len(P)]
        BY <3>1 DEF MatcherInv, CompileWithSeparator
      <4> HIDE DEF P
      <4>3. matcher \in Seq(Pieces)
        BY <4>1, <4>2, RegexesDef DEF Output
      <4> QED
        BY <4>3
    <3>2. CASE phase # "input"
      BY <3>2 DEF MatcherInv
    <3> QED
      BY <3>1, <3>2
  <2> QED
    BY <2>1 DEF MatcherInv, TypeOK, Pieces, Symbols
<1> QED
  BY <1>1, MatcherInvariant, PTL

(* An input is a sequence of symbols too. *)
LEMMA RunesAreSymbols == Seq(Runes) \subseteq Seq(Symbols)
BY DEF Symbols

(* A compiled pattern matches exactly the inputs its segments describe,    *)
(* for patterns and inputs of every length.                                *)
THEOREM MatchesTheirMeaning == Spec => []MatchesMeaning
<1>1. MatcherInv => MatchesMeaning
  <2> SUFFICES ASSUME MatcherInv, phase = "input"
               PROVE  Matches(matcher, input) <=> Means(pattern, input)
    BY DEF MatchesMeaning
  <2>1. /\ pattern \in Seq(Symbols) /\ ~Rejected(pattern) /\ input \in Seq(Symbols)
        /\ matcher = CompileWithSeparator(pattern)
    BY RunesAreSymbols DEF MatcherInv
  <2> QED
    BY <2>1, CompileMatches
<1> QED
  BY <1>1, MatcherInvariant, PTL

-----------------------------------------------------------------------------
(* What follows from the meaning. *)

(* strings.Split of one more rune. *)
LEMMA SplitAppend ==
    ASSUME NEW s \in Seq(Symbols), NEW r \in Symbols
    PROVE  /\ Append(s, r) \in Seq(Symbols)
           /\ Grows(Split(s), r, Split(Append(s, r)))
<1> DEFINE t == Append(s, r)
           n == Len(s)
<1>1. /\ t \in Seq(Symbols) /\ n \in Nat /\ Len(t) = n + 1 /\ t[n + 1] = r
      /\ \A i \in 1 .. n : t[i] = s[i]
  BY AppendProperties
<1>2. n + 1 \in 1 .. Len(t) /\ (n + 1) - 1 = n /\ n <= Len(s) /\ n <= Len(t) /\ n \in 0 .. n
  BY <1>1
<1> HIDE DEF t
<1>3. Grows(Splits(t)[n], t[n + 1], Splits(t)[n + 1])
  BY <1>1, <1>2, SplitStep
<1>4. Splits(s)[n] = Splits(t)[n]
  <2> HIDE DEF n
  <2>1. \A i \in 0 .. n : Splits(s)[i] = Splits(t)[i]
    BY <1>1, <1>2, SplitPrefix
  <2> QED
    BY <1>2, <2>1
<1> QED
  BY <1>1, <1>3, <1>4 DEF t, Split

(* A separator more leaves the segments before it, and an empty one.      *)
LEMMA SplitSeparator ==
    ASSUME NEW s \in Seq(Symbols)
    PROVE  /\ Append(s, Separator) \in Seq(Symbols)
           /\ Len(Split(Append(s, Separator))) = Len(Split(s)) + 1
           /\ Split(Append(s, Separator))[Len(Split(s)) + 1] = <<>>
           /\ \A i \in 1 .. Len(Split(s)) : Split(Append(s, Separator))[i] = Split(s)[i]
<1>1. Separator \in Symbols
  BY DEF Symbols, Runes
<1> QED
  BY <1>1, SplitAppend DEF Grows

(* Front and Last take an appended rune off again. *)
LEMMA AppendLast ==
    ASSUME NEW S, NEW s \in Seq(S), NEW r \in S
    PROVE  /\ Append(s, r) # <<>> /\ Last(Append(s, r)) = r
           /\ Front(Append(s, r)) = s
<1> DEFINE t == Append(s, r)
           n == Len(s)
<1>1. /\ t \in Seq(S) /\ n \in Nat /\ Len(t) = n + 1 /\ t[n + 1] = r
      /\ \A i \in 1 .. n : t[i] = s[i]
  BY AppendProperties
<1> HIDE DEF t
<1>2. (n + 1) - 1 = n
  BY <1>1
<1>3. Front(t) = SubSeq(t, 1, n)
  BY <1>1, <1>2 DEF Front
<1>4. /\ SubSeq(t, 1, n) \in Seq(S) /\ Len(SubSeq(t, 1, n)) = n
      /\ \A i \in 1 .. n : SubSeq(t, 1, n)[i] = t[i]
  <2> HIDE DEF n
  <2> QED
    BY <1>1, AppendFront
<1>5. Front(t) = s
  <2> DEFINE f == SubSeq(t, 1, n)
  <2>1. f \in Seq(S) /\ Len(f) = Len(s) /\ \A i \in 1 .. Len(f) : f[i] = s[i]
    BY <1>1, <1>4
  <2> HIDE DEF f
  <2>2. f = s
    BY <2>1, SeqEqual
  <2> QED
    BY <1>3, <2>2 DEF f
<1>6. t # <<>> /\ Last(t) = r
  BY <1>1 DEF Last
<1> QED
  BY <1>5, <1>6 DEF t

(* An empty segment at n agrees with an empty one only. *)
LEMMA EmptySegment ==
    ASSUME NEW P, NEW d, NEW n \in Nat, n >= 1, d[n] = <<>>, Agree(P, d, n)
    PROVE  P[n] = <<>>
<1>1. n \in 1 .. n
  OBVIOUS
<1>2. IF P[n] = <<"*">> THEN d[n] # <<>> ELSE d[n] = P[n]
  BY <1>1 DEF Agree
<1> QED
  BY <1>2

(* A trailing separator neither adds nor removes a match, whatever the     *)
(* pattern, unless the pattern itself ends in one.                         *)
LEMMA MeansTrailing ==
    ASSUME NEW p \in Seq(Symbols), NEW s \in Seq(Symbols), ~Rejected(p),
           s = <<>> \/ Last(s) # Separator,
           NEW l \in Nat,
           l = IF Last(Split(p)) = <<"*", "*">> THEN Len(Split(p)) - 1 ELSE Len(Split(p)),
           l > 1 => Split(p)[l] # <<>>
    PROVE  Means(p, s) <=> Means(p, Append(s, Separator))
<1> DEFINE P == Split(p)
           n == Len(P)
           t == Append(s, Separator)
           d == Len(Split(s))
<1>1. /\ n \in Nat /\ n >= 1 /\ d \in Nat /\ d >= 1
  BY SplitType
<1>2. /\ t \in Seq(Symbols) /\ Len(Split(t)) = d + 1 /\ Split(t)[d + 1] = <<>>
      /\ \A i \in 1 .. d : Split(t)[i] = Split(s)[i]
  BY SplitSeparator
<1>3. t # <<>> /\ Last(t) = Separator /\ Front(t) = s
  <2>1. Separator \in Symbols
    BY DEF Symbols, Runes
  <2> QED
    BY <2>1, AppendLast
<1> HIDE DEF t, P, d
<1>4. l = d + 1 => ~Agree(P, Split(t), l)
  <2> SUFFICES ASSUME l = d + 1, Agree(P, Split(t), l) PROVE FALSE
    OBVIOUS
  <2>1. Split(t)[l] = <<>> /\ l >= 1 /\ l > 1
    BY <1>1, <1>2
  <2>2. P[l] = <<>>
    BY <2>1, EmptySegment
  <2> QED
    BY <2>1, <2>2 DEF P
<1>5. \A k \in Nat : k <= d => (Agree(P, Split(s), k) <=> Agree(P, Split(t), k))
  <2> TAKE k \in Nat
  <2> HAVE k <= d
  <2>1. /\ k <= Len(Split(s)) /\ k <= Len(Split(t))
        /\ Len(Split(s)) \in Nat /\ Len(Split(t)) \in Nat
        /\ \A i \in 1 .. k : Split(s)[i] = Split(t)[i]
    BY <1>1, <1>2 DEF d
  <2> QED
    BY <2>1, AgreeSame
<1>6. CASE Last(P) = <<"*", "*">>
  <2>1. l = n - 1
    BY <1>6 DEF P
  <2>2. /\ Means(p, s) <=> Agree(P, Split(s), l)
        /\ Means(p, t) <=> Agree(P, Split(t), l)
    BY <1>6, <2>1 DEF Means, P
  <2>3. l <= d \/ l = d + 1 \/ l > d + 1
    BY <1>1
  <2>4. /\ Agree(P, Split(s), l) => l <= d
        /\ Agree(P, Split(t), l) => l <= d + 1
    BY <1>1, <1>2 DEF Agree, d
  <2>5. Agree(P, Split(s), l) <=> Agree(P, Split(t), l)
    <3>1. CASE l <= d
      BY <1>5, <3>1
    <3>2. CASE l = d + 1
      <4>1. ~(l <= d)
        BY <1>1, <3>2
      <4> QED
        BY <1>4, <2>4, <3>2, <4>1
    <3>3. CASE l > d + 1
      <4>1. ~(l <= d) /\ ~(l <= d + 1)
        BY <1>1, <3>3
      <4> QED
        BY <2>4, <4>1
    <3> QED
      BY <2>3, <3>1, <3>2, <3>3
  <2> QED
    BY <2>2, <2>5 DEF t
<1>7. CASE Last(P) # <<"*", "*">>
  <2>1. l = n
    BY <1>7 DEF P
  <2>2. /\ Means(p, s) <=> Asks(P, s) \/ (s # <<>> /\ Last(s) = Separator /\ Asks(P, Front(s)))
        /\ Means(p, t) <=> Asks(P, t) \/ (t # <<>> /\ Last(t) = Separator /\ Asks(P, Front(t)))
    BY <1>7 DEF Means, Asks, P
  <2>3. ~Asks(P, t)
    BY <1>2, <1>4, <2>1 DEF Asks
  <2> QED
    BY <1>3, <2>2, <2>3 DEF t
<1> QED
  BY <1>6, <1>7

(* A pattern that ends in a separator asks the input for it. *)
LEMMA MeansFinal ==
    ASSUME NEW p \in Seq(Symbols), NEW s \in Seq(Symbols), ~Rejected(p),
           Last(p) = Separator, s = <<>> \/ Last(s) # Separator
    PROVE  ~Means(p, s)
<1> DEFINE P == Split(p)
           n == Len(P)
           l == Len(p)
<1>1. p # <<>> /\ n \in Nat
  BY SplitType DEF Rejected
<1>2. l \in 1 .. Len(p) /\ l - 1 \in 0 .. Len(p) - 1 /\ (l - 1) + 1 = l
      /\ l \in (l - 1) + 1 .. Len(p) /\ p[l] = Separator
  BY <1>1 DEF Last
<1>3. P = Splits(p)[l] /\ P[n] = <<>>
  BY <1>2, LastSegment DEF Split
<1>4. n >= 2
  <2>1. Len(Splits(p)[l - 1]) < Len(Splits(p)[l])
    BY <1>2, SplitEnded
  <2>2. Len(Splits(p)[l - 1]) \in Nat /\ Len(Splits(p)[l - 1]) >= 1
    <3>1. l - 1 \in 0 .. Len(p)
      BY <1>2
    <3> QED
      BY <3>1, SplitsAt
  <2> QED
    BY <1>1, <1>3, <2>1, <2>2
<1>5. <<>> # <<"*", "*">> /\ <<>> # <<"*">>
  OBVIOUS
<1>6. Means(p, s) => Asks(P, s)
  BY <1>3, <1>5 DEF Means, Asks, Last
<1>7. ASSUME Asks(P, s) PROVE FALSE
  <2>1. Len(Split(s)) = n /\ Split(s)[n] = <<>>
    <3>1. Len(Split(s)) = n /\ Agree(P, Split(s), n)
      BY <1>7 DEF Asks
    <3>2. n \in 1 .. n
      BY <1>1, <1>4
    <3>3. IF P[n] = <<"*">> THEN Split(s)[n] # <<>> ELSE Split(s)[n] = P[n]
      BY <3>1, <3>2 DEF Agree
    <3> HIDE DEF P, n
    <3> QED
      BY <1>3, <1>5, <3>1, <3>3
  <2>2. s # <<>>
    <3>1. ASSUME s = <<>> PROVE Len(Split(s)) = 1
      <4>1. Len(s) = 0
        BY <3>1
      <4>2. Split(s) = << <<>> >>
        BY <4>1, SplitsDef DEF Split
      <4> QED
        BY <4>2
    <3> QED
      BY <1>4, <2>1, <3>1
  <2>3. Len(s) \in 1 .. Len(s) /\ s[Len(s)] # Separator
    BY <2>2 DEF Last
  <2>4. Split(s)[Len(Split(s))] # <<>>
    BY <2>3, LastSegment DEF Split
  <2> QED
    BY <2>1, <2>4
<1> QED
  BY <1>6, <1>7

(* A trailing separator of the input is optional for every pattern that    *)
(* does not end in one (the comment at matcher.go:36), and required by one *)
(* that does (matcher.go:140-147).                                         *)
THEOREM TrailingSeparatorIsOptional == Spec => []TrailingSeparatorOptional
<1>1. ASSUME MatcherInv, phase = "input", ~EndsInSeparator,
             input = <<>> \/ Last(input) # Separator
      PROVE  Matches(matcher, input) <=> Matches(matcher, Append(input, Separator))
  <2> DEFINE P == Split(pattern)
             t == Append(input, Separator)
             l == IF Last(P) = <<"*", "*">> THEN Len(P) - 1 ELSE Len(P)
  <2>1. /\ pattern \in Seq(Symbols) /\ ~Rejected(pattern) /\ input \in Seq(Symbols)
        /\ matcher = CompileWithSeparator(pattern)
    BY <1>1, RunesAreSymbols DEF MatcherInv
  <2>2. t \in Seq(Symbols)
    BY <2>1, SplitSeparator
  <2>3. Matches(matcher, input) <=> Means(pattern, input)
    BY <2>1, CompileMatches
  <2>4. Matches(matcher, t) <=> Means(pattern, t)
    <3> HIDE DEF t
    <3> QED
      BY <2>1, <2>2, CompileMatches
  <2>5. Len(P) \in Nat /\ Len(P) >= 1
    BY <2>1, SplitType
  <2>6. l \in Nat /\ (l > 1 => P[l] # <<>>)
    <3>1. ~(l > 1 /\ P[l] = <<>>)
      BY <1>1 DEF EndsInSeparator
    <3>2. l \in Nat
      <4> HIDE DEF P
      <4> QED
        BY <2>5
    <3> QED
      BY <3>1, <3>2
  <2>7. PICK m \in Nat : m = l
    BY <2>6, Zenon
  <2>8. Means(pattern, input) <=> Means(pattern, t)
    <3>1. /\ m = IF Last(Split(pattern)) = <<"*", "*">> THEN Len(Split(pattern)) - 1
                 ELSE Len(Split(pattern))
          /\ m > 1 => Split(pattern)[m] # <<>>
      BY <2>6, <2>7
    <3> HIDE DEF P, l, t
    <3> QED
      BY <1>1, <2>1, <3>1, MeansTrailing DEF t
  <2> QED
    BY <2>3, <2>4, <2>8
<1>2. ASSUME MatcherInv, phase = "input", Last(pattern) = Separator,
             input = <<>> \/ Last(input) # Separator
      PROVE  ~Matches(matcher, input)
  <2>1. /\ pattern \in Seq(Symbols) /\ ~Rejected(pattern) /\ input \in Seq(Symbols)
        /\ matcher = CompileWithSeparator(pattern)
    BY <1>2, RunesAreSymbols DEF MatcherInv
  <2>2. ~Means(pattern, input)
    BY <1>2, <2>1, MeansFinal
  <2> QED
    BY <2>1, <2>2, CompileMatches
<1>3. MatcherInv => TrailingSeparatorOptional
  BY <1>1, <1>2 DEF TrailingSeparatorOptional
<1> QED
  BY <1>3, MatcherInvariant, PTL

(* Behind "/**" a pattern has one segment more. *)
LEMMA WiderSplit ==
    ASSUME NEW p \in Seq(Symbols)
    PROVE  LET P == Split(p)
               w == p \o <<Separator, "*", "*">>
           IN  /\ w \in Seq(Symbols) /\ w # <<>>
               /\ Len(Split(w)) = Len(P) + 1
               /\ Split(w)[Len(P) + 1] = <<"*", "*">>
               /\ \A i \in 1 .. Len(P) : Split(w)[i] = P[i]
<1> DEFINE P == Split(p)
           n == Len(P)
           a == Append(p, Separator)
           b == Append(a, "*")
           c == Append(b, "*")
<1>1. "*" \in Symbols /\ Separator \in Symbols /\ "*" # Separator
  BY DEF Symbols, Runes, Separator
<1>2. n \in Nat /\ n >= 1
  BY SplitType
<1>3. /\ a \in Seq(Symbols) /\ Len(Split(a)) = n + 1 /\ Split(a)[n + 1] = <<>>
      /\ \A i \in 1 .. n : Split(a)[i] = P[i]
  BY SplitSeparator
<1> HIDE DEF a, P
<1>4. b \in Seq(Symbols) /\ Grows(Split(a), "*", Split(b))
  BY <1>1, <1>3, SplitAppend
<1>5. /\ Len(Split(b)) = n + 1 /\ Split(b)[n + 1] = Append(<<>>, "*")
      /\ \A i \in 1 .. n : Split(b)[i] = P[i]
  <2>1. /\ Len(Split(b)) = Len(Split(a))
        /\ Split(b)[Len(Split(a))] = Append(Split(a)[Len(Split(a))], "*")
        /\ \A i \in 1 .. Len(Split(a)) - 1 : Split(b)[i] = Split(a)[i]
    BY <1>1, <1>4 DEF Grows
  <2>2. (n + 1) - 1 = n
    BY <1>2
  <2> HIDE DEF b, n
  <2> QED
    BY <1>3, <2>1, <2>2, Zenon
<1> HIDE DEF b
<1>6. c \in Seq(Symbols) /\ Grows(Split(b), "*", Split(c))
  BY <1>1, <1>4, SplitAppend
<1>7. /\ Len(Split(c)) = n + 1 /\ Split(c)[n + 1] = Append(Append(<<>>, "*"), "*")
      /\ \A i \in 1 .. n : Split(c)[i] = P[i]
  <2>1. /\ Len(Split(c)) = Len(Split(b))
        /\ Split(c)[Len(Split(b))] = Append(Split(b)[Len(Split(b))], "*")
        /\ \A i \in 1 .. Len(Split(b)) - 1 : Split(c)[i] = Split(b)[i]
    BY <1>1, <1>6 DEF Grows
  <2>2. (n + 1) - 1 = n
    BY <1>2
  <2> HIDE DEF c, n
  <2> QED
    BY <1>5, <2>1, <2>2, Zenon
<1>8. Append(Append(<<>>, "*"), "*") = <<"*", "*">>
  <2> DEFINE x == Append(<<>>, "*")
             y == Append(x, "*")
             z == <<"*", "*">>
  <2>1. x \in Seq({"*"}) /\ Len(x) = 1 /\ x[1] = "*"
    OBVIOUS
  <2> HIDE DEF x
  <2>2. y \in Seq({"*"}) /\ Len(y) = 2 /\ y[1] = "*" /\ y[2] = "*"
    <3> DEFINE S == {"*"}
               star == "*"
    <3>1. star \in S /\ x \in Seq(S)
      BY <2>1, Zenon
    <3> HIDE DEF S, star
    <3>2. /\ y \in Seq(S) /\ Len(y) = Len(x) + 1 /\ y[Len(x) + 1] = star
          /\ \A i \in 1 .. Len(x) : y[i] = x[i]
      <4>1. /\ Append(x, star) \in Seq(S) /\ Len(Append(x, star)) = Len(x) + 1
            /\ Append(x, star)[Len(x) + 1] = star
            /\ \A i \in 1 .. Len(x) : Append(x, star)[i] = x[i]
        BY <3>1, AppendProperties
      <4> QED
        BY <4>1, Zenon DEF star
    <3> HIDE DEF y
    <3>3. 1 \in 1 .. 1 /\ 1 + 1 = 2
      OBVIOUS
    <3> QED
      BY <2>1, <3>2, <3>3, Zenon DEF S, star
  <2>3. z \in Seq({"*"}) /\ Len(z) = 2 /\ z[1] = "*" /\ z[2] = "*"
    OBVIOUS
  <2> HIDE DEF y, z
  <2>4. y = z
    <3>1. \A i \in 1 .. 2 : i = 1 \/ i = 2
      OBVIOUS
    <3>2. \A i \in 1 .. Len(y) : y[i] = z[i]
      BY <2>2, <2>3, <3>1
    <3>3. Len(y) = Len(z)
      BY <2>2, <2>3
    <3> QED
      BY <2>2, <2>3, <3>2, <3>3, SeqEqual
  <2> QED
    BY <2>4 DEF x, y, z
<1>9. c = p \o <<Separator, "*", "*">>
  BY <1>1 DEF a, b
<1>10. c # <<>>
  BY <1>1, <1>4, AppendLast
<1> HIDE DEF c
<1> QED
  BY <1>6, <1>7, <1>8, <1>9, <1>10, Zenon DEF P

(* It compiles, when the pattern does and does not end in "**" already. *)
LEMMA WiderCompiles ==
    ASSUME NEW p \in Seq(Symbols), ~Rejected(p), Last(Split(p)) # <<"*", "*">>
    PROVE  ~Rejected(p \o <<Separator, "*", "*">>)
<1> DEFINE P == Split(p)
           n == Len(P)
           w == p \o <<Separator, "*", "*">>
           W == Split(w)
<1>1. /\ w \in Seq(Symbols) /\ w # <<>>
      /\ Len(W) = n + 1 /\ W[n + 1] = <<"*", "*">>
      /\ \A i \in 1 .. n : W[i] = P[i]
  BY WiderSplit
<1>2. n \in Nat /\ n >= 1 /\ Valid(P) /\ P[n] # <<"*", "*">>
  BY SplitType, NotRejected DEF Last
<1> HIDE DEF P, w
<1>3. W \in Segments
  BY <1>1, SplitType
<1> HIDE DEF W
<1>4. \A i \in DOMAIN W : i \in 1 .. n \/ i = Len(W)
  <2>1. DOMAIN W = 1 .. n + 1
    BY <1>1, <1>3 DEF Segments
  <2> QED
    BY <1>1, <1>2, <2>1
<1>5. \A i \in 1 .. n : Simple(W[i])
  <2> TAKE i \in 1 .. n
  <2>1. Simple(P[i])
    BY <1>2 DEF Valid
  <2> QED
    BY <1>1, <2>1
<1>6. \A i \in DOMAIN W : /\ ~(W[i] = <<"*", "*">> /\ i # Len(W))
                          /\ W[i] \notin {<<"*">>, <<"*", "*">>} =>
                                \A j \in DOMAIN W[i] : W[i][j] # "*"
  <2> TAKE i \in DOMAIN W
  <2>1. CASE i = Len(W)
    BY <1>1, <2>1
  <2>2. CASE i \in 1 .. n
    <3>1. CASE W[i] = <<"*">>
      <4>1. <<"*">> # <<"*", "*">>
        OBVIOUS
      <4> QED
        BY <3>1, <4>1
    <3>2. CASE W[i] \in Seq(Letters)
      <4>1. W[i] # <<"*", "*">>
        BY <3>2, NoStar
      <4>2. \A j \in DOMAIN W[i] : W[i][j] # "*"
        <5>1. \A j \in DOMAIN W[i] : W[i][j] \in Letters
          BY <3>2
        <5> QED
          BY <5>1, WildcardAssumption
      <4> QED
        BY <4>1, <4>2
    <3> QED
      BY <1>5, <2>2, <3>1, <3>2, Zenon DEF Simple
  <2> QED
    BY <1>4, <2>1, <2>2
<1>7. ~Rejected(w)
  BY <1>1, <1>6 DEF Rejected, W
<1> QED
  BY <1>7 DEF w

(* The segments of p agree with those of what p matches. *)
LEMMA MeansAgrees ==
    ASSUME NEW p \in Seq(Symbols), ~Rejected(p), Last(Split(p)) # <<"*", "*">>,
           NEW s \in Seq(Symbols), Means(p, s)
    PROVE  Agree(Split(p), Split(s), Len(Split(p)))
<1> DEFINE P == Split(p)
           n == Len(P)
<1>1. n \in Nat /\ n >= 1
  BY SplitType
<1>2. Asks(P, s) \/ (s # <<>> /\ Last(s) = Separator /\ Asks(P, Front(s)))
  BY DEF Means, Asks
<1>3. Agree(P, Split(s), n)
  <2>1. CASE Asks(P, s)
    BY <2>1 DEF Asks
  <2>2. CASE s # <<>> /\ Last(s) = Separator /\ Asks(P, Front(s))
    <3> DEFINE e == Len(s)
               D == Splits(s)
    <3>1. /\ e \in 1 .. Len(s) /\ e - 1 \in 0 .. Len(s) /\ Last(s) = s[e]
          /\ Split(Front(s)) = D[e - 1]
      BY <2>2, SplitFront
    <3>2. Grows(D[e - 1], s[e], D[e]) /\ s[e] = Separator /\ Split(s) = D[e]
      BY <2>2, <3>1, SplitStep DEF Split
    <3>3. Agree(P, D[e - 1], n) /\ Len(D[e - 1]) = n
      BY <2>2, <3>1 DEF Asks
    <3> HIDE DEF D, e, n
    <3>4. Len(D[e]) = n + 1 /\ \A i \in 1 .. n : D[e - 1][i] = D[e][i]
      BY <3>2, <3>3 DEF Grows
    <3>5. n <= Len(D[e]) /\ n <= Len(D[e - 1]) /\ Len(D[e]) \in Nat /\ Len(D[e - 1]) \in Nat
      BY <1>1, <3>3, <3>4
    <3>6. Agree(P, D[e], n)
      BY <1>1, <3>3, <3>4, <3>5, AgreeSame
    <3> QED
      BY <3>2, <3>6 DEF n
  <2> QED
    BY <1>2, <2>1, <2>2
<1> QED
  BY <1>3

(* The segments of the beginning of an input. *)
LEMMA SplitSubSeq ==
    ASSUME NEW s \in Seq(Symbols), NEW k \in 0 .. Len(s)
    PROVE  SubSeq(s, 1, k) \in Seq(Symbols) /\ Split(SubSeq(s, 1, k)) = Splits(s)[k]
<1> DEFINE t == SubSeq(s, 1, k)
<1>1. /\ t \in Seq(Symbols) /\ k \in Nat /\ Len(t) = k /\ k <= Len(s) /\ k \in 0 .. k
      /\ \A i \in 1 .. k : s[i] = t[i]
  OBVIOUS
<1> HIDE DEF t
<1>2. Splits(s)[k] = Splits(t)[k]
  BY <1>1, SplitPrefix
<1> QED
  BY <1>1, <1>2 DEF Split, t

(* The segments of p agree with those of an input exactly when p matches   *)
(* the input, or its beginning up to some separator.                       *)
LEMMA AgreesBelow ==
    ASSUME NEW p \in Seq(Symbols), ~Rejected(p), Last(Split(p)) # <<"*", "*">>,
           NEW s \in Seq(Symbols)
    PROVE  Agree(Split(p), Split(s), Len(Split(p))) <=>
              \/ Means(p, s)
              \/ \E k \in DOMAIN s : s[k] = Separator /\ Means(p, SubSeq(s, 1, k - 1))
<1> DEFINE P == Split(p)
           n == Len(P)
           D == Splits(s)
           e == Len(s)
<1>1. /\ n \in Nat /\ n >= 1 /\ e \in Nat /\ e \in 0 .. e /\ DOMAIN s = 1 .. e
      /\ Split(s) = D[e] /\ Len(D[e]) \in Nat
  BY SplitType, SplitsAt DEF Split
<1>2. \A t : Asks(P, t) => Means(p, t)
  BY DEF Means, Asks
<1>3. ASSUME NEW k \in 0 .. e - 1, s[k + 1] = Separator, n <= Len(D[k])
      PROVE  Agree(P, D[k], n) <=> Agree(P, D[e], n)
  <2>1. k \in 0 .. Len(s) /\ e \in k + 1 .. Len(s)
    BY <1>1
  <2>2. Len(D[k]) < Len(D[e]) /\ \A i \in 1 .. Len(D[k]) : D[e][i] = D[k][i]
    BY <1>3, <2>1, SplitEnded
  <2>3. Len(D[k]) \in Nat
    BY <2>1, SplitsAt
  <2> HIDE DEF D, P, n, e
  <2>4. n <= Len(D[e]) /\ \A i \in 1 .. n : D[k][i] = D[e][i]
    BY <1>1, <1>3, <2>2, <2>3
  <2> QED
    BY <1>1, <1>3, <2>3, <2>4, AgreeSame
<1>4. ASSUME Agree(P, D[e], n), ~Means(p, s)
      PROVE  \E k \in DOMAIN s : s[k] = Separator /\ Means(p, SubSeq(s, 1, k - 1))
  <2>1. n < Len(D[e])
    <3>1. n <= Len(D[e])
      BY <1>4 DEF Agree
    <3>2. n # Len(D[e])
      BY <1>1, <1>2, <1>4 DEF Asks
    <3> HIDE DEF D, n, e
    <3> QED
      BY <1>1, <3>1, <3>2
  <2>2. PICK k \in 0 .. e - 1 : s[k + 1] = Separator /\ Len(D[k]) = n
    <3> HIDE DEF n
    <3> QED
      BY <1>1, <2>1, SplitBoundary
  <2>3. Agree(P, D[k], n)
    BY <1>1, <1>3, <1>4, <2>2
  <2>4. Split(SubSeq(s, 1, k)) = D[k]
    BY <1>1, <2>2, SplitSubSeq
  <2>5. Means(p, SubSeq(s, 1, k))
    BY <1>2, <2>2, <2>3, <2>4 DEF Asks
  <2>6. k + 1 \in DOMAIN s /\ (k + 1) - 1 = k
    BY <1>1, <2>2
  <2> QED
    BY <2>2, <2>5, <2>6
<1>5. ASSUME Means(p, s) PROVE Agree(P, D[e], n)
  BY <1>1, <1>5, MeansAgrees
<1>6. ASSUME NEW k \in DOMAIN s, s[k] = Separator, Means(p, SubSeq(s, 1, k - 1))
      PROVE  Agree(P, D[e], n)
  <2> DEFINE t == SubSeq(s, 1, k - 1)
  <2>1. k - 1 \in 0 .. e - 1 /\ k - 1 \in 0 .. Len(s) /\ (k - 1) + 1 = k
    BY <1>1
  <2>2. t \in Seq(Symbols) /\ Split(t) = D[k - 1]
    BY <2>1, SplitSubSeq
  <2> HIDE DEF t
  <2>3. Agree(P, D[k - 1], n)
    <3>1. Means(p, t)
      BY <1>6 DEF t
    <3> QED
      BY <2>2, <3>1, MeansAgrees
  <2>4. n <= Len(D[k - 1])
    BY <2>3 DEF Agree
  <2> QED
    BY <1>3, <1>6, <2>1, <2>3, <2>4
<1> QED
  BY <1>1, <1>4, <1>5, <1>6

(* "/**" behind a pattern keeps every match and adds whatever continues a  *)
(* match after a separator, of any length and with any further separators, *)
(* and nothing else (matcher.go:33, 122-133).                              *)
THEOREM DoubleWildcardAlwaysWidens == Spec => []DoubleWildcardWidens
<1>1. MatcherInv => DoubleWildcardWidens
  <2> DEFINE w == pattern \o <<Separator, "*", "*">>
             wider == CompileWithSeparator(w)
             P == Split(pattern)
             n == Len(P)
             Before(k) == SubSeq(input, 1, k - 1)
  <2> SUFFICES ASSUME MatcherInv, phase = "input", Last(P) # <<"*", "*">>
               PROVE  Matches(wider, input) <=>
                         \/ Matches(matcher, input)
                         \/ \E k \in DOMAIN input :
                               input[k] = Separator /\ Matches(matcher, Before(k))
    BY DEF DoubleWildcardWidens
  <2>1. /\ pattern \in Seq(Symbols) /\ ~Rejected(pattern) /\ input \in Seq(Symbols)
        /\ matcher = CompileWithSeparator(pattern)
    BY RunesAreSymbols DEF MatcherInv
  <2>2. /\ Matches(matcher, input) <=> Means(pattern, input)
        /\ \A k \in DOMAIN input :
              Matches(matcher, Before(k)) <=> Means(pattern, Before(k))
    <3>1. ASSUME NEW k \in DOMAIN input
          PROVE  Matches(matcher, Before(k)) <=> Means(pattern, Before(k))
      <4>1. k - 1 \in 0 .. Len(input)
        BY <2>1
      <4>2. Before(k) \in Seq(Symbols)
        BY <2>1, <4>1, SplitSubSeq
      <4> HIDE DEF Before
      <4> QED
        BY <2>1, <4>2, CompileMatches
    <3> QED
      BY <2>1, <3>1, CompileMatches
  <2>3. Agree(P, Split(input), n) <=>
           \/ Means(pattern, input)
           \/ \E k \in DOMAIN input : input[k] = Separator /\ Means(pattern, Before(k))
    BY <2>1, AgreesBelow
  <2>4. /\ w \in Seq(Symbols) /\ Len(Split(w)) = n + 1 /\ Split(w)[n + 1] = <<"*", "*">>
        /\ \A i \in 1 .. n : Split(w)[i] = P[i]
    BY <2>1, WiderSplit, Zenon
  <2>5. ~Rejected(w)
    BY <2>1, WiderCompiles
  <2>6. n \in Nat
    BY <2>1, SplitType
  <2> HIDE DEF w, P, Before
  <2>7. Matches(wider, input) <=> Agree(P, Split(input), n)
    <3>1. Agree(Split(w), Split(input), n) <=> Agree(P, Split(input), n)
      <4> HIDE DEF n
      <4> QED
        BY <2>4, <2>6 DEF Agree
    <3>2. Last(Split(w)) = <<"*", "*">> /\ Len(Split(w)) - 1 = n
      BY <2>4, <2>6 DEF Last
    <3>3. Means(w, input) <=> Agree(Split(w), Split(input), n)
      BY <3>2 DEF Means
    <3> QED
      BY <2>1, <2>4, <2>5, <3>1, <3>3, CompileMatches
  <2> HIDE DEF wider, n
  <2> QED
    BY <2>2, <2>3, <2>7
<1> QED
  BY <1>1, MatcherInvariant, PTL

=============================================================================
