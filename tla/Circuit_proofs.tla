--------------------------- MODULE Circuit_proofs ---------------------------
(***************************************************************************)
(* Facts about the operators circuits are made of, for every circuit: the  *)
(* partial sums of a dot product, sequences joined and picked from, the    *)
(* order in which orderGatesByLevel lists the gates, and the value that    *)
(* evaluating them in any such order gives.  At the end, the theorems      *)
(* about the circuits the builder can produce.                             *)
(***************************************************************************)
EXTENDS CircuitBuilder, DataLemmas, FiniteSetTheorems

\* Any sequence of terms has its running sums.
LEMMA RunningSums ==
    ASSUME NEW t
    PROVE  \A n \in Nat :
              \E f : f = [i \in 0 .. n |-> IF i = 0 THEN 0 ELSE f[i - 1] + t[i]]
<1> DEFINE Sums(n, f) == f = [i \in 0 .. n |-> IF i = 0 THEN 0 ELSE f[i - 1] + t[i]]
           T == {n \in Nat : \E f : Sums(n, f)}
<1>1. 0 \in T
  <2>1. Sums(0, [i \in 0 .. 0 |-> 0])
    OBVIOUS
  <2> QED
    BY <2>1
<1>2. ASSUME NEW n \in Nat, n \in T PROVE n + 1 \in T
  <2>1. PICK f : Sums(n, f)
    BY <1>2
  <2> DEFINE g == [i \in 0 .. n + 1 |-> IF i = n + 1 THEN f[n] + t[n + 1] ELSE f[i]]
  <2>2. \A i \in 0 .. n : g[i] = f[i]
    OBVIOUS
  <2>3. ASSUME NEW i \in 0 .. n + 1
        PROVE  g[i] = IF i = 0 THEN 0 ELSE g[i - 1] + t[i]
    <3>1. CASE i = n + 1
      <4>1. n \in 0 .. n /\ i - 1 = n /\ i # 0
        BY <3>1
      <4>2. g[i] = f[n] + t[n + 1] /\ g[n] = f[n]
        BY <3>1, <4>1, <2>2
      <4> QED
        BY <3>1, <4>1, <4>2
    <3>2. CASE i \in 0 .. n
      <4>1. f[i] = IF i = 0 THEN 0 ELSE f[i - 1] + t[i]
        BY <2>1, <3>2
      <4>2. i # 0 => i - 1 \in 0 .. n
        BY <3>2
      <4> QED
        BY <4>1, <4>2, <2>2, <3>2
    <3> QED
      BY <3>1, <3>2
  <2>4. Sums(n + 1, g)
    <3>1. g = [i \in 0 .. n + 1 |-> g[i]]
      OBVIOUS
    <3> HIDE DEF g
    <3> QED
      BY <3>1, <2>3
  <2> HIDE DEF g, Sums
  <2>5. \E h : Sums(n + 1, h)
    BY <2>4
  <2> QED
    BY <2>5
<1> HIDE DEF T
<1>3. Nat \subseteq T
  BY <1>1, <1>2, SetInduction
<1> QED
  BY <1>3 DEF T

\* The partial sums of Dot are what its recursion says.
LEMMA DotUnfold ==
    ASSUME NEW g, Len(g.in1) \in Nat, NEW a, NEW b
    PROVE  /\ DotSums(g, a, b)[0] = 0
           /\ \A i \in 1 .. Len(g.in1) :
                 DotSums(g, a, b)[i]
                     = DotSums(g, a, b)[i - 1] + a[g.in1[i]] * b[g.in2[i]]
<1> DEFINE n == Len(g.in1)
           D == DotSums(g, a, b)
           P(f) == f = [i \in 0 .. n |->
                          IF i = 0 THEN 0 ELSE f[i - 1] + a[g.in1[i]] * b[g.in2[i]]]
<1>1. \E f : P(f)
  <2> DEFINE t == [i \in 1 .. n |-> a[g.in1[i]] * b[g.in2[i]]]
  <2>1. PICK f : f = [i \in 0 .. n |-> IF i = 0 THEN 0 ELSE f[i - 1] + t[i]]
    BY RunningSums
  <2>2. \A i \in 0 .. n : i # 0 => i \in 1 .. n
    OBVIOUS
  <2>3. \A i \in 0 .. n : i # 0 => t[i] = a[g.in1[i]] * b[g.in2[i]]
    BY <2>2
  <2> HIDE DEF t
  <2>4. P(f)
    BY <2>1, <2>3
  <2> QED
    BY <2>4
<1>2. D = CHOOSE f : P(f)
  BY DEF DotSums
<1> HIDE DEF P
<1>3. P(CHOOSE f : P(f))
  BY <1>1, Zenon
<1>4. D = [i \in 0 .. n |-> IF i = 0 THEN 0 ELSE D[i - 1] + a[g.in1[i]] * b[g.in2[i]]]
  BY <1>2, <1>3 DEF P
<1> HIDE DEF D
<1>5. D[0] = 0 /\ \A i \in 1 .. n : D[i] = D[i - 1] + a[g.in1[i]] * b[g.in2[i]]
  BY <1>4
<1> QED
  BY <1>5 DEF D
-----------------------------------------------------------------------------
\* The operand lists of g are equally long and name wires of W.
Operands(g, W) == g.in1 \in Seq(W) /\ g.in2 \in Seq(W) /\ Len(g.in1) = Len(g.in2)

LEMMA OperandPairs ==
    ASSUME NEW g, NEW W, Operands(g, W)
    PROVE  /\ Len(g.in1) \in Nat
           /\ \A i \in 1 .. Len(g.in1) : g.in1[i] \in W /\ g.in2[i] \in W
BY DEF Operands

LEMMA DotTypes ==
    ASSUME NEW g, NEW W, Operands(g, W), NEW a, NEW b,
           \A k \in W : a[k] \in Int /\ b[k] \in Int
    PROVE  \A i \in 0 .. Len(g.in1) : DotSums(g, a, b)[i] \in Int
<1> DEFINE n == Len(g.in1)
           D == DotSums(g, a, b)
           T == {i \in Nat : i <= n => D[i] \in Int}
<1>1. n \in Nat /\ \A i \in 1 .. n : g.in1[i] \in W /\ g.in2[i] \in W
  BY OperandPairs
<1>2. D[0] = 0 /\ \A i \in 1 .. n : D[i] = D[i - 1] + a[g.in1[i]] * b[g.in2[i]]
  BY <1>1, DotUnfold
<1> HIDE DEF n, D
<1>3. 0 \in T
  BY <1>2
<1>4. ASSUME NEW i \in Nat, i \in T PROVE i + 1 \in T
  <2>1. CASE i + 1 <= n
    <3>1. i + 1 \in 1 .. n /\ (i + 1) - 1 = i /\ D[i] \in Int
      BY <2>1, <1>1, <1>4
    <3>2. a[g.in1[i + 1]] \in Int /\ b[g.in2[i + 1]] \in Int
      BY <3>1, <1>1
    <3>3. D[i + 1] = D[i] + a[g.in1[i + 1]] * b[g.in2[i + 1]]
      BY <3>1, <1>2
    <3> QED
      BY <3>1, <3>2, <3>3
  <2>2. CASE ~(i + 1 <= n)
    BY <2>2
  <2> QED
    BY <2>1, <2>2
<1> HIDE DEF T
<1>5. Nat \subseteq T
  BY <1>3, <1>4, SetInduction
<1>6. \A i \in 0 .. n : D[i] \in Int
  BY <1>1, <1>5 DEF T
<1> QED
  BY <1>6 DEF n, D

-----------------------------------------------------------------------------
(***************************************************************************)
(* Sequences: what Pick and FlattenSeq return.                             *)
(***************************************************************************)
\* What of all the stages of a recursion holds.
LEMMA Stages ==
    ASSUME NEW U, NEW N \in Nat, NEW t, t[0] \in U,
           \A n \in 1 .. N : t[n - 1] \in U => t[n] \in U
    PROVE  \A n \in 0 .. N : t[n] \in U
<1> DEFINE T == {n \in Nat : n <= N => t[n] \in U}
<1>1. 0 \in T
  OBVIOUS
<1>2. ASSUME NEW n \in Nat, n \in T
      PROVE  n + 1 \in T
  <2>1. CASE n + 1 <= N
    <3>1. n + 1 \in 1 .. N /\ (n + 1) - 1 = n /\ t[n] \in U
      BY <1>2, <2>1
    <3> QED
      BY <3>1
  <2> QED
    BY <2>1
<1> HIDE DEF T
<1>3. Nat \subseteq T
  BY <1>1, <1>2, SetInduction
<1> QED
  BY <1>3 DEF T

\* The stages of Pick.
Picks(U, s, S, f) ==
    /\ f \in [0 .. Len(s) -> Seq(U)] /\ f[0] = <<>> /\ Pick(s, S) = f[Len(s)]
    /\ \A n \in 1 .. Len(s) :
          f[n] = IF s[n] \in S THEN Append(f[n - 1], s[n]) ELSE f[n - 1]

LEMMA PickUnfold ==
    ASSUME NEW U, NEW s \in Seq(U), NEW S
    PROVE  \E f : Picks(U, s, S, f)
<1> DEFINE N == Len(s)
           V == Seq(U)
           more(n, v) == IF n \in 1 .. N /\ s[n] \in S THEN Append(v, s[n]) ELSE v
           g == [n \in Nat |-> [v \in V |-> more(n, v)]]
           P(f) == f = [n \in 0 .. N |->
                          IF n = 0 THEN <<>>
                          ELSE IF s[n] \in S THEN Append(f[n - 1], s[n]) ELSE f[n - 1]]
<1>1. N \in Nat /\ <<>> \in V
  OBVIOUS
<1>2. ASSUME NEW n \in Nat, NEW v \in V
      PROVE  more(n, v) \in V
  <2>1. CASE n \in 1 .. N /\ s[n] \in S
    BY <2>1, AppendProperties
  <2>2. CASE ~ (n \in 1 .. N /\ s[n] \in S)
    BY <2>2, Zenon
  <2> QED
    BY <2>1, <2>2
<1>3. g \in Recursions(V)
  BY <1>2 DEF Recursions
<1>4. PICK f \in [0 .. N -> V] : f[0] = <<>> /\ \A n \in 1 .. N : f[n] = g[n][f[n - 1]]
  <2> HIDE DEF g, V, N
  <2>1. PICK f : Solution(V, <<>>, g, N, f)
    BY ONLY <1>1, <1>3, Recursion
  <2> QED
    BY <2>1 DEF Solution
<1>5. P(f)
  <2>1. ASSUME NEW n \in 1 .. N
        PROVE  f[n] = more(n, f[n - 1])
    <3>1. n \in Nat /\ n - 1 \in 0 .. N
      BY <1>1
    <3>2. f[n - 1] \in V
      BY <1>4, <3>1
    <3> HIDE DEF V, more
    <3> QED
      BY <1>4, <3>1, <3>2
  <2>2. \A n \in 0 .. N : n # 0 => n \in 1 .. N
    BY <1>1
  <2>3. f = [n \in 0 .. N |-> f[n]]
    BY <1>4
  <2> HIDE DEF g
  <2> QED
    BY <1>4, <2>1, <2>2, <2>3
<1> DEFINE t == CHOOSE x : P(x)
<1>6. P(t)
  <2> HIDE DEF P
  <2> QED
    BY <1>5, Zenon
<1>7. Pick(s, S) = t[N]
  BY DEF Pick
<1> HIDE DEF t
<1>8. /\ t[0] = <<>> /\ DOMAIN t = 0 .. N /\ t = [n \in 0 .. N |-> t[n]]
      /\ \A n \in 1 .. N : t[n] = IF s[n] \in S THEN Append(t[n - 1], s[n]) ELSE t[n - 1]
  <2>1. 0 \in 0 .. N /\ \A n \in 1 .. N : n \in 0 .. N /\ n # 0
    BY <1>1
  <2> QED
    BY <1>6, <2>1
<1> HIDE DEF P
<1>9. \A n \in 0 .. N : t[n] \in V
  <2>1. \A n \in 1 .. N : t[n - 1] \in V => t[n] \in V
    <3>1. \A n \in 1 .. N : n \in Nat /\ t[n] = more(n, t[n - 1])
      <4> HIDE DEF N, V, g
      <4>1. \A n \in 1 .. N : n \in Nat
        BY <1>1
      <4> QED
        BY <1>8, <4>1, Zenon
    <3> HIDE DEF more, V
    <3> QED
      BY <1>2, <3>1
  <2>2. t[0] \in V
    BY <1>8
  <2> HIDE DEF V
  <2> QED
    BY <1>1, <2>1, <2>2, Stages
<1>10. Picks(U, s, S, t)
  BY <1>7, <1>8, <1>9 DEF Picks
<1> QED
  BY <1>10

\* Every element of s comes before the later ones in the order R.
Sorted(s, R) == \A i, j \in 1 .. Len(s) : i < j => <<s[i], s[j]>> \in R

\* The elements of s.
Elements(s) == {s[i] : i \in 1 .. Len(s)}

LEMMA AppendSorted ==
    ASSUME NEW U, NEW s \in Seq(U), NEW x \in U
    PROVE  /\ Append(s, x) \in Seq(U) /\ Elements(Append(s, x)) = Elements(s) \cup {x}
           /\ \A R : Sorted(s, R) /\ (\A y \in Elements(s) : <<y, x>> \in R)
                        => Sorted(Append(s, x), R)
<1> DEFINE t == Append(s, x)
<1>1. /\ t \in Seq(U) /\ Len(t) = Len(s) + 1 /\ t[Len(s) + 1] = x /\ Len(s) \in Nat
      /\ \A i \in 1 .. Len(s) : t[i] = s[i]
  BY AppendProperties
<1> HIDE DEF t
<1>2. Elements(t) = Elements(s) \cup {x}
  <2>1. \A i \in 1 .. Len(t) : i \in 1 .. Len(s) \/ i = Len(s) + 1
    BY <1>1
  <2>2. 1 .. Len(s) \subseteq 1 .. Len(t) /\ Len(s) + 1 \in 1 .. Len(t)
    BY <1>1
  <2> QED
    BY <1>1, <2>1, <2>2 DEF Elements
<1>3. ASSUME NEW R, Sorted(s, R), \A y \in Elements(s) : <<y, x>> \in R
      PROVE  Sorted(t, R)
  <2> SUFFICES ASSUME NEW i \in 1 .. Len(t), NEW j \in 1 .. Len(t), i < j
               PROVE  <<t[i], t[j]>> \in R
    BY DEF Sorted
  <2>1. i \in 1 .. Len(s) /\ t[i] = s[i]
    BY <1>1
  <2>2. CASE j \in 1 .. Len(s)
    BY <1>1, <1>3, <2>1, <2>2 DEF Sorted
  <2>3. CASE j = Len(s) + 1
    <3>1. t[i] \in Elements(s)
      BY <2>1 DEF Elements
    <3> QED
      BY <1>1, <1>3, <2>3, <3>1
  <2> QED
    BY <1>1, <2>2, <2>3
<1> QED
  BY <1>1, <1>2, <1>3 DEF t

LEMMA JoinSorted ==
    ASSUME NEW U, NEW s \in Seq(U), NEW t \in Seq(U)
    PROVE  /\ s \o t \in Seq(U) /\ Elements(s \o t) = Elements(s) \cup Elements(t)
           /\ \A R : Sorted(s, R) /\ Sorted(t, R)
                     /\ (\A x \in Elements(s), y \in Elements(t) : <<x, y>> \in R)
                        => Sorted(s \o t, R)
<1> DEFINE u == s \o t
<1>1. /\ u \in Seq(U) /\ Len(u) = Len(s) + Len(t) /\ Len(s) \in Nat /\ Len(t) \in Nat
      /\ \A i \in 1 .. Len(s) : u[i] = s[i]
      /\ \A i \in 1 .. Len(u) : i > Len(s) => i - Len(s) \in 1 .. Len(t) /\ u[i] = t[i - Len(s)]
  BY ConcatProperties
<1> HIDE DEF u
<1>2. Elements(u) = Elements(s) \cup Elements(t)
  <2>1. ASSUME NEW i \in 1 .. Len(u)
        PROVE  u[i] \in Elements(s) \cup Elements(t)
    <3>1. CASE i <= Len(s)
      BY <1>1, <3>1 DEF Elements
    <3>2. CASE i > Len(s)
      BY <1>1, <3>2 DEF Elements
    <3> QED
      BY <1>1, <3>1, <3>2
  <2>2. ASSUME NEW i \in 1 .. Len(s)
        PROVE  s[i] \in Elements(u)
    <3>1. i \in 1 .. Len(u) /\ u[i] = s[i]
      BY <1>1
    <3> QED
      BY <3>1 DEF Elements
  <2>3. ASSUME NEW i \in 1 .. Len(t)
        PROVE  t[i] \in Elements(u)
    <3>1. Len(s) + i \in 1 .. Len(u) /\ Len(s) + i > Len(s) /\ (Len(s) + i) - Len(s) = i
      BY <1>1
    <3>2. u[Len(s) + i] = t[i]
      BY <1>1, <3>1
    <3> QED
      BY <3>1, <3>2 DEF Elements
  <2>4. \A x \in Elements(u) : x \in Elements(s) \cup Elements(t)
    BY <2>1 DEF Elements
  <2>5. \A x \in Elements(s) \cup Elements(t) : x \in Elements(u)
    <3>1. \A x \in Elements(s) : \E i \in 1 .. Len(s) : x = s[i]
      BY DEF Elements
    <3>2. \A x \in Elements(t) : \E i \in 1 .. Len(t) : x = t[i]
      BY DEF Elements
    <3> QED
      BY <2>2, <2>3, <3>1, <3>2
  <2> QED
    BY <2>4, <2>5
<1>3. ASSUME NEW R, Sorted(s, R), Sorted(t, R),
             \A x \in Elements(s), y \in Elements(t) : <<x, y>> \in R
      PROVE  Sorted(u, R)
  <2> SUFFICES ASSUME NEW i \in 1 .. Len(u), NEW j \in 1 .. Len(u), i < j
               PROVE  <<u[i], u[j]>> \in R
    BY DEF Sorted
  <2>1. CASE j <= Len(s)
    <3>1. i \in 1 .. Len(s) /\ j \in 1 .. Len(s) /\ u[i] = s[i] /\ u[j] = s[j]
      BY <1>1, <2>1
    <3> QED
      BY <1>3, <3>1 DEF Sorted
  <2>2. CASE i > Len(s)
    <3>1. /\ i - Len(s) \in 1 .. Len(t) /\ j - Len(s) \in 1 .. Len(t) /\ i - Len(s) < j - Len(s)
          /\ u[i] = t[i - Len(s)] /\ u[j] = t[j - Len(s)]
      BY <1>1, <2>2
    <3> QED
      BY <1>3, <3>1 DEF Sorted
  <2>3. CASE i <= Len(s) /\ j > Len(s)
    <3>1. u[i] \in Elements(s) /\ u[j] \in Elements(t)
      BY <1>1, <2>3 DEF Elements
    <3> QED
      BY <1>3, <3>1
  <2> QED
    BY <1>1, <2>1, <2>2, <2>3
<1> QED
  BY <1>1, <1>2, <1>3 DEF u

\* Pick keeps the elements it is to pick, and their order.
LEMMA PickProperties ==
    ASSUME NEW U, NEW s \in Seq(U), NEW S
    PROVE  /\ Pick(s, S) \in Seq(U)
           /\ Elements(Pick(s, S)) = Elements(s) \cap S
           /\ \A R : Sorted(s, R) => Sorted(Pick(s, S), R)
<1> DEFINE N == Len(s)
<1>1. PICK f : Picks(U, s, S, f)
  BY PickUnfold
<1>2. /\ \A n \in 0 .. N : f[n] \in Seq(U)
      /\ f[0] = <<>> /\ Pick(s, S) = f[N] /\ N \in Nat
      /\ \A n \in 1 .. N : f[n] = IF s[n] \in S THEN Append(f[n - 1], s[n]) ELSE f[n - 1]
  <2>1. N \in Nat
    OBVIOUS
  <2>2. /\ f \in [0 .. N -> Seq(U)] /\ f[0] = <<>> /\ Pick(s, S) = f[N]
        /\ \A n \in 1 .. N : f[n] = IF s[n] \in S THEN Append(f[n - 1], s[n]) ELSE f[n - 1]
    BY <1>1, Zenon DEF Picks
  <2> HIDE DEF N
  <2>3. \A n \in 0 .. N : f[n] \in Seq(U)
    BY <2>2
  <2> QED
    BY <2>1, <2>2, <2>3, Zenon
<1> DEFINE FirstOf(n) == {s[i] : i \in 1 .. n}
           T == {n \in Nat : n <= N => /\ Elements(f[n]) = FirstOf(n) \cap S
                                       /\ \A R : Sorted(s, R) => Sorted(f[n], R)}
<1>3. 0 \in T
  BY <1>2 DEF Elements, Sorted
<1>4. ASSUME NEW n \in Nat, n \in T
      PROVE  n + 1 \in T
  <2> SUFFICES ASSUME n + 1 <= N
               PROVE  /\ Elements(f[n + 1]) = FirstOf(n + 1) \cap S
                      /\ \A R : Sorted(s, R) => Sorted(f[n + 1], R)
    OBVIOUS
  <2>1. /\ n + 1 \in 1 .. N /\ (n + 1) - 1 = n /\ n \in 0 .. N
        /\ f[n] \in Seq(U) /\ s[n + 1] \in U
        /\ Elements(f[n]) = FirstOf(n) \cap S
        /\ \A R : Sorted(s, R) => Sorted(f[n], R)
    BY <1>2, <1>4
  <2>2. FirstOf(n + 1) = FirstOf(n) \cup {s[n + 1]}
    OBVIOUS
  <2>3. CASE s[n + 1] \notin S
    <3>1. f[n + 1] = f[n]
      BY <1>2, <2>1, <2>3
    <3> QED
      BY <2>1, <2>2, <2>3, <3>1
  <2>4. CASE s[n + 1] \in S
    <3>1. f[n + 1] = Append(f[n], s[n + 1])
      BY <1>2, <2>1, <2>4
    <3>2. \A y \in Elements(f[n]) : \E i \in 1 .. N : i < n + 1 /\ y = s[i]
      BY <2>1
    <3>3. \A R : Sorted(s, R) => \A y \in Elements(f[n]) : <<y, s[n + 1]>> \in R
      BY <2>1, <3>2 DEF Sorted
    <3>4. /\ Elements(Append(f[n], s[n + 1])) = Elements(f[n]) \cup {s[n + 1]}
          /\ \A R : Sorted(f[n], R) /\ (\A y \in Elements(f[n]) : <<y, s[n + 1]>> \in R)
                        => Sorted(Append(f[n], s[n + 1]), R)
      BY <2>1, AppendSorted
    <3>5. Elements(f[n + 1]) = FirstOf(n + 1) \cap S
      BY <2>1, <2>2, <2>4, <3>1, <3>4
    <3> QED
      BY <2>1, <3>1, <3>3, <3>4, <3>5
  <2> QED
    BY <2>3, <2>4
<1> HIDE DEF T
<1>5. Nat \subseteq T
  BY <1>3, <1>4, SetInduction
<1>6. Elements(f[N]) = FirstOf(N) \cap S /\ \A R : Sorted(s, R) => Sorted(f[N], R)
  <2> HIDE DEF FirstOf, N
  <2>1. N \in T /\ N <= N
    BY <1>2, <1>5
  <2> QED
    BY <2>1 DEF T
<1>7. FirstOf(N) = Elements(s) /\ f[N] \in Seq(U)
  BY <1>2 DEF Elements
<1> HIDE DEF FirstOf, N
<1> QED
  BY <1>2, <1>6, <1>7

\* The stages of FlattenSeq.
Joins(U, ss, f) ==
    /\ f \in [0 .. Len(ss) -> Seq(U)] /\ f[0] = <<>> /\ FlattenSeq(ss) = f[Len(ss)]
    /\ \A n \in 1 .. Len(ss) : ss[n] \in Seq(U) /\ f[n] = f[n - 1] \o ss[n]

LEMMA FlattenUnfold ==
    ASSUME NEW U, NEW ss \in Seq(Seq(U))
    PROVE  \E f : Joins(U, ss, f)
<1> DEFINE N == Len(ss)
           V == Seq(U)
           more(n, v) == IF n \in 1 .. N THEN v \o ss[n] ELSE v
           g == [n \in Nat |-> [v \in V |-> more(n, v)]]
           P(f) == f = [i \in 1 .. N |-> IF i = 1 THEN ss[i] ELSE f[i - 1] \o ss[i]]
<1>1. N \in Nat /\ <<>> \in V /\ \A n \in 1 .. N : ss[n] \in V
  OBVIOUS
<1>2. ASSUME NEW n \in Nat, NEW v \in V
      PROVE  more(n, v) \in V
  <2>1. CASE n \in 1 .. N
    BY <1>1, <2>1, ConcatProperties
  <2>2. CASE n \notin 1 .. N
    BY <2>2, Zenon
  <2> QED
    BY <2>1, <2>2
<1>3. g \in Recursions(V)
  BY <1>2 DEF Recursions
<1>4. PICK f \in [0 .. N -> V] : f[0] = <<>> /\ \A n \in 1 .. N : f[n] = g[n][f[n - 1]]
  <2> HIDE DEF g, V, N
  <2>1. PICK f : Solution(V, <<>>, g, N, f)
    BY ONLY <1>1, <1>3, Recursion
  <2> QED
    BY <2>1 DEF Solution
<1>5. \A n \in 1 .. N : f[n] = f[n - 1] \o ss[n]
  <2> SUFFICES ASSUME NEW n \in 1 .. N
               PROVE  f[n] = f[n - 1] \o ss[n]
    OBVIOUS
  <2>1. n \in Nat /\ n - 1 \in 0 .. N
    BY <1>1
  <2>2. f[n - 1] \in V
    BY <1>4, <2>1
  <2>3. f[n] = more(n, f[n - 1])
    <3> HIDE DEF V, more
    <3> QED
      BY <1>4, <2>1, <2>2
  <2> QED
    BY <2>3
<1>6. \E h : P(h)
  <2> DEFINE h == [i \in 1 .. N |-> f[i]]
  <2>1. ASSUME NEW i \in 1 .. N
        PROVE  h[i] = IF i = 1 THEN ss[i] ELSE h[i - 1] \o ss[i]
    <3>1. CASE i = 1
      <4>1. f[1] = <<>> \o ss[1] /\ ss[1] \in V
        BY <1>1, <1>4, <1>5, <3>1
      <4>2. <<>> \o ss[1] = ss[1]
        BY <4>1, ConcatEmptySeq
      <4> QED
        BY <3>1, <4>1, <4>2
    <3>2. CASE i # 1
      <4>1. i - 1 \in 1 .. N
        BY <1>1, <3>2
      <4>2. h[i] = f[i] /\ h[i - 1] = f[i - 1]
        BY <4>1
      <4>3. h[i] = h[i - 1] \o ss[i]
        BY <1>5, <4>2, Zenon
      <4> QED
        BY <3>2, <4>3, Zenon
    <3> QED
      BY <3>1, <3>2
  <2>2. h = [i \in 1 .. N |-> h[i]]
    OBVIOUS
  <2> HIDE DEF h
  <2>3. P(h)
    BY <2>1, <2>2
  <2> HIDE DEF P
  <2> QED
    BY <2>3
<1> DEFINE t == CHOOSE x : P(x)
           F == [n \in 0 .. N |-> IF n = 0 THEN <<>> ELSE t[n]]
<1>7. P(t)
  <2> HIDE DEF P
  <2> QED
    BY <1>6, Zenon
<1>8. FlattenSeq(ss) = IF N = 0 THEN ss ELSE t[N]
  BY DEF FlattenSeq
<1> HIDE DEF t
<1>9. \A i \in 1 .. N : t[i] = IF i = 1 THEN ss[i] ELSE t[i - 1] \o ss[i]
  BY <1>7
<1> HIDE DEF P
<1>10. F[0] = <<>> /\ FlattenSeq(ss) = F[N]
  <2>1. N = 0 => ss = <<>>
    BY EmptySeq
  <2>2. 0 \in 0 .. N /\ N \in 0 .. N
    BY <1>1
  <2> QED
    BY <1>8, <2>1, <2>2
<1>11. ASSUME NEW n \in 1 .. N
       PROVE  F[n] = F[n - 1] \o ss[n]
  <2>1. n \in 0 .. N /\ n - 1 \in 0 .. N /\ n # 0 /\ (n - 1 = 0 <=> n = 1)
    BY <1>1
  <2>2. F[n] = t[n] /\ F[n - 1] = IF n = 1 THEN <<>> ELSE t[n - 1]
    BY <2>1
  <2>3. <<>> \o ss[n] = ss[n]
    BY <1>1, ConcatEmptySeq
  <2> HIDE DEF F
  <2>4. CASE n = 1
    <3>1. F[n - 1] = <<>> /\ t[n] = ss[n]
      BY <1>9, <2>2, <2>4, Zenon
    <3> QED
      BY <2>2, <2>3, <3>1, Zenon
  <2>5. CASE n # 1
    BY <1>9, <2>2, <2>5, Zenon
  <2> QED
    BY <2>4, <2>5
<1>12. \A n \in 0 .. N : F[n] \in V
  <2> HIDE DEF F
  <2>1. ASSUME NEW n \in 1 .. N, F[n - 1] \in V
        PROVE  F[n] \in V
    <3>1. F[n] = F[n - 1] \o ss[n] /\ ss[n] \in V
      BY <1>1, <1>11
    <3> QED
      BY <2>1, <3>1, ConcatProperties
  <2>2. F[0] \in V
    BY <1>1, <1>10
  <2> HIDE DEF V
  <2> QED
    BY <1>1, <2>1, <2>2, Stages
<1>13. F \in [0 .. N -> V]
  BY <1>12
<1>14. Joins(U, ss, F)
  <2> HIDE DEF F
  <2> QED
    BY <1>1, <1>10, <1>11, <1>13 DEF Joins
<1> QED
  BY <1>14

\* FlattenSeq joins the sequences: their elements, and their order if it is one of the
\* elements of different sequences too.
LEMMA FlattenProperties ==
    ASSUME NEW U, NEW ss \in Seq(Seq(U))
    PROVE  /\ FlattenSeq(ss) \in Seq(U)
           /\ Elements(FlattenSeq(ss)) = UNION {Elements(ss[n]) : n \in 1 .. Len(ss)}
           /\ \A R : /\ \A n \in 1 .. Len(ss) : Sorted(ss[n], R)
                     /\ \A m, n \in 1 .. Len(ss) : m < n =>
                           \A x \in Elements(ss[m]), y \in Elements(ss[n]) : <<x, y>> \in R
                     => Sorted(FlattenSeq(ss), R)
<1> DEFINE N == Len(ss)
           Ordered(R) == /\ \A n \in 1 .. N : Sorted(ss[n], R)
                         /\ \A m, n \in 1 .. N : m < n =>
                              \A x \in Elements(ss[m]), y \in Elements(ss[n]) : <<x, y>> \in R
           FirstOf(n) == UNION {Elements(ss[i]) : i \in 1 .. n}
<1>1. PICK f : Joins(U, ss, f)
  BY FlattenUnfold
<1>2. /\ \A n \in 0 .. N : f[n] \in Seq(U)
      /\ f[0] = <<>> /\ FlattenSeq(ss) = f[N] /\ N \in Nat
      /\ \A n \in 1 .. N : ss[n] \in Seq(U) /\ f[n] = f[n - 1] \o ss[n]
  BY <1>1 DEF Joins
<1> DEFINE T == {n \in Nat : n <= N => /\ Elements(f[n]) = FirstOf(n)
                                       /\ \A R : Ordered(R) => Sorted(f[n], R)}
<1>3. 0 \in T
  <2>1. Elements(f[0]) = {} /\ \A R : Sorted(f[0], R)
    BY <1>2 DEF Elements, Sorted
  <2>2. FirstOf(0) = {}
    OBVIOUS
  <2> HIDE DEF FirstOf, Ordered
  <2> QED
    BY <2>1, <2>2
<1>4. ASSUME NEW n \in Nat, n \in T
      PROVE  n + 1 \in T
  <2> SUFFICES ASSUME n + 1 <= N
               PROVE  /\ Elements(f[n + 1]) = FirstOf(n + 1)
                      /\ \A R : Ordered(R) => Sorted(f[n + 1], R)
    <3> HIDE DEF FirstOf, Ordered, N
    <3> QED
      OBVIOUS
  <2>1. /\ n + 1 \in 1 .. N /\ n \in 0 .. N
        /\ f[n] \in Seq(U) /\ ss[n + 1] \in Seq(U) /\ f[n + 1] = f[n] \o ss[n + 1]
    <3> HIDE DEF N, T
    <3>1. n + 1 \in 1 .. N /\ n \in 0 .. N /\ (n + 1) - 1 = n
      BY <1>2
    <3> QED
      BY <1>2, <3>1
  <2>2. Elements(f[n]) = FirstOf(n) /\ \A R : Ordered(R) => Sorted(f[n], R)
    <3>1. n <= N
      BY <1>2
    <3> HIDE DEF FirstOf, Ordered, N
    <3> QED
      BY <1>4, <3>1
  <2>3. FirstOf(n + 1) = FirstOf(n) \cup Elements(ss[n + 1])
    <3>1. \A i : i \in 1 .. n + 1 <=> i \in 1 .. n \/ i = n + 1
      OBVIOUS
    <3> QED
      BY <3>1
  <2>4. /\ Elements(f[n] \o ss[n + 1]) = Elements(f[n]) \cup Elements(ss[n + 1])
        /\ \A R : Sorted(f[n], R) /\ Sorted(ss[n + 1], R)
                  /\ (\A x \in Elements(f[n]), y \in Elements(ss[n + 1]) : <<x, y>> \in R)
                     => Sorted(f[n] \o ss[n + 1], R)
    BY <2>1, JoinSorted
  <2>5. ASSUME NEW R, Ordered(R)
        PROVE  Sorted(f[n + 1], R)
    <3>1. Sorted(f[n], R) /\ Sorted(ss[n + 1], R)
      BY <2>1, <2>2, <2>5
    <3>2. ASSUME NEW x \in Elements(f[n]), NEW y \in Elements(ss[n + 1])
          PROVE  <<x, y>> \in R
      <4>1. PICK m \in 1 .. n : x \in Elements(ss[m])
        BY <2>2
      <4>2. m \in 1 .. N /\ m < n + 1
        BY <2>1
      <4> QED
        BY <2>1, <2>5, <4>1, <4>2
    <3> QED
      BY <2>1, <2>4, <3>1, <3>2
  <2>6. Elements(f[n + 1]) = FirstOf(n + 1)
    <3> HIDE DEF FirstOf
    <3> QED
      BY <2>1, <2>2, <2>3, <2>4
  <2> QED
    BY <2>5, <2>6
<1> HIDE DEF T
<1>5. Nat \subseteq T
  BY <1>3, <1>4, SetInduction
<1>6. Elements(f[N]) = FirstOf(N) /\ \A R : Ordered(R) => Sorted(f[N], R)
  <2> HIDE DEF FirstOf, N, Ordered
  <2>1. N \in T /\ N <= N
    BY <1>2, <1>5
  <2> QED
    BY <2>1 DEF T
<1>7. f[N] \in Seq(U)
  BY <1>2
<1>8. \A R : Ordered(R) => Sorted(FlattenSeq(ss), R)
  BY <1>2, <1>6
<1>9. FlattenSeq(ss) \in Seq(U) /\ Elements(FlattenSeq(ss)) = FirstOf(N)
  BY <1>2, <1>6, <1>7
<1> QED
  BY <1>8, <1>9
-----------------------------------------------------------------------------
(***************************************************************************)
(* Levels.                                                                 *)
(***************************************************************************)
\* Every gate reads only wires of gates that were added before it.
Acyclic(gates) ==
    /\ DOMAIN gates = 1 .. Len(gates) /\ Len(gates) \in Nat
    /\ \A w \in 1 .. Len(gates) : Reads(gates[w]) \subseteq 1 .. w - 1

LEMMA MaxBounded ==
    ASSUME NEW N \in Nat, NEW S \in SUBSET (0 .. N), S # {}
    PROVE  Max(S) \in S /\ \A x \in S : Max(S) >= x
<1> DEFINE T == {k \in Nat : \A X \in SUBSET (0 .. k) :
                    X # {} => \E m \in X : \A x \in X : m >= x}
<1>1. 0 \in T
  <2>1. ASSUME NEW X \in SUBSET (0 .. 0), X # {}
        PROVE  0 \in X /\ \A x \in X : 0 >= x
    <3>1. \A x \in 0 .. 0 : x = 0 /\ 0 >= x
      OBVIOUS
    <3>2. \A x \in X : x \in 0 .. 0
      OBVIOUS
    <3> QED
      BY <2>1, <3>1, <3>2, Zenon
  <2> QED
    BY <2>1
<1>2. ASSUME NEW k \in Nat, k \in T
      PROVE  k + 1 \in T
  <2> SUFFICES ASSUME NEW X \in SUBSET (0 .. k + 1), X # {}
               PROVE  \E m \in X : \A x \in X : m >= x
    OBVIOUS
  <2>1. CASE k + 1 \in X
    BY <2>1
  <2>2. CASE k + 1 \notin X
    <3>1. X \in SUBSET (0 .. k)
      BY <2>2
    <3> QED
      BY <1>2, <3>1
  <2> QED
    BY <2>1, <2>2
<1> HIDE DEF T
<1>3. Nat \subseteq T
  BY <1>1, <1>2, SetInduction
<1>4. \E m \in S : \A x \in S : m >= x
  BY <1>3 DEF T
<1> QED
  BY <1>4 DEF Max

\* The level of a gate depends on the levels of the wires it reads only; it is none of
\* theirs exceeded, and by no more than one.
LEMMA LevelOfGate ==
    ASSUME NEW g, NEW n \in Nat, NEW f, \A r \in Reads(g) : f[r] \in 0 .. n
    PROVE  /\ LevelOf(g, f) \in 0 .. n + 1
           /\ \A r \in Reads(g) : /\ f[r] <= LevelOf(g, f)
                                  /\ g.type \in Communicating => f[r] < LevelOf(g, f)
           /\ \A h : (\A r \in Reads(g) : h[r] = f[r]) => LevelOf(g, h) = LevelOf(g, f)
<1> DEFINE S == {0} \cup {f[r] : r \in Reads(g)}
<1>1. S \in SUBSET (0 .. n) /\ S # {}
  OBVIOUS
<1>2. Max(S) \in S /\ \A x \in S : Max(S) >= x
  BY <1>1, MaxBounded
<1>3. LevelOf(g, f) = Max(S) + (IF g.type \in Communicating THEN 1 ELSE 0)
  BY DEF LevelOf
<1>4. ASSUME NEW h, \A r \in Reads(g) : h[r] = f[r]
      PROVE  LevelOf(g, h) = LevelOf(g, f)
  <2>1. {0} \cup {h[r] : r \in Reads(g)} = S
    BY <1>4
  <2> QED
    BY <2>1 DEF LevelOf
<1>5. \A r \in Reads(g) : f[r] \in S
  OBVIOUS
<1>6. Max(S) \in 0 .. n
  BY <1>1, <1>2
<1> HIDE DEF S
<1> QED
  BY <1>2, <1>3, <1>4, <1>5, <1>6

LEMMA LevelUnfold ==
    ASSUME NEW gates, Acyclic(gates)
    PROVE  /\ DOMAIN GateLevel(gates) = 1 .. Len(gates)
           /\ \A w \in 1 .. Len(gates) :
              /\ GateLevel(gates)[w] \in 0 .. w
              /\ \A r \in Reads(gates[w]) :
                    /\ r \in 1 .. w - 1
                    /\ GateLevel(gates)[r] <= GateLevel(gates)[w]
                    /\ gates[w].type \in Communicating =>
                          GateLevel(gates)[r] < GateLevel(gates)[w]
              /\ Reads(gates[w]) = {} /\ gates[w].type \notin Communicating =>
                    GateLevel(gates)[w] = 0
<1> DEFINE N == Len(gates)
           Upto(n, f) == \A w \in 1 .. n : f[w] = LevelOf(gates[w], f) /\ f[w] \in 0 .. w
           T == {n \in Nat : n <= N => \E f : DOMAIN f = 1 .. n /\ Upto(n, f)}
           P(f) == f = [w \in DOMAIN gates |-> LevelOf(gates[w], f)]
           level == CHOOSE f : P(f)
<1>1. N \in Nat /\ DOMAIN gates = 1 .. N /\ \A w \in 1 .. N : Reads(gates[w]) \subseteq 1 .. w - 1
  BY DEF Acyclic
<1> HIDE DEF N
<1>2. 0 \in T
  <2>1. DOMAIN [w \in 1 .. 0 |-> 0] = 1 .. 0 /\ Upto(0, [w \in 1 .. 0 |-> 0])
    OBVIOUS
  <2> QED
    BY <2>1
<1>3. ASSUME NEW n \in Nat, n \in T
      PROVE  n + 1 \in T
  <2> SUFFICES ASSUME n + 1 <= N
               PROVE  \E f : DOMAIN f = 1 .. n + 1 /\ Upto(n + 1, f)
    OBVIOUS
  <2>1. PICK f : DOMAIN f = 1 .. n /\ Upto(n, f)
    BY <1>1, <1>3
  <2> DEFINE h == [w \in 1 .. n + 1 |->
                     IF w = n + 1 THEN LevelOf(gates[n + 1], f) ELSE f[w]]
  <2>2. \A w \in 1 .. n : h[w] = f[w] /\ f[w] \in 0 .. n
    BY <2>1
  <2>3. ASSUME NEW w \in 1 .. n + 1
        PROVE  h[w] = LevelOf(gates[w], h) /\ h[w] \in 0 .. w
    <3>1. w \in 1 .. N /\ w - 1 \in Nat
      BY <1>1
    <3>2. \A r \in Reads(gates[w]) : r \in 1 .. w - 1 /\ r \in 1 .. n
      BY <1>1, <3>1
    <3>3. \A r \in Reads(gates[w]) : f[r] \in 0 .. w - 1 /\ h[r] = f[r]
      BY <2>1, <2>2, <3>2
    <3> HIDE DEF h
    <3>4. LevelOf(gates[w], h) = LevelOf(gates[w], f) /\ LevelOf(gates[w], f) \in 0 .. w
      BY <3>1, <3>3, LevelOfGate
    <3>5. h[w] = LevelOf(gates[w], f)
      <4>1. CASE w = n + 1
        BY <4>1 DEF h
      <4>2. CASE w \in 1 .. n
        BY <2>1, <2>2, <4>2
      <4> QED
        BY <4>1, <4>2
    <3> QED
      BY <3>4, <3>5
  <2>4. DOMAIN h = 1 .. n + 1
    OBVIOUS
  <2> HIDE DEF h
  <2>5. Upto(n + 1, h)
    BY <2>3
  <2> HIDE DEF Upto
  <2> QED
    BY <2>4, <2>5
<1> HIDE DEF T
<1>4. Nat \subseteq T
  BY <1>2, <1>3, SetInduction
<1>5. P(level)
  <2>1. PICK f : DOMAIN f = 1 .. N /\ Upto(N, f)
    BY <1>1, <1>4 DEF T
  <2> DEFINE h == [w \in 1 .. N |-> f[w]]
  <2>2. \A w \in 1 .. N : h[w] = LevelOf(gates[w], h)
    <3> SUFFICES ASSUME NEW w \in 1 .. N
                 PROVE  h[w] = LevelOf(gates[w], h)
      OBVIOUS
    <3>1. w \in Nat /\ \A r \in Reads(gates[w]) : r \in 1 .. N
      BY <1>1
    <3>2. \A r \in Reads(gates[w]) : f[r] \in 0 .. w /\ h[r] = f[r]
      <4>1. \A r \in Reads(gates[w]) : r \in 1 .. w - 1 /\ f[r] \in 0 .. r
        BY <1>1, <2>1, <3>1
      <4> QED
        BY <3>1, <4>1
    <3>3. h[w] = f[w] /\ f[w] = LevelOf(gates[w], f)
      BY <2>1
    <3> HIDE DEF h
    <3> QED
      BY <3>1, <3>2, <3>3, LevelOfGate
  <2>3. h = [w \in 1 .. N |-> h[w]]
    OBVIOUS
  <2> HIDE DEF h
  <2>4. P(h)
    BY <1>1, <2>2, <2>3
  <2> HIDE DEF P
  <2> QED
    BY <2>4, Zenon
<1>6. GateLevel(gates) = level
  BY DEF GateLevel
<1> HIDE DEF level
<1>7. DOMAIN level = 1 .. N /\ \A w \in 1 .. N : level[w] = LevelOf(gates[w], level)
  BY <1>1, <1>5
<1> HIDE DEF P
<1> DEFINE D == {n \in Nat : \A w \in 1 .. N : w <= n => level[w] \in 0 .. w}
<1>8. 0 \in D
  OBVIOUS
<1>9. ASSUME NEW n \in Nat, n \in D
      PROVE  n + 1 \in D
  <2> SUFFICES ASSUME NEW w \in 1 .. N, w <= n + 1
               PROVE  level[w] \in 0 .. w
    OBVIOUS
  <2>1. w - 1 \in Nat
    OBVIOUS
  <2>2. \A r \in Reads(gates[w]) : level[r] \in 0 .. w - 1
    <3>1. \A r \in Reads(gates[w]) : r \in 1 .. w - 1 /\ r \in 1 .. N /\ r <= n
      BY <1>1
    <3>2. \A r \in Reads(gates[w]) : level[r] \in 0 .. r
      BY <1>9, <3>1
    <3> QED
      BY <3>1, <3>2
  <2>3. LevelOf(gates[w], level) \in 0 .. w
    BY <2>1, <2>2, LevelOfGate
  <2> QED
    BY <1>7, <2>3
<1> HIDE DEF D
<1>10. Nat \subseteq D
  BY <1>8, <1>9, SetInduction
<1>11. \A w \in 1 .. N : level[w] \in 0 .. w
  BY <1>1, <1>10 DEF D
<1>12. ASSUME NEW w \in 1 .. N, NEW r \in Reads(gates[w])
       PROVE  /\ r \in 1 .. w - 1 /\ level[r] <= level[w]
              /\ gates[w].type \in Communicating => level[r] < level[w]
  <2>1. w - 1 \in Nat /\ \A q \in Reads(gates[w]) : q \in 1 .. w - 1 /\ q \in 1 .. N
    BY <1>1
  <2>2. \A q \in Reads(gates[w]) : level[q] \in 0 .. w - 1
    BY <1>11, <2>1
  <2>3. /\ level[r] <= LevelOf(gates[w], level)
        /\ gates[w].type \in Communicating => level[r] < LevelOf(gates[w], level)
    BY <2>1, <2>2, LevelOfGate
  <2> QED
    BY <1>7, <2>1, <2>3
<1>13. ASSUME NEW w \in 1 .. N, Reads(gates[w]) = {}, gates[w].type \notin Communicating
       PROVE  level[w] = 0
  <2>1. {0} \cup {level[r] : r \in Reads(gates[w])} = {0}
    BY <1>13
  <2>2. Max({0}) = 0
    <3>1. {0} \in SUBSET (0 .. 0) /\ {0} # {} /\ 0 \in Nat
      OBVIOUS
    <3>2. Max({0}) \in {0}
      BY <3>1, MaxBounded
    <3> QED
      BY <3>2
  <2>3. LevelOf(gates[w], level) = 0
    BY <1>13, <2>1, <2>2 DEF LevelOf
  <2> QED
    BY <1>7, <2>3
<1> QED
  BY <1>6, <1>7, <1>11, <1>12, <1>13 DEF N

\* The order of the gates by their levels, then by age.
Before(gates) ==
    {p \in (1 .. Len(gates)) \X (1 .. Len(gates)) :
        \/ GateLevel(gates)[p[1]] < GateLevel(gates)[p[2]]
        \/ GateLevel(gates)[p[1]] = GateLevel(gates)[p[2]] /\ p[1] < p[2]}

\* orderGatesByLevel puts the gates of level l in its l-th list (counted from 0) and
\* keeps their order there.
LEMMA LevelLists ==
    ASSUME NEW gates, Acyclic(gates)
    PROVE  /\ ByLevel(gates) \in Seq(Seq(1 .. Len(gates))) /\ Len(ByLevel(gates)) \in Nat \ {0}
           /\ \A l \in 1 .. Len(ByLevel(gates)) :
                 /\ Elements(ByLevel(gates)[l])
                       = {w \in 1 .. Len(gates) : GateLevel(gates)[w] = l - 1}
                 /\ Sorted(ByLevel(gates)[l], Before(gates))
           /\ \A w \in 1 .. Len(gates) :
                 GateLevel(gates)[w] + 1 \in 1 .. Len(ByLevel(gates))
<1> DEFINE N == Len(gates)
           level == GateLevel(gates)
           depth == Max({0} \cup Range(level))
           all == [w \in DOMAIN gates |-> w]
           At(l) == {w \in DOMAIN gates : level[w] = l - 1}
           levels == [l \in 1 .. depth + 1 |-> Pick(all, At(l))]
<1>1. N \in Nat /\ DOMAIN gates = 1 .. N
  BY DEF Acyclic
<1>2. DOMAIN level = 1 .. N /\ \A w \in 1 .. N : level[w] \in 0 .. w
  BY LevelUnfold
<1>3. ByLevel(gates) = levels
  BY DEF ByLevel
<1>4. depth \in 0 .. N /\ \A w \in 1 .. N : level[w] <= depth
  <2> DEFINE S == {0} \cup Range(level)
  <2> HIDE DEF level
  <2>1. S \in SUBSET (0 .. N) /\ S # {} /\ \A w \in 1 .. N : level[w] \in S
    BY <1>1, <1>2 DEF Range
  <2> HIDE DEF S
  <2>2. Max(S) \in S /\ \A x \in S : Max(S) >= x
    BY <1>1, <2>1, MaxBounded
  <2>3. Max(S) \in 0 .. N
    BY <2>1, <2>2
  <2>4. \A w \in 1 .. N : level[w] <= Max(S)
    BY <1>1, <1>2, <2>1, <2>2, <2>3
  <2> QED
    BY <2>3, <2>4 DEF S
<1> HIDE DEF level, depth
<1> DEFINE Age == {p \in Nat \X Nat : p[1] < p[2]}
<1>5. all \in Seq(1 .. N) /\ Elements(all) = 1 .. N /\ Sorted(all, Age)
  <2>1. all = [w \in 1 .. N |-> w]
    BY <1>1
  <2>2. [w \in 1 .. N |-> w] \in Seq(1 .. N) /\ Len([w \in 1 .. N |-> w]) = N
    BY <1>1
  <2> HIDE DEF all, N
  <2>3. \A w \in 1 .. N : all[w] = w
    BY <2>1
  <2> QED
    BY <1>1, <2>1, <2>2, <2>3 DEF Elements, Sorted
<1> HIDE DEF all
<1>6. ASSUME NEW l \in 1 .. depth + 1
      PROVE  /\ levels[l] \in Seq(1 .. N)
             /\ Elements(levels[l]) = {w \in 1 .. N : level[w] = l - 1}
             /\ Sorted(levels[l], Age)
  <2>1. levels[l] = Pick(all, At(l))
    OBVIOUS
  <2>2. /\ Pick(all, At(l)) \in Seq(1 .. N)
        /\ Elements(Pick(all, At(l))) = Elements(all) \cap At(l)
        /\ \A R : Sorted(all, R) => Sorted(Pick(all, At(l)), R)
    <3> HIDE DEF At, Age, N
    <3> QED
      BY <1>5, PickProperties
  <2>3. (1 .. N) \cap At(l) = {w \in 1 .. N : level[w] = l - 1}
    BY <1>1
  <2> HIDE DEF At, levels
  <2> QED
    BY <1>5, <2>1, <2>2, <2>3
<1>7. levels \in Seq(Seq(1 .. N)) /\ Len(levels) = depth + 1
  <2> HIDE DEF At
  <2>1. depth + 1 \in Nat
    BY <1>1, <1>4
  <2>2. \A l \in 1 .. depth + 1 : Pick(all, At(l)) \in Seq(1 .. N)
    BY <1>6
  <2> QED
    BY <2>1, <2>2
<1> HIDE DEF levels
<1>8. ASSUME NEW l \in 1 .. depth + 1
      PROVE  Sorted(levels[l], Before(gates))
  <2> SUFFICES ASSUME NEW i \in 1 .. Len(levels[l]), NEW j \in 1 .. Len(levels[l]), i < j
               PROVE  <<levels[l][i], levels[l][j]>> \in Before(gates)
    BY DEF Sorted
  <2>1. /\ levels[l][i] \in 1 .. N /\ level[levels[l][i]] = l - 1
        /\ levels[l][j] \in 1 .. N /\ level[levels[l][j]] = l - 1
    <3>1. levels[l][i] \in Elements(levels[l]) /\ levels[l][j] \in Elements(levels[l])
      BY DEF Elements
    <3> QED
      BY <1>6, <3>1
  <2>2. <<levels[l][i], levels[l][j]>> \in Age
    BY <1>6 DEF Sorted
  <2>3. levels[l][i] < levels[l][j]
    BY <2>2
  <2> QED
    BY <2>1, <2>3 DEF Before, level
<1>9. (\A w \in 1 .. N : level[w] + 1 \in 1 .. depth + 1) /\ depth + 1 \in Nat \ {0}
  BY <1>1, <1>2, <1>4
<1> QED
  BY <1>3, <1>6, <1>7, <1>8, <1>9 DEF level, N

\* Listing the levels one after the other lists every gate once, by level and age.
LEMMA OrderOfGates ==
    ASSUME NEW gates, Acyclic(gates)
    PROVE  /\ FlattenSeq(ByLevel(gates)) \in Seq(1 .. Len(gates))
           /\ Elements(FlattenSeq(ByLevel(gates))) = 1 .. Len(gates)
           /\ Sorted(FlattenSeq(ByLevel(gates)), Before(gates))
<1> DEFINE N == Len(gates)
           U == 1 .. N
           level == GateLevel(gates)
           levels == ByLevel(gates)
           L == Len(levels)
<1>1. /\ levels \in Seq(Seq(U))
      /\ \A l \in 1 .. L : /\ Elements(levels[l]) = {w \in U : level[w] = l - 1}
                           /\ Sorted(levels[l], Before(gates))
      /\ \A w \in U : level[w] + 1 \in 1 .. L
  BY LevelLists
<1>2. \A w \in U : level[w] \in Nat
  BY LevelUnfold
<1>3. /\ FlattenSeq(levels) \in Seq(U)
      /\ Elements(FlattenSeq(levels)) = UNION {Elements(levels[n]) : n \in 1 .. L}
      /\ \A R : /\ \A n \in 1 .. L : Sorted(levels[n], R)
                /\ \A m, n \in 1 .. L : m < n =>
                      \A x \in Elements(levels[m]), y \in Elements(levels[n]) : <<x, y>> \in R
                => Sorted(FlattenSeq(levels), R)
  <2> HIDE DEF levels, U
  <2> QED
    BY <1>1, FlattenProperties
<1>4. L \in Nat
  <2> HIDE DEF levels, U
  <2> QED
    BY <1>1
<1> HIDE DEF levels, L
<1>5. UNION {Elements(levels[n]) : n \in 1 .. L} = U
  <2>1. \A w \in U : w \in Elements(levels[level[w] + 1])
    <3>1. \A w \in U : (level[w] + 1) - 1 = level[w]
      BY <1>2
    <3> QED
      BY <1>1, <3>1
  <2>2. \A n \in 1 .. L : Elements(levels[n]) \subseteq U
    BY <1>1
  <2> HIDE DEF U, level
  <2>3. \A w \in U : w \in UNION {Elements(levels[n]) : n \in 1 .. L}
    BY <1>1, <2>1
  <2>4. UNION {Elements(levels[n]) : n \in 1 .. L} \subseteq U
    BY <2>2
  <2> QED
    BY <2>3, <2>4
<1>6. ASSUME NEW m \in 1 .. L, NEW n \in 1 .. L, m < n,
             NEW x \in Elements(levels[m]), NEW y \in Elements(levels[n])
      PROVE  <<x, y>> \in Before(gates)
  <2>1. x \in U /\ y \in U /\ level[x] = m - 1 /\ level[y] = n - 1
    BY <1>1
  <2>2. level[x] < level[y]
    BY <1>4, <1>6, <2>1
  <2> QED
    BY <2>1, <2>2 DEF Before
<1>7. Sorted(FlattenSeq(levels), Before(gates))
  <2> HIDE DEF level, U
  <2> QED
    BY <1>1, <1>3, <1>6
<1> QED
  BY <1>3, <1>5, <1>7 DEF levels

\* order lists every gate once, after the gates whose wires it reads.
Topological(gates, order) ==
    /\ order \in Seq(1 .. Len(gates))
    /\ \A i, j \in 1 .. Len(order) : i < j => order[i] # order[j]
    /\ \A w \in 1 .. Len(gates) : \E i \in 1 .. Len(order) :
          /\ order[i] = w
          /\ \A r \in Reads(gates[w]) : \E j \in 1 .. i - 1 : order[j] = r

\* The order that orderGatesByLevel gives the gates is one of these.
LEMMA LevelOrderTopological ==
    ASSUME NEW gates, Acyclic(gates)
    PROVE  Topological(gates, FlattenSeq(ByLevel(gates)))
<1> DEFINE N == Len(gates)
           level == GateLevel(gates)
           order == FlattenSeq(ByLevel(gates))
           M == Len(order)
<1>1. /\ order \in Seq(1 .. N) /\ Elements(order) = 1 .. N /\ M \in Nat /\ N \in Nat
      /\ \A i, j \in 1 .. M : i < j => <<order[i], order[j]>> \in Before(gates)
  <2>1. /\ order \in Seq(1 .. N) /\ Elements(order) = 1 .. N
        /\ Sorted(order, Before(gates)) /\ N \in Nat
    BY OrderOfGates DEF Acyclic
  <2> HIDE DEF order, N
  <2> QED
    BY <2>1 DEF Sorted
<1>2. \A w \in 1 .. N : level[w] \in Nat /\ \A r \in Reads(gates[w]) :
         r \in 1 .. w - 1 /\ level[r] <= level[w]
  BY LevelUnfold
<1> HIDE DEF order, M
<1>3. \A i, j \in 1 .. M : i < j => order[i] # order[j]
  <2> SUFFICES ASSUME NEW i \in 1 .. M, NEW j \in 1 .. M, i < j, order[i] = order[j]
               PROVE  FALSE
    OBVIOUS
  <2>1. <<order[i], order[j]>> \in Before(gates)
    BY <1>1
  <2>2. order[i] \in 1 .. N
    BY <1>1 DEF M
  <2>3. level[order[i]] \in Nat
    BY <1>2, <2>2
  <2> QED
    BY <1>1, <2>1, <2>2, <2>3 DEF Before
<1>4. ASSUME NEW w \in 1 .. N
      PROVE  \E i \in 1 .. M :
                /\ order[i] = w
                /\ \A r \in Reads(gates[w]) : \E j \in 1 .. i - 1 : order[j] = r
  <2>1. PICK i \in 1 .. M : order[i] = w
    <3>1. w \in Elements(order)
      BY <1>1
    <3> QED
      BY <3>1 DEF Elements, M
  <2>2. ASSUME NEW r \in Reads(gates[w])
        PROVE  \E j \in 1 .. i - 1 : order[j] = r
    <3>1. r \in 1 .. w - 1 /\ r \in 1 .. N /\ level[r] <= level[w]
          /\ level[r] \in Nat /\ level[w] \in Nat
      <4> HIDE DEF N, level
      <4>1. r \in 1 .. w - 1
        BY <1>2
      <4>2. r \in 1 .. N
        BY <1>1, <4>1
      <4> QED
        BY <1>2, <4>1, <4>2
    <3>2. PICK j \in 1 .. M : order[j] = r
      <4>1. r \in Elements(order)
        BY <1>1, <3>1
      <4> QED
        BY <4>1 DEF Elements, M
    <3>3. j # i
      BY <2>1, <3>1, <3>2
    <3>4. ~ (i < j)
      <4> SUFFICES ASSUME i < j
                   PROVE  FALSE
        OBVIOUS
      <4>1. <<w, r>> \in Before(gates)
        BY <1>1, <2>1, <3>2
      <4>2. level[w] < level[r] \/ (level[w] = level[r] /\ w < r)
        BY <4>1 DEF Before
      <4> QED
        BY <1>1, <3>1, <4>2
    <3> QED
      BY <1>1, <3>2, <3>3, <3>4
  <2> QED
    BY <2>1, <2>2
<1> QED
  BY <1>1, <1>3, <1>4 DEF Topological, order, M

\* So is the order in which they were added.
LEMMA AgeTopological ==
    ASSUME NEW gates, Acyclic(gates)
    PROVE  Topological(gates, [w \in DOMAIN gates |-> w])
<1> DEFINE N == Len(gates)
           age == [w \in 1 .. N |-> w]
<1>1. N \in Nat /\ DOMAIN gates = 1 .. N /\ \A w \in 1 .. N : Reads(gates[w]) \subseteq 1 .. w - 1
  BY DEF Acyclic
<1>2. age \in Seq(1 .. N) /\ Len(age) = N /\ \A w \in 1 .. N : age[w] = w
  BY <1>1
<1>3. ASSUME NEW w \in 1 .. N, NEW r \in Reads(gates[w])
      PROVE  r \in 1 .. w - 1 /\ age[r] = r
  BY <1>1, <1>2
<1> HIDE DEF age
<1>4. \A i, j \in 1 .. Len(age) : i < j => age[i] # age[j]
  BY <1>1, <1>2
<1>5. \A w \in 1 .. N : \E i \in 1 .. Len(age) :
          /\ age[i] = w
          /\ \A r \in Reads(gates[w]) : \E j \in 1 .. i - 1 : age[j] = r
  BY <1>2, <1>3
<1>6. Topological(gates, age)
  BY <1>2, <1>4, <1>5 DEF Topological
<1> QED
  BY <1>1, <1>6 DEF age

\* An order of all the gates lists as many as there are.
LEMMA TopologicalLength ==
    ASSUME NEW gates, NEW order, Topological(gates, order), Len(gates) \in Nat
    PROVE  Len(order) = Len(gates) /\ Range(order) = 1 .. Len(gates)
<1> DEFINE N == Len(gates)
           M == Len(order)
<1>1. /\ M \in Nat /\ order \in [1 .. M -> 1 .. N]
      /\ \A i, j \in 1 .. M : i < j => order[i] # order[j]
      /\ \A w \in 1 .. N : \E i \in 1 .. M : order[i] = w
  BY DEF Topological
<1> HIDE DEF N, M
<1>2. \A i, j \in 1 .. M : order[i] = order[j] => i = j
  BY <1>1
<1>3. order \in Bijection(1 .. M, 1 .. N)
  <2>1. \A w \in 1 .. N : \E i \in 1 .. M : order[i] = w
    BY <1>1
  <2> QED
    BY <1>1, <1>2, <2>1 DEF Bijection, Injection, Surjection, IsInjective
<1>4. /\ IsFiniteSet(1 .. M) /\ Cardinality(1 .. M) = M
      /\ IsFiniteSet(1 .. N) /\ Cardinality(1 .. N) = N
  <2>1. N \in Nat
    BY DEF N
  <2>2. ASSUME NEW n \in Nat
        PROVE  IsFiniteSet(1 .. n) /\ Cardinality(1 .. n) = n
    <3>1. /\ IsFiniteSet(1 .. n)
          /\ Cardinality(1 .. n) = IF 1 > n THEN 0 ELSE n - 1 + 1
      BY FS_Interval
    <3> QED
      BY <3>1
  <2> QED
    BY <1>1, <2>1, <2>2
<1>5. Cardinality(1 .. N) = Cardinality(1 .. M)
  BY <1>3, <1>4, FS_Bijection DEF ExistsBijection
<1>6. Range(order) = 1 .. N
  BY <1>1 DEF Range
<1> QED
  BY <1>4, <1>5, <1>6 DEF N, M
-----------------------------------------------------------------------------
(***************************************************************************)
(* Evaluation.                                                             *)
(***************************************************************************)
\* What a gate computes depends on the wires it reads only.
LEMMA ValueOfReads ==
    ASSUME NEW g, HasOperands(g), NEW w, NEW inp, NEW a, NEW b,
           \A r \in Reads(g) : a[r] = b[r]
    PROVE  GateValue(g, w, a, inp) = GateValue(g, w, b, inp)
<1> DEFINE n == Len(g.in1)
           D == DotSums(g, a, a)
           E == DotSums(g, b, b)
           T == {i \in Nat : i <= n => D[i] = E[i]}
<1>1. /\ n \in Nat /\ g.type \in GateTypes
      /\ \A i \in 1 .. n : a[g.in1[i]] = b[g.in1[i]]
      /\ g.type \in FIn2Types \cup {"kDotprod"} =>
            \A i \in 1 .. n : a[g.in2[i]] = b[g.in2[i]]
      /\ g.type \in FIn2Types \cup ConstOpTypes => 1 \in 1 .. n
  <2>1. /\ n \in Nat /\ DOMAIN g.in1 = 1 .. n /\ DOMAIN g.in2 = 1 .. Len(g.in2)
    BY DEF HasOperands
  <2>2. \A i \in 1 .. n : g.in1[i] \in Reads(g)
    BY <2>1 DEF Reads, Range
  <2>3. \A i \in 1 .. Len(g.in2) : g.in2[i] \in Reads(g)
    BY <2>1 DEF Reads, Range
  <2> HIDE DEF n
  <2>4. g.type \in FIn2Types \cup {"kDotprod"} => Len(g.in2) = n
    BY DEF HasOperands, n
  <2>5. g.type \in FIn2Types \cup ConstOpTypes => n = 1
    BY DEF HasOperands, n
  <2>6. g.type \in GateTypes
    BY DEF HasOperands
  <2> QED
    BY <2>1, <2>2, <2>3, <2>4, <2>5, <2>6
<1>2. /\ D[0] = 0 /\ \A i \in 1 .. n : D[i] = D[i - 1] + a[g.in1[i]] * a[g.in2[i]]
      /\ E[0] = 0 /\ \A i \in 1 .. n : E[i] = E[i - 1] + b[g.in1[i]] * b[g.in2[i]]
  BY <1>1, DotUnfold
<1> HIDE DEF n, D, E
<1>3. ASSUME g.type \in FIn2Types \cup {"kDotprod"}
      PROVE  D[n] = E[n]
  <2>1. 0 \in T
    BY <1>2
  <2>2. ASSUME NEW i \in Nat, i \in T
        PROVE  i + 1 \in T
    <3>1. CASE i + 1 <= n
      <4>1. i + 1 \in 1 .. n /\ (i + 1) - 1 = i /\ D[i] = E[i]
        BY <1>1, <2>2, <3>1
      <4>2. /\ D[i + 1] = D[i] + a[g.in1[i + 1]] * a[g.in2[i + 1]]
            /\ E[i + 1] = E[i] + b[g.in1[i + 1]] * b[g.in2[i + 1]]
        BY <1>2, <4>1
      <4>3. a[g.in1[i + 1]] = b[g.in1[i + 1]] /\ a[g.in2[i + 1]] = b[g.in2[i + 1]]
        BY <1>1, <1>3, <4>1
      <4>4. D[i + 1] = E[i + 1]
        BY <4>1, <4>2, <4>3, Zenon
      <4> QED
        BY <4>4
    <3> QED
      BY <3>1
  <2> HIDE DEF T
  <2>3. Nat \subseteq T
    BY <2>1, <2>2, SetInduction
  <2> QED
    BY <1>1, <2>3 DEF T
<1>4. Dot(g, a, a) = D[n] /\ Dot(g, b, b) = E[n]
  BY DEF Dot, D, E, n
<1>5. CASE g.type = "kInp"
  BY <1>5 DEF GateValue
<1>6. CASE g.type = "kAdd"
  <2>1. a[g.in1[1]] = b[g.in1[1]] /\ a[g.in2[1]] = b[g.in2[1]]
    BY <1>1, <1>6 DEF FIn2Types
  <2> QED
    BY <1>6, <2>1 DEF GateValue
<1>7. CASE g.type = "kSub"
  <2>1. a[g.in1[1]] = b[g.in1[1]] /\ a[g.in2[1]] = b[g.in2[1]]
    BY <1>1, <1>7 DEF FIn2Types
  <2> QED
    BY <1>7, <2>1 DEF GateValue
<1>8. CASE g.type = "kConstAdd"
  <2>1. a[g.in1[1]] = b[g.in1[1]]
    BY <1>1, <1>8 DEF ConstOpTypes
  <2> QED
    BY <1>8, <2>1 DEF GateValue
<1>9. CASE g.type = "kConstMul"
  <2>1. a[g.in1[1]] = b[g.in1[1]]
    BY <1>1, <1>9 DEF ConstOpTypes
  <2> QED
    BY <1>9, <2>1 DEF GateValue
<1>10. CASE g.type \in Communicating
  <2>1. D[n] = E[n]
    BY <1>3, <1>10 DEF Communicating, FIn2Types
  <2>2. \A v : GateValue(g, w, v, inp) = Dot(g, v, v) % Modulus
    BY <1>10 DEF GateValue, Communicating
  <2> QED
    BY <1>4, <2>1, <2>2
<1> QED
  BY <1>1, <1>5, <1>6, <1>7, <1>8, <1>9, <1>10
     DEF GateTypes, FIn2Types, ConstOpTypes, Communicating

\* The stages of EvaluateInOrder.
Evaluates(gates, inp, order, f) ==
    /\ f[0] = [w \in DOMAIN gates |-> 0]
    /\ EvaluateInOrder(gates, inp, order) = f[Len(order)]
    /\ \A n \in 1 .. Len(order) :
          f[n] = [f[n - 1] EXCEPT ![order[n]] =
                     GateValue(gates[order[n]], order[n], f[n - 1], inp)]

LEMMA EvaluateUnfold ==
    ASSUME NEW gates, NEW inp, NEW order, Len(order) \in Nat
    PROVE  \E f : Evaluates(gates, inp, order, f)
<1> DEFINE N == Len(order)
           start == [w \in DOMAIN gates |-> 0]
           Set(v, n) == [v EXCEPT ![order[n]] = GateValue(gates[order[n]], order[n], v, inp)]
           P(n, f) == f = [i \in 0 .. n |-> IF i = 0 THEN start ELSE Set(f[i - 1], i)]
           T == {n \in Nat : \E f : P(n, f)}
<1>1. 0 \in T
  <2> HIDE DEF start, Set
  <2>1. P(0, [i \in 0 .. 0 |-> start])
    OBVIOUS
  <2> QED
    BY <2>1
<1>2. ASSUME NEW n \in Nat, n \in T PROVE n + 1 \in T
  <2> HIDE DEF start, Set
  <2>1. PICK f : P(n, f)
    BY <1>2
  <2> DEFINE g == [i \in 0 .. n + 1 |-> IF i = n + 1 THEN Set(f[n], n + 1) ELSE f[i]]
  <2>2. \A i \in 0 .. n : g[i] = f[i]
    OBVIOUS
  <2>3. ASSUME NEW i \in 0 .. n + 1
        PROVE  g[i] = IF i = 0 THEN start ELSE Set(g[i - 1], i)
    <3>1. CASE i = n + 1
      <4>1. n \in 0 .. n /\ i - 1 = n /\ i # 0
        BY <3>1
      <4>2. g[i] = Set(f[n], i) /\ g[n] = f[n]
        BY <3>1, <4>1, <2>2
      <4> QED
        BY <4>1, <4>2
    <3>2. CASE i \in 0 .. n
      <4>1. f[i] = IF i = 0 THEN start ELSE Set(f[i - 1], i)
        BY <2>1, <3>2
      <4>2. i # 0 => i - 1 \in 0 .. n
        BY <3>2
      <4> HIDE DEF g
      <4>3. CASE i = 0
        BY <4>1, <4>3, <2>2, <3>2, Zenon
      <4>4. CASE i # 0
        BY <4>1, <4>2, <4>4, <2>2, <3>2, Zenon
      <4> QED
        BY <4>3, <4>4
    <3> QED
      BY <3>1, <3>2
  <2>4. P(n + 1, g)
    <3>1. g = [i \in 0 .. n + 1 |-> g[i]]
      OBVIOUS
    <3> HIDE DEF g
    <3> QED
      BY <3>1, <2>3
  <2> HIDE DEF g, P
  <2>5. \E h : P(n + 1, h)
    BY <2>4
  <2> QED
    BY <2>5
<1> HIDE DEF T
<1>3. Nat \subseteq T
  BY <1>1, <1>2, SetInduction
<1>4. \E f : P(N, f)
  BY <1>3 DEF T
<1> DEFINE t == CHOOSE f : P(N, f)
<1>5. P(N, t)
  <2> HIDE DEF P, N
  <2> QED
    BY <1>4, Zenon
<1>6. EvaluateInOrder(gates, inp, order) = t[N]
  BY DEF EvaluateInOrder
<1> HIDE DEF t
<1>7. t[0] = start /\ \A i \in 1 .. N : t[i] = Set(t[i - 1], i)
  <2> HIDE DEF start, Set
  <2>1. 0 \in 0 .. N /\ \A i \in 1 .. N : i \in 0 .. N /\ i # 0
    OBVIOUS
  <2> QED
    BY <1>5, <2>1
<1>8. Evaluates(gates, inp, order, t)
  BY <1>6, <1>7 DEF Evaluates
<1> QED
  BY <1>8

\* Evaluated in such an order, the wires are a function on the gates, and every wire
\* has the value that its gate computes from the others.
LEMMA EvaluationSolves ==
    ASSUME NEW gates, Acyclic(gates), \A w \in 1 .. Len(gates) : HasOperands(gates[w]),
           NEW inp, NEW order, Topological(gates, order)
    PROVE  LET v == EvaluateInOrder(gates, inp, order)
           IN  /\ v = [w \in 1 .. Len(gates) |-> v[w]]
               /\ \A w \in 1 .. Len(gates) : v[w] = GateValue(gates[w], w, v, inp)
<1> DEFINE N == Len(gates)
           M == Len(order)
<1>1. /\ DOMAIN gates = 1 .. N /\ M \in Nat /\ N \in Nat
      /\ \A i \in 1 .. M : order[i] \in 1 .. N
      /\ \A i, j \in 1 .. M : i < j => order[i] # order[j]
      /\ \A w \in 1 .. N : \E i \in 1 .. M : order[i] = w
  BY DEF Acyclic, Topological
<1>2. ASSUME NEW i \in 1 .. M, NEW r \in Reads(gates[order[i]])
      PROVE  \E j \in 1 .. i - 1 : order[j] = r
  <2>1. PICK k \in 1 .. M : /\ order[k] = order[i]
                            /\ \A q \in Reads(gates[order[i]]) :
                                  \E j \in 1 .. k - 1 : order[j] = q
    BY <1>1 DEF Topological
  <2>2. k = i
    BY <1>1, <2>1
  <2> QED
    BY <2>1, <2>2
<1>3. PICK f : Evaluates(gates, inp, order, f)
  BY <1>1, EvaluateUnfold
<1>4. /\ f[0] = [w \in 1 .. N |-> 0] /\ EvaluateInOrder(gates, inp, order) = f[M]
      /\ \A n \in 1 .. M :
            f[n] = [f[n - 1] EXCEPT ![order[n]] =
                       GateValue(gates[order[n]], order[n], f[n - 1], inp)]
  BY <1>1, <1>3 DEF Evaluates
<1> HIDE DEF N, M
<1> DEFINE Value(w, v) == GateValue(gates[w], w, v, inp)
           Done(n) == /\ f[n] = [w \in 1 .. N |-> f[n][w]]
                      /\ \A i \in 1 .. n : f[n][order[i]] = Value(order[i], f[n])
           T == {n \in Nat : n <= M => Done(n)}
<1>5. 0 \in T
  <2>1. f[0] = [w \in 1 .. N |-> f[0][w]]
    BY <1>4
  <2> HIDE DEF Value
  <2> QED
    BY <2>1
<1>6. ASSUME NEW n \in Nat, n \in T
      PROVE  n + 1 \in T
  <2> SUFFICES ASSUME n + 1 <= M
               PROVE  Done(n + 1)
    <3> HIDE DEF Done
    <3> QED
      OBVIOUS
  <2> DEFINE x == order[n + 1]
             a == f[n]
             b == f[n + 1]
  <2>1. n + 1 \in 1 .. M /\ (n + 1) - 1 = n /\ x \in 1 .. N
    BY <1>1
  <2>2. Done(n)
    <3> HIDE DEF Done
    <3> QED
      BY <1>1, <1>6
  <2>3. b = [a EXCEPT ![x] = Value(x, a)]
    BY <1>4, <2>1
  <2> HIDE DEF Value
  <2>4. b = [w \in 1 .. N |-> IF w = x THEN Value(x, a) ELSE a[w]]
    <3>1. a = [w \in 1 .. N |-> a[w]] /\ DOMAIN a = 1 .. N
      BY <2>2
    <3> HIDE DEF a, b, x
    <3> QED
      BY <2>3, <3>1
  <2> HIDE DEF a, b
  <2>5. ASSUME NEW i \in 1 .. n + 1
        PROVE  \A r \in Reads(gates[order[i]]) : b[r] = a[r]
    <3> SUFFICES ASSUME NEW r \in Reads(gates[order[i]])
                 PROVE  b[r] = a[r]
      OBVIOUS
    <3>1. i \in 1 .. M
      BY <1>1, <2>1
    <3>2. PICK j \in 1 .. i - 1 : order[j] = r
      BY <1>2, <3>1
    <3>3. j \in 1 .. M /\ j < n + 1
      BY <1>1, <3>1, <3>2
    <3>4. r # x /\ r \in 1 .. N
      BY <1>1, <2>1, <3>2, <3>3
    <3> QED
      BY <2>4, <3>4
  <2>6. ASSUME NEW i \in 1 .. n + 1
        PROVE  b[order[i]] = Value(order[i], b)
    <3>1. i \in 1 .. M /\ order[i] \in 1 .. N
      BY <1>1, <2>1
    <3>2. HasOperands(gates[order[i]])
      BY <3>1 DEF N
    <3>3. Value(order[i], b) = Value(order[i], a)
      BY <2>5, <3>2, ValueOfReads DEF Value
    <3>4. CASE i = n + 1
      BY <2>1, <2>4, <3>3, <3>4
    <3>5. CASE i # n + 1
      <4>1. i \in 1 .. n /\ i < n + 1
        BY <3>5
      <4>2. order[i] # x
        BY <1>1, <2>1, <3>1, <4>1
      <4>3. a[order[i]] = Value(order[i], a)
        BY <2>2, <4>1 DEF a
      <4> QED
        BY <2>4, <3>1, <3>3, <4>2, <4>3
    <3> QED
      BY <3>4, <3>5
  <2>7. b = [w \in 1 .. N |-> b[w]]
    BY <2>4
  <2> QED
    BY <2>6, <2>7 DEF b
<1> HIDE DEF T
<1>7. Nat \subseteq T
  BY <1>5, <1>6, SetInduction
<1>8. Done(M)
  <2> HIDE DEF Done
  <2>1. M \in T /\ M <= M
    BY <1>1, <1>7
  <2> QED
    BY <2>1 DEF T
<1>9. \A w \in 1 .. N : f[M][w] = Value(w, f[M])
  <2> SUFFICES ASSUME NEW w \in 1 .. N
               PROVE  f[M][w] = Value(w, f[M])
    OBVIOUS
  <2> HIDE DEF Value
  <2>1. PICK i \in 1 .. M : order[i] = w
    BY <1>1
  <2> QED
    BY <1>8, <2>1
<1> QED
  BY <1>4, <1>8, <1>9 DEF N

\* The values are the same in every such order.
LEMMA EvaluationUnique ==
    ASSUME NEW gates, Acyclic(gates), \A w \in 1 .. Len(gates) : HasOperands(gates[w]),
           NEW inp, NEW order, Topological(gates, order), NEW other, Topological(gates, other)
    PROVE  EvaluateInOrder(gates, inp, order) = EvaluateInOrder(gates, inp, other)
<1> DEFINE N == Len(gates)
           a == EvaluateInOrder(gates, inp, order)
           b == EvaluateInOrder(gates, inp, other)
           T == {n \in Nat : \A w \in 1 .. N : w <= n => a[w] = b[w]}
<1>1. /\ a = [w \in 1 .. N |-> a[w]] /\ \A w \in 1 .. N : a[w] = GateValue(gates[w], w, a, inp)
      /\ b = [w \in 1 .. N |-> b[w]] /\ \A w \in 1 .. N : b[w] = GateValue(gates[w], w, b, inp)
  BY EvaluationSolves
<1>2. N \in Nat /\ \A w \in 1 .. N : Reads(gates[w]) \subseteq 1 .. w - 1 /\ HasOperands(gates[w])
  BY DEF Acyclic
<1> HIDE DEF a, b, N
<1>3. 0 \in T
  OBVIOUS
<1>4. ASSUME NEW n \in Nat, n \in T
      PROVE  n + 1 \in T
  <2> SUFFICES ASSUME NEW w \in 1 .. N, w <= n + 1
               PROVE  a[w] = b[w]
    OBVIOUS
  <2>1. \A r \in Reads(gates[w]) : r \in 1 .. w - 1 /\ r \in 1 .. N /\ r <= n
    BY <1>2
  <2>2. \A r \in Reads(gates[w]) : a[r] = b[r]
    BY <1>4, <2>1
  <2>3. GateValue(gates[w], w, a, inp) = GateValue(gates[w], w, b, inp)
    BY <1>2, <2>2, ValueOfReads
  <2> QED
    BY <1>1, <2>3, Zenon
<1> HIDE DEF T
<1>5. Nat \subseteq T
  BY <1>3, <1>4, SetInduction
<1>6. \A w \in 1 .. N : a[w] = b[w]
  BY <1>2, <1>5 DEF T
<1>7. a = b
  BY <1>1, <1>6
<1> QED
  BY <1>7 DEF a, b
-----------------------------------------------------------------------------
(***************************************************************************)
(* Every circuit the builder can produce is well formed, for any number of *)
(* gates, owners, constants and vector lengths.  WellFormed is inductive:  *)
(* a new gate is appended after the wires it reads were checked, and the   *)
(* wires of a circuit are never removed.  That its levels are a            *)
(* topological order, and that evaluating along it gives what evaluating   *)
(* by age gives, follow for every well-formed circuit.                     *)
(***************************************************************************)
\* A gate whose operands were checked against the current wires keeps the
\* circuit well formed when it is appended.
LEMMA AppendKeeps ==
    ASSUME WellFormed, NEW g \in GateRecord, AddGate(g),
           Reads(g) \subseteq 1 .. Len(gates_),
           HasOperands(g)
    PROVE  WellFormed'
<1>1. gates_' = Append(gates_, g) /\ outputs_' = outputs_ /\ output_owners_' = output_owners_
    BY DEF AddGate
<1>2. gates_ \in Seq(GateRecord) BY DEF WellFormed
<1>3. gates_' \in Seq(GateRecord) /\ Len(gates_') = Len(gates_) + 1 /\ Len(gates_) \in Nat
    BY <1>1, <1>2
<1>4. \A w \in DOMAIN gates_' : gates_'[w] = IF w \in DOMAIN gates_ THEN gates_[w] ELSE g
    BY <1>1, <1>2
<1>5. DOMAIN gates_' = 1 .. Len(gates_) + 1 /\ DOMAIN gates_ = 1 .. Len(gates_)
    BY <1>2, <1>3
<1>6. outputs_' \in Seq(1 .. Len(gates_'))
  <2>1. outputs_ \in Seq(1 .. Len(gates_)) BY DEF WellFormed
  <2>2. 1 .. Len(gates_) \subseteq 1 .. Len(gates_') BY <1>3
  <2> QED BY <1>1, <2>1, <2>2
<1>7. DOMAIN output_owners_' \subseteq 1 .. Len(gates_')
    BY <1>1, <1>3 DEF WellFormed
<1>8. ASSUME NEW w \in DOMAIN gates_'
      PROVE  /\ Reads(gates_'[w]) \subseteq 1 .. w - 1
             /\ HasOperands(gates_'[w])
  <2>1. CASE w \in DOMAIN gates_
    BY <1>4, <2>1 DEF WellFormed
  <2>2. CASE w \notin DOMAIN gates_
    <3>1. w = Len(gates_) + 1 BY <1>3, <1>5, <2>2
    <3>2. gates_'[w] = g BY <1>4, <2>2
    <3> QED BY <1>3, <3>1, <3>2
  <2> QED BY <2>1, <2>2
<1>9. WellFormed' = (/\ gates_' \in Seq(GateRecord)
                     /\ outputs_' \in Seq(1 .. Len(gates_'))
                     /\ DOMAIN output_owners_' \subseteq 1 .. Len(gates_')
                     /\ \A w \in DOMAIN gates_' :
                          /\ Reads(gates_'[w]) \subseteq 1 .. w - 1
                          /\ HasOperands(gates_'[w]))
    BY DEF WellFormed
<1> QED BY <1>3, <1>6, <1>7, <1>8, <1>9

\* Marking a wire of the circuit as an output, with or without owners.
LEMMA OutputKeeps ==
    ASSUME WellFormed, NEW w \in 1 .. Len(gates_),
           gates_' = gates_, outputs_' = Append(outputs_, w),
           DOMAIN output_owners_' \subseteq DOMAIN output_owners_ \cup {w}
    PROVE  WellFormed'
<1>1. outputs_' \in Seq(1 .. Len(gates_')) BY DEF WellFormed
<1>2. DOMAIN output_owners_' \subseteq 1 .. Len(gates_') BY DEF WellFormed
<1> QED BY <1>1, <1>2 DEF WellFormed

\* Wires and operand sequences checked by isWireValid are what a gate reads.
LEMMA OperandRanges ==
    /\ Range(<<>>) = {}
    /\ \A w : Range(<<w>>) = {w}
    /\ \A w \in Nat : <<w>> \in Seq(Nat)
    /\ <<>> \in Seq(Nat)
BY DEF Range

\* Whatever sequence of builder calls ran, the circuit is well formed: what
\* orderGatesByLevel and both evaluators assume of gates_ (circuit.h:253-254).
THEOREM BuiltCircuitsWellFormed == CircuitSpec => []WellFormed
<1>1. InitCircuit => WellFormed
    BY DEF InitCircuit, WellFormed
<1>2. WellFormed /\ [BuildCircuit]_circuitVars => WellFormed'
  <2> SUFFICES ASSUME WellFormed, [BuildCircuit]_circuitVars PROVE WellFormed'
      OBVIOUS
  <2>0. gates_ \in Seq(GateRecord) /\ Len(gates_) \in Nat
      BY DEF WellFormed
  <2>1. ASSUME NEW o \in Owner, newInputWire(o) PROVE WellFormed'
    <3> DEFINE g == NewGate("kInp", <<>>, <<>>, 0, o[1], o[2])
    <3>1. g \in GateRecord BY OwnerAssumption DEF NewGate, GateRecord, GateTypes
    <3>2. Reads(g) = {} BY OperandRanges DEF Reads, NewGate
    <3>3. HasOperands(g)
        BY OperandRanges DEF NewGate, HasOperands, GateTypes, FIn2Types, ConstOpTypes
    <3>4. AddGate(g) BY <2>1 DEF newInputWire
    <3> HIDE DEF g
    <3> QED BY <3>1, <3>2, <3>3, <3>4, AppendKeeps
  <2>2. ASSUME NEW o \in Owner, NEW w1 \in 1 .. MaxGates, NEW w2 \in 1 .. MaxGates,
               NEW type \in FIn2Types, addGate(type, w1, w2, o)
        PROVE  WellFormed'
    <3> DEFINE g == NewGate(type, <<w1>>, <<w2>>, 0, o[1], o[2])
    <3>0. w1 \in Nat /\ w2 \in Nat BY BoundsAssumption
    <3>1. g \in GateRecord
        BY <3>0, OwnerAssumption, OperandRanges DEF NewGate, GateRecord, GateTypes
    <3>2. Reads(g) = {w1, w2} BY OperandRanges DEF Reads, NewGate
    <3>3. HasOperands(g)
        BY <3>0, OperandRanges DEF NewGate, HasOperands, GateTypes, FIn2Types, ConstOpTypes
    <3>4. AddGate(g) /\ w1 \in 1 .. Len(gates_) /\ w2 \in 1 .. Len(gates_)
        BY <2>2 DEF addGate, isWireValid
    <3> HIDE DEF g
    <3> QED BY <3>1, <3>2, <3>3, <3>4, AppendKeeps
  <2>3. ASSUME NEW o \in Owner, NEW w \in 1 .. MaxGates, NEW c \in Cval,
               NEW type \in ConstOpTypes, addConstOpGate(type, w, c, o)
        PROVE  WellFormed'
    <3> DEFINE g == NewGate(type, <<w>>, <<>>, c, o[1], o[2])
    <3>0. w \in Nat BY BoundsAssumption
    <3>1. g \in GateRecord
        BY <3>0, OwnerAssumption, CvalAssumption, OperandRanges DEF NewGate, GateRecord, GateTypes
    <3>2. Reads(g) = {w} BY OperandRanges DEF Reads, NewGate
    <3>3. HasOperands(g)
        BY <3>0, OperandRanges DEF NewGate, HasOperands, GateTypes, FIn2Types, ConstOpTypes
    <3>4. AddGate(g) /\ w \in 1 .. Len(gates_)
        BY <2>3 DEF addConstOpGate, isWireValid
    <3> HIDE DEF g
    <3> QED BY <3>1, <3>2, <3>3, <3>4, AppendKeeps
  <2>4. ASSUME NEW o \in Owner, NEW v \in DotVectors, addDotprod(v[1], v[2], o)
        PROVE  WellFormed'
    <3> DEFINE g == NewGate("kDotprod", v[1], v[2], 0, o[1], o[2])
    <3>1. g \in GateRecord
        BY OwnerAssumption, VectorsAssumption DEF NewGate, GateRecord, GateTypes
    <3>2. Reads(g) = Range(v[1]) \cup Range(v[2]) BY DEF Reads, NewGate
    <3>3. HasOperands(g)
        BY <2>4, VectorsAssumption
           DEF NewGate, addDotprod, HasOperands, GateTypes, FIn2Types, ConstOpTypes
    <3>4. AddGate(g) /\ Range(v[1]) \cup Range(v[2]) \subseteq 1 .. Len(gates_)
        BY <2>4 DEF addDotprod, isWireValid
    <3> HIDE DEF g
    <3> QED BY <3>1, <3>2, <3>3, <3>4, AppendKeeps
  <2>5. ASSUME NEW o \in Owner, NEW w \in 1 .. MaxGates, setAsOwnedOutput(w, o)
        PROVE  WellFormed'
    <3>1. DOMAIN output_owners_' \subseteq DOMAIN output_owners_ \cup {w}
        BY <2>5 DEF setAsOwnedOutput
    <3>2. w \in 1 .. Len(gates_) /\ gates_' = gates_ /\ outputs_' = Append(outputs_, w)
        BY <2>5 DEF setAsOwnedOutput, isWireValid
    <3> QED BY <3>1, <3>2, OutputKeeps
  <2>6. ASSUME NEW w \in 1 .. MaxGates, setAsOutput(w) PROVE WellFormed'
    BY <2>6, OutputKeeps DEF setAsOutput, isWireValid
  <2>7. CASE UNCHANGED circuitVars
    BY <2>7 DEF circuitVars, WellFormed
  <2> QED BY <2>1, <2>2, <2>3, <2>4, <2>5, <2>6, <2>7 DEF BuildCircuit
<1> QED BY <1>1, <1>2, PTL DEF CircuitSpec
-----------------------------------------------------------------------------
\* What the lemmas about circuits assume.
LEMMA WellFormedAcyclic ==
    ASSUME WellFormed
    PROVE  /\ Acyclic(gates_) /\ DOMAIN gates_ = 1 .. Len(gates_)
           /\ \A w \in 1 .. Len(gates_) : HasOperands(gates_[w])
<1>1. Len(gates_) \in Nat /\ DOMAIN gates_ = 1 .. Len(gates_)
  BY DEF WellFormed
<1> QED
  BY <1>1 DEF WellFormed, Acyclic

\* orderGatesByLevel (circuit.h:242-307), for every circuit the builder can produce:
\* the levels hold every gate once, a gate reads only gates listed before it, and a
\* gate the parties talk for reads only gates of lower levels.
THEOREM LevelsTopologicalHolds == CircuitSpec => []LevelsTopological
<1>1. WellFormed => LevelsTopological
  <2> SUFFICES ASSUME WellFormed PROVE LevelsTopological
    OBVIOUS
  <2> DEFINE N == Len(gates_)
             level == GateLevel(gates_)
             levels == ByLevel(gates_)
             order == FlattenSeq(levels)
             At(w) == CHOOSE i \in DOMAIN order : order[i] = w
             LevelAt(w) == CHOOSE l \in DOMAIN levels : w \in Range(levels[l])
  <2>1. Acyclic(gates_) /\ DOMAIN gates_ = 1 .. N /\ N \in Nat
    BY WellFormedAcyclic DEF Acyclic
  <2>2. Topological(gates_, order)
    BY <2>1, LevelOrderTopological
  <2>3. Len(order) = N /\ Range(order) = 1 .. N
    <3> HIDE DEF order
    <3> QED
      BY <2>1, <2>2, TopologicalLength
  <2>4. /\ levels \in Seq(Seq(1 .. N))
        /\ \A l \in 1 .. Len(levels) :
              Elements(levels[l]) = {w \in 1 .. N : level[w] = l - 1}
        /\ \A w \in 1 .. N : level[w] + 1 \in 1 .. Len(levels)
    BY <2>1, LevelLists
  <2>5. \A w \in 1 .. N : level[w] \in Nat /\ \A r \in Reads(gates_[w]) :
           /\ r \in 1 .. w - 1
           /\ gates_[w].type \in Communicating => level[r] < level[w]
    BY <2>1, LevelUnfold
  <2> HIDE DEF order, levels, level
  <2>6. /\ Len(order) \in Nat /\ DOMAIN order = 1 .. Len(order)
        /\ \A i, j \in 1 .. Len(order) : i < j => order[i] # order[j]
        /\ \A w \in 1 .. N : \E i \in 1 .. Len(order) :
              /\ order[i] = w
              /\ \A r \in Reads(gates_[w]) : \E j \in 1 .. i - 1 : order[j] = r
    BY <2>2 DEF Topological
  <2>7. ASSUME NEW i \in 1 .. Len(order)
        PROVE  At(order[i]) = i
    <3>1. \A j \in DOMAIN order : order[j] = order[i] <=> j = i
      BY <2>6
    <3> QED
      BY <2>6, <3>1
  <2>8. ASSUME NEW w \in 1 .. N
        PROVE  LevelAt(w) = level[w] + 1
    <3>1. \A l \in DOMAIN levels : Range(levels[l]) = Elements(levels[l])
      <4>1. \A l \in DOMAIN levels : DOMAIN levels[l] = 1 .. Len(levels[l])
        BY <2>4
      <4> QED
        BY <4>1 DEF Range, Elements
    <3>2. DOMAIN levels = 1 .. Len(levels) /\ Len(levels) \in Nat
      BY <2>4
    <3>3. \A l \in DOMAIN levels : w \in Range(levels[l]) <=> l = level[w] + 1
      BY <2>4, <2>5, <3>1, <3>2
    <3>4. level[w] + 1 \in DOMAIN levels
      BY <2>4, <3>2
    <3> HIDE DEF N
    <3> QED
      BY <3>3, <3>4
  <2>9. ASSUME NEW w \in DOMAIN gates_, NEW r \in Reads(gates_[w])
        PROVE  At(r) < At(w) /\ (gates_[w].type \in Communicating => LevelAt(r) < LevelAt(w))
    <3>1. w \in 1 .. N /\ r \in 1 .. N
      <4>1. w \in 1 .. N
        BY <2>1
      <4>2. r \in 1 .. w - 1
        BY <2>5, <4>1
      <4> QED
        BY <2>1, <4>1, <4>2
    <3>2. PICK i \in 1 .. Len(order) :
             /\ order[i] = w
             /\ \A q \in Reads(gates_[w]) : \E j \in 1 .. i - 1 : order[j] = q
      BY <2>6, <3>1
    <3>3. PICK j \in 1 .. i - 1 : order[j] = r
      BY <3>2
    <3>4. j \in 1 .. Len(order) /\ j < i
      BY <2>6, <3>3
    <3> HIDE DEF At, LevelAt
    <3>5. At(r) < At(w)
      BY <2>7, <3>2, <3>3, <3>4
    <3>6. gates_[w].type \in Communicating => LevelAt(r) < LevelAt(w)
      BY <2>5, <2>8, <3>1
    <3> QED
      BY <3>5, <3>6
  <2>10. Len(order) = Len(gates_) /\ Range(order) = DOMAIN gates_
    BY <2>1, <2>3
  <2> HIDE DEF At, LevelAt
  <2> QED
    BY <2>9, <2>10 DEF LevelsTopological, At, LevelAt, order, levels
<1> QED
  BY <1>1, BuiltCircuitsWellFormed, PTL

\* Circuit::evaluate (circuit.h:313-355) and any evaluation along orderGatesByLevel, for
\* every circuit the builder can produce and every input: the wires have the values that
\* the gates give them in the order they were added.
THEOREM EvaluationAgreesHolds == CircuitSpec => []EvaluationAgrees
<1>1. WellFormed => EvaluationAgrees
  <2> SUFFICES ASSUME WellFormed PROVE EvaluationAgrees
    OBVIOUS
  <2>1. Acyclic(gates_) /\ \A w \in 1 .. Len(gates_) : HasOperands(gates_[w])
    BY WellFormedAcyclic
  <2>2. /\ Topological(gates_, FlattenSeq(ByLevel(gates_)))
        /\ Topological(gates_, [w \in DOMAIN gates_ |-> w])
    BY <2>1, LevelOrderTopological, AgeTopological
  <2>3. ASSUME NEW inputs
        PROVE  Evaluate(gates_, inputs)
                   = EvaluateInOrder(gates_, inputs, [w \in DOMAIN gates_ |-> w])
    BY <2>1, <2>2, EvaluationUnique DEF Evaluate
  <2> QED
    BY <2>3 DEF EvaluationAgrees
<1> QED
  BY <1>1, BuiltCircuitsWellFormed, PTL
=============================================================================
