---------------------------- MODULE DataLemmas ----------------------------
(***************************************************************************)
(* Facts about the data the models are made of, none about a model: %,     *)
(* induction, and the buffered streams of the network.                     *)
(*                                                                         *)
(* What the proofs about arithmetic in Z/n need of % is stated through the *)
(* multiples of the modulus, so that what remains in a proof that uses it  *)
(* is linear.                                                              *)
(***************************************************************************)
EXTENDS Integers, SequenceTheorems, WellFoundedInduction, TLAPS

Multiples(n) == {n * k : k \in Int}
Cong(n, a, b) == a - b \in Multiples(n)

\* The multiples of a number are closed under addition, subtraction and negation.
LEMMA MultiplesClosed ==
    ASSUME NEW n \in Nat \ {0}
    PROVE  /\ 0 \in Multiples(n) /\ n \in Multiples(n) /\ Multiples(n) \subseteq Int
           /\ \A a, b \in Multiples(n) : a + b \in Multiples(n) /\ a - b \in Multiples(n)
           /\ \A a \in Multiples(n) : -a \in Multiples(n)
<1>1. 0 = n * 0 /\ n = n * 1
  OBVIOUS
<1>2. ASSUME NEW a \in Multiples(n), NEW b \in Multiples(n)
      PROVE  a + b \in Multiples(n) /\ a - b \in Multiples(n)
  <2>1. PICK k \in Int : a = n * k
    BY DEF Multiples
  <2>2. PICK m \in Int : b = n * m
    BY DEF Multiples
  <2>3. /\ a + b = n * (k + m) /\ a - b = n * (k - m)
        /\ k + m \in Int /\ k - m \in Int
    BY <2>1, <2>2
  <2> QED
    BY <2>3 DEF Multiples
<1>3. ASSUME NEW a \in Multiples(n) PROVE -a \in Multiples(n)
  <2>1. PICK k \in Int : a = n * k
    BY DEF Multiples
  <2>2. -a = n * (-k) /\ -k \in Int
    BY <2>1
  <2> QED
    BY <2>2 DEF Multiples
<1>4. Multiples(n) \subseteq Int
  BY DEF Multiples
<1>5. 0 \in Multiples(n) /\ n \in Multiples(n)
  BY <1>1 DEF Multiples
<1> QED
  BY <1>2, <1>3, <1>4, <1>5

\* A multiple times a number is a multiple.
LEMMA MultiplesTimes ==
    ASSUME NEW n \in Nat \ {0}, NEW a \in Multiples(n), NEW k \in Int
    PROVE  a * k \in Multiples(n)
<1>1. PICK m \in Int : a = n * m
  BY DEF Multiples
<1>2. a * k = n * (m * k) /\ m * k \in Int
  BY <1>1
<1> QED
  BY <1>2 DEF Multiples

\* Reducing a number changes it by a multiple of the modulus.
LEMMA ModRange ==
    ASSUME NEW n \in Nat \ {0}, NEW a \in Int
    PROVE  a % n \in 0 .. n - 1 /\ Cong(n, a % n, a) /\ Cong(n, a, a % n)
<1>1. a = n * (a \div n) + (a % n) /\ a \div n \in Int /\ a % n \in 0 .. n - 1
  OBVIOUS
<1>2. a - (a % n) = n * (a \div n)
  BY <1>1
<1>3. Cong(n, a, a % n)
  BY <1>1, <1>2 DEF Cong, Multiples
<1>4. -(a - (a % n)) = (a % n) - a
  BY <1>1
<1>5. Cong(n, a % n, a)
  BY <1>3, <1>4, MultiplesClosed DEF Cong
<1> QED
  BY <1>1, <1>3, <1>5

\* Two residues a multiple of the modulus apart are the same.
LEMMA ResiduesUnique ==
    ASSUME NEW n \in Nat \ {0}, NEW r \in 0 .. n - 1, NEW s \in 0 .. n - 1, Cong(n, r, s)
    PROVE  r = s
<1>1. PICK m \in Int : r - s = n * m
  BY DEF Cong, Multiples
<1>2. CASE m >= 1
  <2>1. n * m >= n
    BY <1>2
  <2> QED
    BY <2>1, <1>1
<1>3. CASE m <= -1
  <2>1. n * m <= -n
    BY <1>3
  <2> QED
    BY <2>1, <1>1
<1>4. CASE m = 0
  BY <1>4, <1>1
<1> QED
  BY <1>2, <1>3, <1>4

\* A residue is its own residue.
LEMMA ModSmall ==
    ASSUME NEW n \in Nat \ {0}, NEW a \in 0 .. n - 1
    PROVE  a % n = a
<1> DEFINE r == a % n
<1>1. r \in 0 .. n - 1 /\ Cong(n, r, a)
  BY ModRange
<1> HIDE DEF r
<1>2. r = a
  BY <1>1, ResiduesUnique
<1> QED
  BY <1>2 DEF r

\* Numbers a multiple of the modulus apart have the same residue.
LEMMA CongMod ==
    ASSUME NEW n \in Nat \ {0}, NEW a \in Int, NEW b \in Int, Cong(n, a, b)
    PROVE  a % n = b % n
<1> DEFINE ra == a % n
           rb == b % n
<1>1. /\ ra \in 0 .. n - 1 /\ Cong(n, ra, a)
      /\ rb \in 0 .. n - 1 /\ Cong(n, b, rb)
  BY ModRange
<1>2. (ra - a) + (a - b) \in Multiples(n)
  BY <1>1, MultiplesClosed DEF Cong
<1>3. ((ra - a) + (a - b)) + (b - rb) \in Multiples(n)
  BY <1>1, <1>2, MultiplesClosed DEF Cong
<1>4. ra - rb = ((ra - a) + (a - b)) + (b - rb)
  BY <1>1
<1>5. Cong(n, ra, rb)
  BY <1>3, <1>4 DEF Cong
<1> HIDE DEF ra, rb
<1>6. ra = rb
  BY <1>1, <1>5, ResiduesUnique
<1> QED
  BY <1>6 DEF ra, rb

\* The sum of two residues is that of the numbers.
LEMMA SumMod ==
    ASSUME NEW n \in Nat \ {0}, NEW u \in Int, NEW v \in Int, NEW w \in Int, Cong(n, u + v, w)
    PROVE  ((u % n) + (v % n)) % n = w % n
<1> DEFINE p == u % n
           q == v % n
<1>1. p \in Int /\ q \in Int /\ p - u \in Multiples(n) /\ q - v \in Multiples(n)
  <2>1. /\ u % n \in 0 .. n - 1 /\ Cong(n, u % n, u)
        /\ v % n \in 0 .. n - 1 /\ Cong(n, v % n, v)
    BY ModRange
  <2> QED
    BY <2>1 DEF Cong
<1> HIDE DEF p, q
<1>2. ((p - u) + (q - v)) + ((u + v) - w) \in Multiples(n)
  BY <1>1, MultiplesClosed DEF Cong
<1>3. ((p - u) + (q - v)) + ((u + v) - w) = (p + q) - w
  BY <1>1
<1>4. Cong(n, p + q, w)
  BY <1>2, <1>3 DEF Cong
<1>5. p + q \in Int
  BY <1>1
<1>6. (p + q) % n = w % n
  BY <1>4, <1>5, CongMod
<1> QED
  BY <1>6 DEF p, q
-----------------------------------------------------------------------------
\* Induction on the naturals, with a set for the property: an element outside the set
\* would have a least one, and that would have no predecessor outside.
LEMMA SetInduction ==
    ASSUME NEW T, 0 \in T, \A n \in Nat : n \in T => n + 1 \in T
    PROVE  Nat \subseteq T
<1> DEFINE U == Nat \ T
           Less == OpToRel(<, Nat)
<1>1. \A x, y \in Nat : y < x => <<y, x>> \in Less
  BY DEF OpToRel
<1>2. IsWellFoundedOn(Less, Nat)
  BY NatLessThanWellFounded
<1> HIDE DEF Less
<1>3. SUFFICES ASSUME U # {} PROVE FALSE
  OBVIOUS
<1>4. PICK x \in U : \A y \in U : ~ (<<y, x>> \in Less)
  <2>1. U \subseteq Nat
    OBVIOUS
  <2> HIDE DEF U
  <2> QED
    BY <2>1, <1>2, <1>3, WFMin
<1>5. x # 0 /\ x - 1 \in Nat /\ x - 1 < x
  BY <1>4
<1>6. x - 1 \in T
  BY <1>1, <1>4, <1>5
<1>7. (x - 1) + 1 = x
  BY <1>4
<1> QED
  BY <1>4, <1>5, <1>6, <1>7
Recursions(S) == [Nat -> [S -> S]]
Solution(S, a, g, N, f) ==
    f \in [0 .. N -> S] /\ f[0] = a /\ \A n \in 1 .. N : f[n] = g[n][f[n - 1]]

\* A recursive definition over 0 .. N has a solution: every step is a function of the
\* index and of what came before.
LEMMA Recursion ==
    ASSUME NEW S, NEW a \in S, NEW g \in Recursions(S), NEW N \in Nat
    PROVE  \E f : Solution(S, a, g, N, f)
<1> DEFINE Solves(n, f) == f = [i \in 0 .. n |-> IF i = 0 THEN a ELSE g[i][f[i - 1]]]
           T == {n \in Nat : \E f \in [0 .. n -> S] : Solves(n, f)}
<1>1. 0 \in T
  <2> DEFINE f == [i \in 0 .. 0 |-> a]
  <2>1. f \in [0 .. 0 -> S] /\ Solves(0, f)
    OBVIOUS
  <2> QED
    BY <2>1
<1>2. ASSUME NEW n \in Nat, n \in T PROVE n + 1 \in T
  <2>1. PICK f \in [0 .. n -> S] : Solves(n, f)
    BY <1>2
  <2> DEFINE h == [i \in 0 .. n + 1 |-> IF i = n + 1 THEN g[n + 1][f[n]] ELSE f[i]]
  <2>2. n \in 0 .. n /\ f[n] \in S /\ g[n + 1][f[n]] \in S
    <3>1. n \in 0 .. n /\ n + 1 \in Nat
      OBVIOUS
    <3>2. f[n] \in S /\ g[n + 1] \in [S -> S]
      BY <2>1, <3>1 DEF Recursions
    <3> QED
      BY <3>1, <3>2
  <2>3. h \in [0 .. n + 1 -> S]
    BY <2>1, <2>2
  <2>4. \A i \in 0 .. n : h[i] = f[i]
    OBVIOUS
  <2>5. ASSUME NEW i \in 0 .. n + 1
        PROVE  h[i] = IF i = 0 THEN a ELSE g[i][h[i - 1]]
    <3>1. CASE i = n + 1
      <4>1. h[i] = g[n + 1][f[n]] /\ i - 1 = n /\ i # 0 /\ h[n] = f[n]
        BY <2>2, <2>4, <3>1
      <4> QED
        BY <3>1, <4>1, Zenon
    <3>2. CASE i \in 0 .. n
      <4>1. f[i] = IF i = 0 THEN a ELSE g[i][f[i - 1]]
        BY <2>1, <3>2
      <4>2. h[i] = f[i] /\ (i # 0 => h[i - 1] = f[i - 1])
        BY <2>4, <3>2
      <4> QED
        BY <4>1, <4>2, Zenon
    <3> QED
      BY <3>1, <3>2
  <2>6. h = [i \in 0 .. n + 1 |-> h[i]]
    OBVIOUS
  <2> HIDE DEF h
  <2>7. Solves(n + 1, h)
    BY <2>5, <2>6
  <2> HIDE DEF Solves
  <2>8. \E f1 \in [0 .. n + 1 -> S] : Solves(n + 1, f1)
    BY <2>3, <2>7
  <2> QED
    BY <2>8
<1> HIDE DEF T
<1>3. Nat \subseteq T
  BY <1>1, <1>2, SetInduction
<1>4. PICK f \in [0 .. N -> S] : Solves(N, f)
  BY <1>3 DEF T
<1>5. Solution(S, a, g, N, f)
  <2>1. 0 \in 0 .. N /\ \A n \in 1 .. N : n \in 0 .. N /\ n # 0
    OBVIOUS
  <2> QED
    BY <1>4, <2>1 DEF Solution
<1> QED
  BY <1>5
-----------------------------------------------------------------------------
\* Cutting a sequence in two and joining the parts gives the sequence back
\* (what a partial write-out of a stdio buffer does).
LEMMA CutAndJoin ==
    ASSUME NEW S, NEW s \in Seq(S), NEW k \in 0 .. Len(s)
    PROVE  /\ SubSeq(s, 1, k) \in Seq(S)
           /\ SubSeq(s, k + 1, Len(s)) \in Seq(S)
           /\ SubSeq(s, 1, k) \o SubSeq(s, k + 1, Len(s)) = s
<1> DEFINE a == SubSeq(s, 1, k)
           b == SubSeq(s, k + 1, Len(s))
<1>1. a \in Seq(S) /\ Len(a) = k /\ \A i \in 1 .. k : a[i] = s[i]
  OBVIOUS
<1>2. b \in Seq(S) /\ Len(b) = Len(s) - k /\ \A i \in 1 .. Len(b) : b[i] = s[k + i]
  OBVIOUS
<1> HIDE DEF a, b
<1>3. a \o b \in Seq(S) /\ Len(a \o b) = Len(s)
  BY <1>1, <1>2
<1>4. ASSUME NEW i \in 1 .. Len(s) PROVE (a \o b)[i] = s[i]
  <2>1. (a \o b)[i] = IF i <= k THEN a[i] ELSE b[i - k]
    BY <1>1, <1>2, ConcatProperties
  <2>2. CASE i <= k
    BY <1>1, <2>1, <2>2
  <2>3. CASE i > k
    <3>1. i - k \in 1 .. Len(b) /\ k + (i - k) = i
      BY <1>2, <2>3
    <3> QED BY <1>2, <2>1, <2>3, <3>1
  <2>4. i <= k \/ i > k
    OBVIOUS
  <2> QED BY <2>2, <2>3, <2>4
<1>5. a \o b = s
  BY <1>3, <1>4, SeqEqual
<1> QED BY <1>1, <1>2, <1>5 DEF a, b

\* Removing items from the front of the wire removes them from the stream.
LEMMA DropFront ==
    ASSUME NEW S, NEW s \in Seq(S), NEW t \in Seq(S), NEW k \in Nat, k <= Len(s)
    PROVE  SubSeq(s, k + 1, Len(s)) \o t = SubSeq(s \o t, k + 1, Len(s \o t))
<1> DEFINE a == SubSeq(s, k + 1, Len(s))
           b == SubSeq(s \o t, k + 1, Len(s \o t))
<1>1. a \in Seq(S) /\ Len(a) = Len(s) - k /\ \A i \in 1 .. Len(a) : a[i] = s[k + i]
  OBVIOUS
<1> HIDE DEF a
<1>2. /\ s \o t \in Seq(S)
      /\ Len(s \o t) = Len(s) + Len(t)
      /\ \A i \in 1 .. Len(s) + Len(t) :
            (s \o t)[i] = IF i <= Len(s) THEN s[i] ELSE t[i - Len(s)]
  OBVIOUS
<1>3. b \in Seq(S) /\ Len(b) = Len(s) + Len(t) - k
      /\ \A i \in 1 .. Len(b) : b[i] = (s \o t)[k + i]
  BY <1>2
<1> HIDE DEF b
<1>4. a \o t \in Seq(S) /\ Len(a \o t) = Len(b)
  <2>1. a \o t \in Seq(S) /\ Len(a \o t) = Len(a) + Len(t)
    BY <1>1, ConcatProperties
  <2>2. Len(s) \in Nat /\ Len(t) \in Nat
    OBVIOUS
  <2> QED BY <1>1, <1>3, <2>1, <2>2
<1>5. ASSUME NEW i \in 1 .. Len(b) PROVE (a \o t)[i] = b[i]
  <2>1. (a \o t)[i] = IF i <= Len(a) THEN a[i] ELSE t[i - Len(a)]
    BY <1>1, <1>3, ConcatProperties
  <2>2. b[i] = IF k + i <= Len(s) THEN s[k + i] ELSE t[k + i - Len(s)]
    BY <1>2, <1>3
  <2>3. (i <= Len(a)) = (k + i <= Len(s)) /\ i - Len(a) = k + i - Len(s)
    BY <1>1, <1>3
  <2> QED BY <1>1, <2>1, <2>2, <2>3
<1> QED BY <1>3, <1>4, <1>5, SeqEqual DEF a, b

LEMMA SeqAssociative ==
    ASSUME NEW S
    PROVE  \A s, t, u \in Seq(S) : (s \o t) \o u = s \o (t \o u)
BY ConcatAssociative
-----------------------------------------------------------------------------
(***************************************************************************)
(* A stream is a buffer b[k] behind a wire w[k]; the network model's steps *)
(* as seen by the contents of all streams, c and d being w and b after.    *)
(***************************************************************************)
Buffered(K, S, w, b) == w \in [K -> Seq(S)] /\ b \in [K -> Seq(S)]
Contents(w, b, k) == w[k] \o b[k]

\* Data is appended to stream k, and the first n items are written out.
Appended(w, b, k, data, n, c, d) ==
    /\ c = [w EXCEPT ![k] = @ \o SubSeq(b[k] \o data, 1, n)]
    /\ d = [b EXCEPT ![k] = SubSeq(b[k] \o data, n + 1, Len(b[k] \o data))]

\* The buffers in L are flushed.
Flushed(K, w, b, L, c, d) ==
    /\ c = [m \in K |-> IF m \in L THEN w[m] \o b[m] ELSE w[m]]
    /\ d = [m \in K |-> IF m \in L THEN <<>> ELSE b[m]]

\* The first n items on the wire of stream k are read.
ReadOff(w, k, n, c) == n <= Len(w[k]) /\ c = [w EXCEPT ![k] = SubSeq(@, n + 1, Len(@))]

LEMMA StreamAppend ==
    ASSUME NEW S, NEW K, NEW w, NEW b, Buffered(K, S, w, b), NEW k \in K, NEW data \in Seq(S),
           NEW n \in 0 .. Len(b[k] \o data), NEW w1, NEW b1, Appended(w, b, k, data, n, w1, b1)
    PROVE  /\ Buffered(K, S, w1, b1)
           /\ Contents(w1, b1, k) = Contents(w, b, k) \o data
           /\ \A m \in K : m # k => Contents(w1, b1, m) = Contents(w, b, m)
<1> DEFINE u == w[k]
           v == b[k]
           s == v \o data
           front == SubSeq(s, 1, n)
           back == SubSeq(s, n + 1, Len(s))
<1>1. u \in Seq(S) /\ v \in Seq(S) /\ s \in Seq(S)
  BY ConcatProperties DEF Buffered
<1>3. w1 = [w EXCEPT ![k] = u \o front] /\ b1 = [b EXCEPT ![k] = back]
  BY DEF Appended
<1> HIDE DEF s
<1>2. front \in Seq(S) /\ back \in Seq(S) /\ front \o back = s
  BY <1>1, CutAndJoin DEF s
<1> HIDE DEF front, back
<1>4. u \o front \in Seq(S)
  BY <1>1, <1>2, ConcatProperties
<1>5. Buffered(K, S, w1, b1)
  BY <1>2, <1>3, <1>4 DEF Buffered
<1>6. /\ w1[k] = u \o front /\ b1[k] = back
      /\ \A m \in K : m # k => w1[m] = w[m] /\ b1[m] = b[m]
  BY <1>3 DEF Buffered
<1> HIDE DEF u, v
<1>7. (u \o front) \o back = u \o s
  <2>1. u \in Seq(S) /\ front \in Seq(S) /\ back \in Seq(S)
    BY <1>1, <1>2
  <2>2. (u \o front) \o back = u \o (front \o back)
    BY ONLY <2>1, SeqAssociative
  <2> QED
    BY <1>2, <2>2, Zenon
<1>8. u \o s = (u \o v) \o data
  BY ONLY <1>1, data \in Seq(S), SeqAssociative DEF s
<1>9. Contents(w1, b1, k) = Contents(w, b, k) \o data
  BY <1>6, <1>7, <1>8, Zenon DEF u, v, Contents
<1>10. ASSUME NEW m \in K, m # k PROVE Contents(w1, b1, m) = Contents(w, b, m)
  BY <1>6, <1>10, Zenon DEF Contents
<1> QED
  BY <1>5, <1>9, <1>10, Zenon

LEMMA StreamFlush ==
    ASSUME NEW S, NEW K, NEW w, NEW b, Buffered(K, S, w, b), NEW L,
           NEW w1, NEW b1, Flushed(K, w, b, L, w1, b1)
    PROVE  /\ Buffered(K, S, w1, b1)
           /\ \A m \in K : Contents(w1, b1, m) = Contents(w, b, m)
<1>1. ASSUME NEW m \in K
      PROVE  /\ w[m] \in Seq(S) /\ b[m] \in Seq(S) /\ w[m] \o b[m] \in Seq(S)
             /\ (w[m] \o b[m]) \o <<>> = w[m] \o b[m] /\ <<>> \in Seq(S)
  BY ConcatProperties, ConcatEmptySeq DEF Buffered
<1>2. Buffered(K, S, w1, b1)
  BY <1>1 DEF Buffered, Flushed
<1>3. \A m \in K : Contents(w1, b1, m) = Contents(w, b, m)
  BY <1>1 DEF Flushed, Contents
<1> QED
  BY <1>2, <1>3

LEMMA StreamRead ==
    ASSUME NEW S, NEW K, NEW w, NEW b, Buffered(K, S, w, b), NEW k \in K,
           NEW n \in Nat, NEW w1, ReadOff(w, k, n, w1)
    PROVE  LET s == Contents(w, b, k)
           IN  /\ Buffered(K, S, w1, b)
               /\ Contents(w1, b, k) = SubSeq(s, n + 1, Len(s))
               /\ \A m \in K : m # k => Contents(w1, b, m) = Contents(w, b, m)
               /\ s \in Seq(S) /\ n <= Len(s) /\ SubSeq(w[k], 1, n) = SubSeq(s, 1, n)
<1> DEFINE u == w[k]
           v == b[k]
           s == u \o v
           rest == SubSeq(u, n + 1, Len(u))
<1>1. u \in Seq(S) /\ v \in Seq(S)
  BY DEF Buffered
<1>2. /\ Buffered(K, S, w1, b) /\ w1[k] = rest /\ \A m \in K : m # k => w1[m] = w[m]
  <2>1. rest \in Seq(S)
    BY <1>1
  <2>2. w1 = [w EXCEPT ![k] = rest]
    BY DEF ReadOff
  <2> HIDE DEF rest
  <2> QED
    BY <2>1, <2>2 DEF Buffered
<1>3. n <= Len(u)
  BY DEF ReadOff
<1> HIDE DEF u, v
<1>4. rest \o v = SubSeq(s, n + 1, Len(s))
  BY <1>1, <1>3, DropFront
<1>5. s \in Seq(S) /\ Len(s) = Len(u) + Len(v) /\ \A i \in 1 .. Len(u) : s[i] = u[i]
  BY <1>1
<1>6. n <= Len(s)
  <2>1. Len(u) \in Nat /\ Len(v) \in Nat
    BY <1>1
  <2> QED
    BY <1>3, <1>5, <2>1
<1>7. SubSeq(u, 1, n) = SubSeq(s, 1, n)
  <2> HIDE DEF s
  <2> DEFINE x == SubSeq(u, 1, n)
             y == SubSeq(s, 1, n)
  <2>1. x \in Seq(S) /\ Len(x) = n /\ \A i \in 1 .. n : x[i] = u[i]
    BY <1>1, <1>3
  <2>2. y \in Seq(S) /\ Len(y) = n /\ \A i \in 1 .. n : y[i] = s[i]
    BY <1>5, <1>6
  <2>3. \A i \in 1 .. n : i \in 1 .. Len(u)
    BY <1>1, <1>3
  <2> HIDE DEF x, y
  <2>4. \A i \in 1 .. n : x[i] = y[i]
    BY <1>5, <2>1, <2>2, <2>3
  <2>5. x = y
    BY <2>1, <2>2, <2>4, SeqEqual
  <2> QED
    BY <2>5 DEF x, y
<1> HIDE DEF rest
<1> DEFINE r == SubSeq(s, n + 1, Len(s))
<1>8. w1[k] \o b[k] = r
  BY <1>2, <1>4, Zenon DEF v
<1> HIDE DEF r
<1>9. ASSUME NEW m \in K, m # k PROVE Contents(w1, b, m) = Contents(w, b, m)
  BY <1>2, <1>9, Zenon DEF Contents
<1>10. s = Contents(w, b, k) /\ Contents(w1, b, k) = w1[k] \o b[k]
  BY Zenon DEF u, v, s, Contents
<1> QED
  BY <1>2, <1>5, <1>6, <1>7, <1>8, <1>9, <1>10, Zenon DEF u, r
-----------------------------------------------------------------------------
(***************************************************************************)
(* A stream s that is a run of batches of m items each: those of numbers   *)
(* a + 1 to b, where A[k] is batch k.  With m = 0 there is nothing to read *)
(* and a reader may be ahead of the writer.                                *)
(***************************************************************************)
Batches(S, s, m, a, b, A) ==
    /\ s \in Seq(S) /\ Len(s) = (b - a) * m
    /\ \A k \in a + 1 .. b, i \in 1 .. m : s[(k - a - 1) * m + i] = A[k][i]

LEMMA TimesMonotonic ==
    ASSUME NEW x \in Int, NEW y \in Int, NEW m \in Nat, x <= y
    PROVE  x * m <= y * m
<1> DEFINE d == y - x
<1>1. d \in Nat /\ y = x + d
  OBVIOUS
<1> HIDE DEF d
<1>2. y * m = x * m + d * m /\ d * m >= 0 /\ x * m \in Int /\ d * m \in Int
  BY <1>1
<1> QED
  BY <1>2

LEMMA TimesSuccessor ==
    ASSUME NEW x \in Int, NEW m \in Int
    PROVE  (x + 1) * m = x * m + m
OBVIOUS

\* Place i of batch number x lies within the first y batches.
LEMMA PlaceInBatch ==
    ASSUME NEW x \in Nat, NEW y \in Int, NEW m \in Nat, x < y, NEW i \in 1 .. m
    PROVE  x * m + i \in 1 .. y * m
<1>1. 0 * m <= x * m /\ (x + 1) * m <= y * m
  BY TimesMonotonic
<1>2. 0 * m = 0 /\ (x + 1) * m = x * m + m /\ x * m \in Int /\ y * m \in Int
  BY TimesSuccessor
<1> QED
  BY <1>1, <1>2

\* \div and % find the batch and the place again.
LEMMA BatchAndPlace ==
    ASSUME NEW m \in Nat \ {0}, NEW x \in Nat, NEW y \in 0 .. m - 1
    PROVE  (x * m + y) \div m = x /\ (x * m + y) % m = y
<1> DEFINE a == x * m + y
           d == a \div m
           e == a % m
<1>1. a \in Nat
  BY TimesMonotonic
<1>2. a = m * d + e /\ d \in Int /\ e \in 0 .. m - 1
  BY <1>1
<1>3. a = m * x + y
  OBVIOUS
<1> HIDE DEF a, d, e
<1>4. y - e = m * (d - x) /\ d - x \in Int
  <2>1. m * d + e = m * x + y
    BY <1>2, <1>3
  <2>2. m * (d - x) = m * d - m * x /\ m * d \in Int /\ m * x \in Int
    BY <1>2
  <2> QED
    BY <1>2, <2>1, <2>2
<1>5. e = y
  <2>1. Cong(m, y, e)
    BY <1>4 DEF Cong, Multiples
  <2> QED
    BY <1>2, <2>1, ResiduesUnique
<1>6. d = x
  <2> DEFINE z == d - x
  <2>1. z \in Int /\ m * z = 0
    BY <1>2, <1>4, <1>5
  <2> HIDE DEF z
  <2>2. z = 0
    BY <2>1
  <2> QED
    BY <1>2, <2>2 DEF z
<1> QED
  BY <1>5, <1>6 DEF a, d, e

LEMMA BatchAppend ==
    ASSUME NEW S, NEW s, NEW m \in Nat, NEW a \in Int, NEW b \in Int, NEW A,
           Batches(S, s, m, a, b, A),
           NEW data \in Seq(S), Len(data) = m, \A i \in 1 .. m : data[i] = A[b + 1][i]
    PROVE  Batches(S, s \o data, m, a, b + 1, A)
<1>1. s \in Seq(S) /\ Len(s) = (b - a) * m /\ Len(s) \in Nat
  BY DEF Batches
<1>2. /\ s \o data \in Seq(S) /\ Len(s \o data) = Len(s) + m
      /\ \A i \in 1 .. Len(s) : (s \o data)[i] = s[i]
      /\ \A i \in 1 .. m : (s \o data)[Len(s) + i] = data[i]
  <2>1. s \o data \in Seq(S) /\ Len(s \o data) = Len(s) + m
    BY <1>1, ConcatProperties
  <2>2. \A i \in 1 .. Len(s) + m :
           (s \o data)[i] = IF i <= Len(s) THEN s[i] ELSE data[i - Len(s)]
    BY <1>1, ConcatProperties
  <2>3. \A i \in 1 .. Len(s) : (s \o data)[i] = s[i]
    BY <1>1, <2>2
  <2>4. ASSUME NEW i \in 1 .. m PROVE (s \o data)[Len(s) + i] = data[i]
    <3>1. Len(s) + i \in 1 .. Len(s) + m /\ ~ Len(s) + i <= Len(s) /\ (Len(s) + i) - Len(s) = i
      BY <1>1
    <3> QED
      BY <2>2, <3>1
  <2> QED
    BY <2>1, <2>3, <2>4
<1>3. (b + 1 - a) * m = (b - a) * m + m
  <2>1. b - a \in Int /\ b + 1 - a = (b - a) + 1
    OBVIOUS
  <2> QED
    BY <2>1, TimesSuccessor
<1>4. Len(s \o data) = (b + 1 - a) * m
  BY <1>1, <1>2, <1>3
<1> DEFINE t == s \o data
<1>5. ASSUME NEW k \in a + 1 .. b, NEW i \in 1 .. m
      PROVE  t[(k - a - 1) * m + i] = A[k][i]
  <2>1. k - a - 1 \in Nat /\ b - a \in Int /\ k - a - 1 < b - a
    OBVIOUS
  <2>2. (k - a - 1) * m + i \in 1 .. (b - a) * m
    BY <2>1, PlaceInBatch
  <2>3. s[(k - a - 1) * m + i] = A[k][i]
    BY DEF Batches
  <2> QED
    BY <1>1, <1>2, <2>2, <2>3, Zenon
<1>6. ASSUME NEW i \in 1 .. m
      PROVE  t[(b + 1 - a - 1) * m + i] = A[b + 1][i]
  <2>1. b + 1 - a - 1 = b - a
    OBVIOUS
  <2>2. (b + 1 - a - 1) * m + i = Len(s) + i
    BY <1>1, <2>1, Zenon
  <2>3. t[Len(s) + i] = data[i] /\ data[i] = A[b + 1][i]
    BY <1>2
  <2> QED
    BY ONLY <2>2, <2>3, Zenon
<1>7. t \in Seq(S) /\ Len(t) = (b + 1 - a) * m
  BY <1>2, <1>4
<1> HIDE DEF t
<1>8. \A k \in a + 1 .. b + 1, i \in 1 .. m : t[(k - a - 1) * m + i] = A[k][i]
  <2> DEFINE P(k) == \A i \in 1 .. m : t[(k - a - 1) * m + i] = A[k][i]
  <2>1. (\A k \in a + 1 .. b : P(k)) /\ P(b + 1)
    BY <1>5, <1>6
  <2> HIDE DEF P
  <2>2. ASSUME NEW k \in a + 1 .. b + 1 PROVE P(k)
    <3>1. k \in a + 1 .. b \/ k = b + 1
      OBVIOUS
    <3> QED
      BY <2>1, <3>1
  <2> QED
    BY <2>2 DEF P
<1>9. Batches(S, t, m, a, b + 1, A)
  BY <1>7, <1>8 DEF Batches
<1> QED
  BY <1>9 DEF t

\* The first batch is read: what is read, and what remains.
LEMMA BatchRead ==
    ASSUME NEW S, NEW s, NEW m \in Nat, NEW a \in Int, NEW b \in Int, NEW A,
           Batches(S, s, m, a, b, A), m <= Len(s)
    PROVE  /\ SubSeq(s, 1, m) \in Seq(S) /\ Len(SubSeq(s, 1, m)) = m
           /\ \A i \in 1 .. m : SubSeq(s, 1, m)[i] = A[a + 1][i]
           /\ Batches(S, SubSeq(s, m + 1, Len(s)), m, a + 1, b, A)
<1>1. s \in Seq(S) /\ Len(s) = (b - a) * m /\ Len(s) \in Nat
  BY DEF Batches
<1> DEFINE front == SubSeq(s, 1, m)
           back == SubSeq(s, m + 1, Len(s))
<1>2. front \in Seq(S) /\ Len(front) = m /\ \A i \in 1 .. m : front[i] = s[i]
  BY <1>1
<1>3. back \in Seq(S) /\ Len(back) = Len(s) - m /\ \A i \in 1 .. Len(s) - m : back[i] = s[m + i]
  BY <1>1
<1> HIDE DEF front, back
<1>4. (b - a) * m = (b - (a + 1)) * m + m
  <2>1. b - (a + 1) \in Int /\ b - a = (b - (a + 1)) + 1
    OBVIOUS
  <2> QED
    BY <2>1, TimesSuccessor
<1>5. Len(back) = (b - (a + 1)) * m
  <2>1. (b - (a + 1)) * m \in Int /\ Len(s) \in Int
    BY <1>1
  <2> QED
    BY <1>1, <1>3, <1>4, <2>1
<1>6. ASSUME NEW i \in 1 .. m PROVE front[i] = A[a + 1][i]
  <2>1. a + 1 <= b
    <3>1. CASE b - a <= 0
      <4>1. b - a \in Int /\ (b - a) * m <= 0 * m
        BY <3>1, TimesMonotonic
      <4> QED
        BY <1>1, <4>1
    <3> QED
      BY <3>1
  <2>2. a + 1 \in a + 1 .. b /\ (a + 1 - a - 1) * m + i = i
    <3>1. a + 1 - a - 1 = 0 /\ 0 * m = 0
      OBVIOUS
    <3> QED
      BY <2>1, <3>1
  <2>3. s[(a + 1 - a - 1) * m + i] = A[a + 1][i]
    BY <2>2 DEF Batches
  <2> QED
    BY <1>2, <2>2, <2>3, Zenon
<1>7. ASSUME NEW k \in (a + 1) + 1 .. b, NEW i \in 1 .. m
      PROVE  back[(k - (a + 1) - 1) * m + i] = A[k][i]
  <2> DEFINE x == k - (a + 1) - 1
  <2>1. x \in Nat /\ x < b - (a + 1) /\ b - (a + 1) \in Int /\ k - a - 1 = x + 1 /\ k \in a + 1 .. b
    OBVIOUS
  <2>2. s[(k - a - 1) * m + i] = A[k][i]
    BY <2>1 DEF Batches
  <2> HIDE DEF x
  <2>3. x * m + i \in 1 .. (b - (a + 1)) * m
    BY <2>1, PlaceInBatch
  <2>4. back[x * m + i] = s[m + (x * m + i)]
    <3>1. Len(back) = Len(s) - m
      BY <1>3
    <3> QED
      BY <1>3, <1>5, <2>3, <3>1, Zenon
  <2>5. m + (x * m + i) = (x + 1) * m + i
    <3>1. (x + 1) * m = x * m + m /\ x * m \in Int
      BY <2>1, TimesSuccessor
    <3> QED
      BY <3>1
  <2> QED
    BY <2>1, <2>2, <2>4, <2>5, Zenon DEF x
<1>8. Batches(S, back, m, a + 1, b, A)
  BY <1>3, <1>5, <1>7 DEF Batches
<1> QED
  BY <1>2, <1>6, <1>8 DEF front, back

\* A stream from which nothing was written or read has no batch.
LEMMA NoBatch ==
    ASSUME NEW S, NEW m \in Nat, NEW A
    PROVE  Batches(S, <<>>, m, 0, 0, A)
BY DEF Batches

\* A sequence given as a table with one item appended.
LEMMA TableAppend ==
    ASSUME NEW S, NEW n \in Nat, NEW f \in [1 .. n -> S], NEW x \in S
    PROVE  /\ f \in Seq(S) /\ Len(f) = n
           /\ Append(f, x) \in Seq(S) /\ Len(Append(f, x)) = n + 1
           /\ Append(f, x)[n + 1] = x
           /\ \A i \in 1 .. n : Append(f, x)[i] = f[i]
<1>1. f \in Seq(S) /\ Len(f) = n
  BY IsASeq
<1> QED
  BY <1>1, AppendProperties
=============================================================================
