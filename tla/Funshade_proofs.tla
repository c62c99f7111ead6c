-------------------------- MODULE Funshade_proofs --------------------------
(***************************************************************************)
(* The comparison function is correct for every width, every PRG, every    *)
(* pair of seeds, every mask and every schedule of calls; the gates built  *)
(* from it for every ring, interval, mask and input; and the masked scalar *)
(* product for vectors of every length.                                    *)
(*                                                                         *)
(* DCF's invariant says three things: the correction words are those of    *)
(* the nodes DCF_gen_seeded passed (KeysRight), every node of an           *)
(* evaluation follows from the one before by its correction word           *)
(* (WalksRight), and two evaluations at one input cancel as far as both    *)
(* have come (WalksCancel).  The last is preserved because one more bit    *)
(* preserves it (CancelStep), and that is where the correction words are   *)
(* needed.                                                                 *)
(*                                                                         *)
(* Every step of the gate is a step of DCF or leaves it alone, so that     *)
(* DCF's invariant holds of the gate too; GateInv adds what the gate's own *)
(* variables have to do with it.  What is left of the interval gate is     *)
(* arithmetic in R_t (IntervalArithmetic), proved by cases on which of its *)
(* sums wrap.                                                              *)
(***************************************************************************)
EXTENDS Funshade, DataLemmas, SequenceTheorems

KeysRight ==
    /\ gen[1].t[0] # gen[1].t[1] /\ gen[1].t[1] /\ gen[1].V = 0
    /\ \A k \in 1 .. Len(gen) : gen[k].t[0] # gen[k].t[1]
    /\ \A k \in 1 .. Len(cw) :
          LET e0 == G[gen[k].s[0]]
              e1 == G[gen[k].s[1]]
          IN  /\ cw[k] = Correction(gen[k], alpha[k], e0, e1)
              /\ gen[k + 1] = GenNode(gen[k], alpha[k], e0, e1, cw[k])
    /\ KeysReady => Len(cw) = N_BITS /\ last = LastWord(gen[N_BITS + 1])

\* The walk w of party b at input x.
WalkRight(b, x, w) ==
    /\ KeysReady
    /\ Len(w) \in 1 .. N_BITS + 1
    /\ w[1] = Root(b)
    /\ \A k \in 1 .. Len(w) - 1 : w[k + 1] = EvalNode(b, w[k], x[k], G[w[k].s], cw[k])

WalksRight ==
    \A b \in {0, 1} :
       /\ Len(ev[b]) = Len(xs[b])
       /\ Len(out[b]) <= Len(xs[b]) /\ Len(xs[b]) <= Len(out[b]) + 1
       /\ \A c \in 1 .. Len(xs[b]) : WalkRight(b, xs[b][c], ev[b][c])
       /\ \A c \in 1 .. Len(out[b]) :
             /\ Len(ev[b][c]) = N_BITS + 1
             /\ out[b][c] = Result(b, ev[b][c][N_BITS + 1], last)

DCFInv == TypeOK /\ KeysRight /\ WalksRight /\ WalksCancel
-----------------------------------------------------------------------------
\* Xor with a xor b turns a into b: how a correction word makes two seeds equal.
LEMMA XorCancels == \A a, b : /\ Xor(a, Xor(a, b)) = b /\ Xor(b, Xor(a, b)) = a
BY DEF Xor

\* One more bit: when two numbers still agree, and when one has become less.
LEMMA OneMoreBit ==
    ASSUME NEW x \in Bits, NEW a \in Bits, NEW k \in 0 .. N_BITS - 1
    PROVE  /\ Agree(x, a, 0)
           /\ Agree(x, a, k + 1) <=> Agree(x, a, k) /\ x[k + 1] = a[k + 1]
           /\ Agree(x, a, k) => ~LessBy(x, a, k)
           /\ LessBy(x, a, k + 1) <=>
                 LessBy(x, a, k) \/ (Agree(x, a, k) /\ x[k + 1] = 0 /\ a[k + 1] = 1)
<1>1. 1 .. k + 1 = (1 .. k) \cup {k + 1} /\ 1 .. 0 = {}
  BY WidthAssumption
<1>2. Agree(x, a, k + 1) <=> Agree(x, a, k) /\ x[k + 1] = a[k + 1]
  BY <1>1 DEF Agree
<1>3. ASSUME Agree(x, a, k), LessBy(x, a, k) PROVE FALSE
  <2>1. PICK i \in 1 .. k : x[i] = 0 /\ a[i] = 1
    BY <1>3 DEF LessBy
  <2> QED
    BY <1>3, <2>1 DEF Agree
<1>4. LessBy(x, a, k + 1) <=>
         LessBy(x, a, k) \/ (Agree(x, a, (k + 1) - 1) /\ x[k + 1] = 0 /\ a[k + 1] = 1)
  BY <1>1 DEF LessBy
<1>5. (k + 1) - 1 = k
  OBVIOUS
<1> QED
  BY <1>1, <1>2, <1>3, <1>4, <1>5 DEF Agree

\* The residues of a sum of two numbers that were each reduced.
LEMMA SumOfResidues ==
    ASSUME NEW u \in Int, NEW v \in Int, NEW w \in Int, Cong(R, u + v, w)
    PROVE  ((u % R) + (v % R)) % R = w % R
BY SumMod, WidthAssumption

\* What the steps of generation and evaluation return has its type.
LEMMA StepTypes ==
    ASSUME NEW H \in Gs, NEW g \in GenNodes, NEW a \in {0, 1}
    PROVE  LET e0 == H[g.s[0]]
               e1 == H[g.s[1]]
           IN  /\ e0 \in Expansion /\ e1 \in Expansion
               /\ Correction(g, a, e0, e1) \in Words
               /\ \A w \in Words : GenNode(g, a, e0, e1, w) \in GenNodes
               /\ LastWord(g) \in Ring
<1> DEFINE e0 == H[g.s[0]]
           e1 == H[g.s[1]]
<1>1. /\ g.s[0] \in Seed /\ g.s[1] \in Seed
      /\ g.t[0] \in BOOLEAN /\ g.t[1] \in BOOLEAN /\ g.V \in Int
  BY WidthAssumption DEF GenNodes, Ring
<1>2. e0 \in Expansion /\ e1 \in Expansion
  BY <1>1, PRGAssumption
<1> HIDE DEF e0, e1
<1>3. \A c \in {0, 1} : /\ e0.s[c] \in Seed /\ e0.v[c] \in Int /\ e0.t[c] \in BOOLEAN
                        /\ e1.s[c] \in Seed /\ e1.v[c] \in Int /\ e1.t[c] \in BOOLEAN
  BY <1>2 DEF Expansion
<1>4. 1 - a \in {0, 1}
  OBVIOUS
<1>5. \A v \in Int : v % R \in Ring /\ \A t \in BOOLEAN : Signed(t, v) \in Int
  BY WidthAssumption, ModRange DEF Ring, Signed
<1>6. If(a = 1, BETA) \in Int
  BY WidthAssumption DEF If
<1>7. Correction(g, a, e0, e1) \in Words
  <2>1. Signed(g.t[1], e1.v[1 - a] - e0.v[1 - a] - g.V + If(a = 1, BETA)) % R \in Ring
    <3>1. e1.v[1 - a] - e0.v[1 - a] - g.V + If(a = 1, BETA) \in Int
      BY <1>1, <1>3, <1>4, <1>6
    <3> QED
      BY <3>1, <1>1, <1>5
  <2>2. Xor(e0.s[1 - a], e1.s[1 - a]) \in Seed
    BY <1>3, <1>4, SeedAssumption
  <2>3. [c \in {0, 1} |-> (e0.t[c] # e1.t[c]) # (c = a)] \in [{0, 1} -> BOOLEAN]
    OBVIOUS
  <2> QED
    BY <2>1, <2>2, <2>3 DEF Correction, Words
<1>8. ASSUME NEW w \in Words PROVE GenNode(g, a, e0, e1, w) \in GenNodes
  <2>1. w.s \in Seed /\ w.v \in Int /\ w.t[a] \in BOOLEAN
    BY WidthAssumption DEF Words, Ring
  <2>2. (g.V + e0.v[a] - e1.v[a] + Signed(g.t[1], w.v)) % R \in Ring
    BY <1>1, <1>3, <1>5, <2>1
  <2>3. \A b \in {0, 1} :
           XorCond(IF b = 0 THEN e0.s[a] ELSE e1.s[a], w.s, g.t[b]) \in Seed
    BY <1>3, <2>1, SeedAssumption DEF XorCond
  <2> QED
    BY <2>2, <2>3 DEF GenNode, GenNodes
<1>9. LastWord(g) \in Ring
  <2>1. TO_R_t[g.s[1]] - TO_R_t[g.s[0]] - g.V \in Int
    BY <1>1, SeedAssumption
  <2> QED
    BY <2>1, <1>1, <1>5 DEF LastWord
<1> QED
  BY <1>2, <1>7, <1>8, <1>9 DEF e0, e1

LEMMA EvalTypes ==
    ASSUME NEW H \in Gs, NEW n \in EvalNodes, NEW b \in {0, 1}, NEW c \in {0, 1},
           NEW w \in Words
    PROVE  /\ H[n.s] \in Expansion
           /\ EvalNode(b, n, c, H[n.s], w) \in EvalNodes
<1> DEFINE e == H[n.s]
<1>1. n.s \in Seed /\ n.t \in BOOLEAN /\ n.V \in Int
  BY WidthAssumption DEF EvalNodes, Ring
<1>2. e \in Expansion
  BY <1>1, PRGAssumption
<1> HIDE DEF e
<1>3. e.s[c] \in Seed /\ e.v[c] \in Int
  BY <1>2 DEF Expansion
<1>4. w.s \in Seed /\ w.v \in Int
  BY WidthAssumption DEF Words, Ring
<1>5. n.V + Signed(b = 1, e.v[c] + If(n.t, w.v)) \in Int
  BY <1>1, <1>3, <1>4 DEF Signed, If
<1>6. (n.V + Signed(b = 1, e.v[c] + If(n.t, w.v))) % R \in Ring
  BY <1>5, WidthAssumption, ModRange DEF Ring
<1>7. XorCond(e.s[c], w.s, n.t) \in Seed
  BY <1>3, <1>4, SeedAssumption DEF XorCond
<1>8. EvalNode(b, n, c, e, w) \in EvalNodes
  BY <1>6, <1>7 DEF EvalNode, EvalNodes
<1> QED
  BY <1>2, <1>8 DEF e

LEMMA ResultTypes ==
    ASSUME NEW n \in EvalNodes, NEW b \in {0, 1}, NEW w \in Ring
    PROVE  Result(b, n, w) \in Ring
<1>1. n.V + Signed(b = 1, TO_R_t[n.s] + If(n.t, w)) \in Int
  BY WidthAssumption, SeedAssumption DEF EvalNodes, Ring, Signed, If
<1> QED
  BY <1>1, WidthAssumption, ModRange DEF Result, Ring

\* One more bit of two evaluations: the heart of the correctness of DCF_gen_seeded.
LEMMA CancelStep ==
    ASSUME NEW H \in Gs, NEW x \in Bits, NEW a \in Bits, NEW k \in 0 .. N_BITS - 1,
           NEW g \in GenNodes, NEW n0 \in EvalNodes, NEW n1 \in EvalNodes,
           NEW w,
           w = Correction(g, a[k + 1], H[g.s[0]], H[g.s[1]]),
           g.t[0] # g.t[1],
           Cancel(x, a, k, g, n0, n1)
    PROVE  Cancel(x, a, k + 1, GenNode(g, a[k + 1], H[g.s[0]], H[g.s[1]], w),
                  EvalNode(0, n0, x[k + 1], H[n0.s], w),
                  EvalNode(1, n1, x[k + 1], H[n1.s], w))
<1> DEFINE A == a[k + 1]
           X == x[k + 1]
           e0 == H[g.s[0]]
           e1 == H[g.s[1]]
           f0 == H[n0.s]
           f1 == H[n1.s]
           g2 == GenNode(g, A, e0, e1, w)
           m0 == EvalNode(0, n0, X, f0, w)
           m1 == EvalNode(1, n1, X, f1, w)
           D == e1.v[1 - A] - e0.v[1 - A] - g.V + If(A = 1, BETA)
<1>1. A \in {0, 1} /\ X \in {0, 1} /\ 1 - A \in {0, 1}
  <2>1. k + 1 \in 1 .. N_BITS
    BY WidthAssumption
  <2> QED
    BY <2>1 DEF Bits
<1>2. /\ e0 \in Expansion /\ e1 \in Expansion /\ f0 \in Expansion /\ f1 \in Expansion
      /\ w \in Words
  BY <1>1, StepTypes, EvalTypes
<1>3. /\ g.t[0] \in BOOLEAN /\ g.t[1] \in BOOLEAN /\ g.V \in Ring
      /\ n0.t \in BOOLEAN /\ n1.t \in BOOLEAN /\ n0.V \in Ring /\ n1.V \in Ring
  BY DEF GenNodes, EvalNodes
<1>4. /\ \A c \in {0, 1} : /\ e0.v[c] \in Int /\ e1.v[c] \in Int
                           /\ f0.v[c] \in Int /\ f1.v[c] \in Int
                           /\ e0.t[c] \in BOOLEAN /\ e1.t[c] \in BOOLEAN
      /\ w.v \in Ring /\ \A c \in {0, 1} : w.t[c] \in BOOLEAN
  BY <1>2 DEF Expansion, Words
<1>5. /\ w.s = Xor(e0.s[1 - A], e1.s[1 - A])
      /\ w.v = Signed(g.t[1], D) % R
      /\ \A c \in {0, 1} : w.t[c] = ((e0.t[c] # e1.t[c]) # (c = A))
  BY <1>1 DEF Correction
<1>6. /\ g2.s[0] = XorCond(e0.s[A], w.s, g.t[0]) /\ g2.s[1] = XorCond(e1.s[A], w.s, g.t[1])
      /\ g2.t[0] = (e0.t[A] # (g.t[0] /\ w.t[A]))
      /\ g2.t[1] = (e1.t[A] # (g.t[1] /\ w.t[A]))
      /\ g2.V = (g.V + e0.v[A] - e1.v[A] + Signed(g.t[1], w.v)) % R
  BY DEF GenNode
<1>7. /\ m0.s = XorCond(f0.s[X], w.s, n0.t) /\ m1.s = XorCond(f1.s[X], w.s, n1.t)
      /\ m0.t = (f0.t[X] # (n0.t /\ w.t[X])) /\ m1.t = (f1.t[X] # (n1.t /\ w.t[X]))
      /\ m0.V = (n0.V + Signed(FALSE, f0.v[X] + If(n0.t, w.v))) % R
      /\ m1.V = (n1.V + Signed(TRUE, f1.v[X] + If(n1.t, w.v))) % R
  BY DEF EvalNode
<1>8. /\ R \in Nat \ {0} /\ BETA \in Int /\ D \in Int /\ If(A = 1, BETA) \in Int
      /\ g.V \in Int /\ n0.V \in Int /\ n1.V \in Int /\ w.v \in Int
  BY <1>1, <1>3, <1>4, WidthAssumption DEF Ring, If
<1>9. w.v - Signed(g.t[1], D) \in Multiples(R)
  <2>1. Signed(g.t[1], D) \in Int
    BY <1>3, <1>8 DEF Signed
  <2> QED
    BY <2>1, <1>5, <1>8, ModRange DEF Cong
\* What the sum of the walks' values being g.V means for congruences.
<1>9a. (n0.V + n1.V) % R = g.V => Cong(R, n0.V + n1.V, g.V)
  <2> DEFINE s == n0.V + n1.V
  <2>1. s \in Int
    BY <1>8
  <2> HIDE DEF s
  <2>2. Cong(R, s, s % R)
    BY <2>1, <1>8, ModRange
  <2> QED
    BY <2>2 DEF s
<1>10. /\ Agree(x, a, k + 1) <=> Agree(x, a, k) /\ X = A
       /\ Agree(x, a, k) => ~LessBy(x, a, k)
       /\ LessBy(x, a, k + 1) <=> LessBy(x, a, k) \/ (Agree(x, a, k) /\ X = 0 /\ A = 1)
  BY OneMoreBit
<1> HIDE DEF A, X, e0, e1, f0, f1, g2, m0, m1, D
<1>11. CASE Agree(x, a, k) /\ X = A
  <2>1. /\ n0.s = g.s[0] /\ n1.s = g.s[1] /\ f0 = e0 /\ f1 = e1
        /\ n0.t = g.t[0] /\ n1.t = g.t[1] /\ (n0.V + n1.V) % R = g.V
    BY <1>11 DEF Cancel, e0, e1, f0, f1
  <2>2. m0.s = g2.s[0] /\ m1.s = g2.s[1] /\ m0.t = g2.t[0] /\ m1.t = g2.t[1]
    BY <2>1, <1>6, <1>7, <1>11
  <2>3. m0.t # m1.t
    BY <2>1, <2>2, <1>1, <1>3, <1>4, <1>5, <1>6
  <2> DEFINE u == n0.V + Signed(FALSE, f0.v[X] + If(n0.t, w.v))
             v == n1.V + Signed(TRUE, f1.v[X] + If(n1.t, w.v))
             want == g.V + e0.v[A] - e1.v[A] + Signed(g.t[1], w.v)
  <2>4. u \in Int /\ v \in Int /\ want \in Int
    BY <1>1, <1>3, <1>4, <1>8 DEF Signed, If
  <2>5. (u + v) - want = (n0.V + n1.V) - g.V
    <3>1. f0.v[X] = e0.v[A] /\ f1.v[X] = e1.v[A] /\ e0.v[A] \in Int /\ e1.v[A] \in Int
      BY <2>1, <1>1, <1>4, <1>11
    <3>2. /\ If(n0.t, w.v) \in Int /\ If(n1.t, w.v) \in Int
          /\ If(n0.t, w.v) - If(n1.t, w.v) = Signed(g.t[1], w.v)
      BY <2>1, <1>3, <1>8 DEF Signed, If
    <3>3. /\ u = n0.V + (f0.v[X] + If(n0.t, w.v))
          /\ v = n1.V - (f1.v[X] + If(n1.t, w.v))
      BY <3>1, <3>2, <1>8 DEF Signed
    <3> HIDE DEF u, v
    <3> QED
      BY <3>1, <3>2, <3>3, <1>8
  <2>6. Cong(R, n0.V + n1.V, g.V)
    BY <2>1, <1>9a
  <2>7. Cong(R, u + v, want)
    BY <2>5, <2>6 DEF Cong
  <2> HIDE DEF u, v, want
  <2>8. ((u % R) + (v % R)) % R = want % R
    BY <2>4, <2>7, SumOfResidues
  <2>9. (m0.V + m1.V) % R = g2.V
    BY <2>8, <1>6, <1>7 DEF u, v, want
  <2> QED
    BY <2>2, <2>3, <2>9, <1>10, <1>11 DEF Cancel, A, X, e0, e1, f0, f1, g2, m0, m1
<1>12. CASE Agree(x, a, k) /\ X # A
  <2>1. /\ n0.s = g.s[0] /\ n1.s = g.s[1] /\ f0 = e0 /\ f1 = e1
        /\ n0.t = g.t[0] /\ n1.t = g.t[1] /\ (n0.V + n1.V) % R = g.V
    BY <1>12 DEF Cancel, e0, e1, f0, f1
  <2>2. X = 1 - A
    BY <1>1, <1>12
  <2>3. m0.s = m1.s
    BY <2>1, <2>2, <1>3, <1>5, <1>7, XorCancels DEF XorCond
  <2>4. w.t[X] = (e0.t[X] # e1.t[X])
    BY <1>1, <1>4, <1>5, <1>12
  <2>5. m0.t = m1.t
    BY <2>1, <2>4, <1>1, <1>3, <1>4, <1>7
  <2> DEFINE u == n0.V + Signed(FALSE, f0.v[X] + If(n0.t, w.v))
             v == n1.V + Signed(TRUE, f1.v[X] + If(n1.t, w.v))
             want == If(A = 1, BETA)
             r == w.v - Signed(g.t[1], D)
  <2>6. u \in Int /\ v \in Int /\ want \in Int /\ r \in Multiples(R)
    BY <1>1, <1>3, <1>4, <1>8, <1>9 DEF Signed, If
  <2>7. (u + v) - want = ((n0.V + n1.V) - g.V) + Signed(g.t[1], r)
    <3>1. f0.v[X] = e0.v[X] /\ f1.v[X] = e1.v[X] /\ e0.v[X] \in Int /\ e1.v[X] \in Int
      BY <2>1, <1>1, <1>4
    <3>2. /\ If(n0.t, w.v) \in Int /\ If(n1.t, w.v) \in Int
          /\ If(n0.t, w.v) - If(n1.t, w.v) = Signed(g.t[1], w.v)
      BY <2>1, <1>3, <1>8 DEF Signed, If
    <3>3. /\ u = n0.V + (f0.v[X] + If(n0.t, w.v))
          /\ v = n1.V - (f1.v[X] + If(n1.t, w.v))
      BY <3>1, <3>2, <1>8 DEF Signed
    <3>4. D = e1.v[X] - e0.v[X] - g.V + want
      BY <2>2 DEF D
    <3>5. Signed(g.t[1], w.v) = D + Signed(g.t[1], r)
      BY <1>3, <1>8 DEF Signed
    <3>6. Signed(g.t[1], r) \in Int
      BY <2>6, <1>3, <1>8, MultiplesClosed DEF Signed
    <3> DEFINE f == f0.v[X]
               h == f1.v[X]
               i == If(n0.t, w.v)
               j == If(n1.t, w.v)
               s == Signed(g.t[1], r)
    <3>7. /\ f \in Int /\ h \in Int /\ i \in Int /\ j \in Int /\ s \in Int /\ want \in Int
          /\ u = n0.V + (f + i) /\ v = n1.V - (h + j)
      BY <3>1, <3>2, <3>3, <3>6, <2>6
    <3>8. i - j = (h - f - g.V + want) + s
      BY <3>1, <3>2, <3>4, <3>5
    <3> HIDE DEF u, v, want, r, f, h, i, j, s
    <3>9. (u + v) - want = ((n0.V + n1.V) - g.V) + s
      BY <3>7, <3>8, <1>8
    <3> QED
      BY <3>9 DEF s
  <2>8. (n0.V + n1.V) - g.V \in Multiples(R) /\ Signed(g.t[1], r) \in Multiples(R)
    <3>1. Cong(R, n0.V + n1.V, g.V)
      BY <2>1, <1>9a
    <3> HIDE DEF r
    <3>2. Signed(g.t[1], r) \in Multiples(R)
      BY <2>6, <1>3, <1>8, MultiplesClosed DEF Signed
    <3> QED
      BY <3>1, <3>2 DEF Cong
  <2>9. Cong(R, u + v, want)
    <3>1. ((n0.V + n1.V) - g.V) + Signed(g.t[1], r) \in Multiples(R)
      BY <2>8, <1>8, MultiplesClosed
    <3> QED
      BY <3>1, <2>7 DEF Cong
  <2>10. want = Comparison(x, a, k + 1)
    BY <2>2, <1>1, <1>10, <1>12 DEF Comparison, If
  <2> HIDE DEF u, v, want, r
  <2>11. ((u % R) + (v % R)) % R = want % R
    BY <2>6, <2>9, SumOfResidues
  <2>12. (m0.V + m1.V) % R = Comparison(x, a, k + 1) % R
    BY <2>10, <2>11, <1>7 DEF u, v
  <2> QED
    BY <2>3, <2>5, <2>12, <1>10, <1>12 DEF Cancel, A, X, e0, e1, f0, f1, g2, m0, m1
<1>13. CASE ~Agree(x, a, k)
  <2>1. /\ n0.s = n1.s /\ n0.t = n1.t /\ f0 = f1
        /\ (n0.V + n1.V) % R = Comparison(x, a, k) % R
    BY <1>13 DEF Cancel, f0, f1
  <2>2. m0.s = m1.s /\ m0.t = m1.t
    BY <2>1, <1>7
  <2> DEFINE u == n0.V + Signed(FALSE, f0.v[X] + If(n0.t, w.v))
             v == n1.V + Signed(TRUE, f1.v[X] + If(n1.t, w.v))
             want == n0.V + n1.V
  <2>3. u \in Int /\ v \in Int /\ want \in Int
    BY <1>1, <1>3, <1>4, <1>8 DEF Signed, If
  <2>4. (u + v) - want = 0
    BY <2>1, <1>1, <1>3, <1>4, <1>8 DEF Signed, If
  <2>5. Cong(R, u + v, want)
    BY <2>4, <1>8, MultiplesClosed DEF Cong
  <2>6. Comparison(x, a, k) = Comparison(x, a, k + 1)
    BY <1>10, <1>13 DEF Comparison
  <2> HIDE DEF u, v, want
  <2>7. ((u % R) + (v % R)) % R = want % R
    BY <2>3, <2>5, SumOfResidues
  <2>8. (m0.V + m1.V) % R = Comparison(x, a, k + 1) % R
    BY <2>1, <2>6, <2>7, <1>7 DEF u, v, want
  <2> QED
    BY <2>2, <2>8, <1>10, <1>13 DEF Cancel, A, X, e0, e1, f0, f1, g2, m0, m1
<1> QED
  BY <1>11, <1>12, <1>13

\* The last correction word makes the results of two evaluations that agree with
\* alpha to the end add up to 0, and cancels in all others.
LEMMA LastStep ==
    ASSUME NEW x \in Bits, NEW a \in Bits, NEW g \in GenNodes,
           NEW n0 \in EvalNodes, NEW n1 \in EvalNodes,
           NEW w, w = LastWord(g), w \in Ring, g.t[0] # g.t[1],
           Cancel(x, a, N_BITS, g, n0, n1)
    PROVE  (Result(0, n0, w) + Result(1, n1, w)) % R = Comparison(x, a, N_BITS) % R
<1> DEFINE p0 == TO_R_t[n0.s]
           p1 == TO_R_t[n1.s]
           u == n0.V + Signed(FALSE, p0 + If(n0.t, w))
           v == n1.V + Signed(TRUE, p1 + If(n1.t, w))
           D == TO_R_t[g.s[1]] - TO_R_t[g.s[0]] - g.V
<1>1. /\ g.t[0] \in BOOLEAN /\ g.t[1] \in BOOLEAN /\ g.V \in Int
      /\ n0.t \in BOOLEAN /\ n1.t \in BOOLEAN /\ n0.V \in Int /\ n1.V \in Int
      /\ p0 \in Int /\ p1 \in Int /\ D \in Int /\ w \in Int /\ R \in Nat \ {0}
  BY WidthAssumption, SeedAssumption DEF GenNodes, EvalNodes, Ring
<1>2. /\ If(n0.t, w) \in Int /\ If(n1.t, w) \in Int
      /\ u = n0.V + (p0 + If(n0.t, w)) /\ v = n1.V - (p1 + If(n1.t, w))
  BY <1>1 DEF If, Signed
<1>3. Result(0, n0, w) = u % R /\ Result(1, n1, w) = v % R
  BY DEF Result
<1> HIDE DEF p0, p1, u, v
<1>4. u \in Int /\ v \in Int
  BY <1>1, <1>2
<1>5. CASE Agree(x, a, N_BITS)
  <2>1. /\ D = p1 - p0 - g.V /\ n0.t = g.t[0] /\ n1.t = g.t[1]
        /\ (n0.V + n1.V) % R = g.V
    BY <1>5 DEF Cancel, p0, p1
  <2> DEFINE r == w - Signed(g.t[1], D)
  <2>2. r \in Multiples(R) /\ r \in Int
    <3>1. Signed(g.t[1], D) \in Int
      BY <1>1 DEF Signed
    <3>2. Cong(R, w, Signed(g.t[1], D))
      BY <3>1, <1>1, ModRange DEF LastWord
    <3> QED
      BY <3>1, <3>2, <1>1 DEF Cong
  <2>3. /\ If(n0.t, w) - If(n1.t, w) = Signed(g.t[1], w)
        /\ Signed(g.t[1], w) = D + Signed(g.t[1], r)
    BY <2>1, <1>1 DEF If, Signed
  <2> HIDE DEF r
  <2>4. Signed(g.t[1], r) \in Multiples(R) /\ Signed(g.t[1], r) \in Int
    BY <2>2, <1>1, MultiplesClosed DEF Signed
  <2>5. Cong(R, n0.V + n1.V, g.V)
    <3>1. n0.V + n1.V \in Int
      BY <1>1
    <3>2. Cong(R, n0.V + n1.V, (n0.V + n1.V) % R)
      BY <3>1, <1>1, ModRange
    <3> QED
      BY <2>1, <3>2
  <2> HIDE DEF D
  <2>6. (u + v) - 0 = ((n0.V + n1.V) - g.V) + Signed(g.t[1], r)
    <3>1. u + v = (n0.V + n1.V) + (p0 - p1) + (If(n0.t, w) - If(n1.t, w))
      BY <1>1, <1>2
    <3>2. If(n0.t, w) - If(n1.t, w) = D + Signed(g.t[1], r)
      BY <2>3
    <3> DEFINE q == Signed(g.t[1], r)
    <3>3. q \in Int
      BY <2>4
    <3> HIDE DEF q
    <3>4. D \in Int /\ D = p1 - p0 - g.V /\ If(n0.t, w) - If(n1.t, w) = D + q
      BY <3>2, <2>1, <1>1 DEF q
    <3>5. (u + v) - 0 = ((n0.V + n1.V) - g.V) + q
      BY <3>1, <3>3, <3>4, <1>1, <1>2, <1>4
    <3> QED
      BY <3>5 DEF q
  <2>7. Cong(R, u + v, 0)
    BY <2>4, <2>5, <2>6, <1>1, MultiplesClosed DEF Cong
  <2>8. ((u % R) + (v % R)) % R = 0 % R
    <3>1. 0 \in Int
      OBVIOUS
    <3> QED
      BY <3>1, <2>7, <1>4, SumOfResidues
  <2>9. ~LessBy(x, a, N_BITS)
    BY <1>5, WidthAssumption DEF LessBy, Agree
  <2> QED
    BY <2>8, <2>9, <1>3 DEF Comparison
<1>6. CASE ~Agree(x, a, N_BITS)
  <2>1. /\ p0 = p1 /\ n0.t = n1.t
        /\ (n0.V + n1.V) % R = Comparison(x, a, N_BITS) % R
    BY <1>6 DEF Cancel, p0, p1
  <2>2. (u + v) - (n0.V + n1.V) = 0
    BY <2>1, <1>1, <1>2
  <2>3. Cong(R, u + v, n0.V + n1.V)
    BY <2>2, <1>1, MultiplesClosed DEF Cong
  <2>4. ((u % R) + (v % R)) % R = (n0.V + n1.V) % R
    BY <2>3, <1>1, <1>4, SumOfResidues
  <2> QED
    BY <2>1, <2>4, <1>3
<1> QED
  BY <1>5, <1>6
-----------------------------------------------------------------------------
\* CancelStep for the nodes and words of a state: two walks at one input that cancel
\* at node k do so at node k + 1.
LEMMA NextCancels ==
    ASSUME TypeOK, KeysRight, KeysReady,
           NEW x \in Bits, NEW k \in 1 .. N_BITS,
           NEW n0 \in EvalNodes, NEW n1 \in EvalNodes,
           Cancel(x, alpha, k - 1, gen[k], n0, n1)
    PROVE  Cancel(x, alpha, k, gen[k + 1],
                  EvalNode(0, n0, x[k], G[n0.s], cw[k]), EvalNode(1, n1, x[k], G[n1.s], cw[k]))
<1>1. /\ G \in Gs /\ alpha \in Bits /\ gen[k] \in GenNodes
      /\ k \in 1 .. Len(cw) /\ k \in 1 .. Len(gen) /\ k - 1 \in 0 .. N_BITS - 1
      /\ (k - 1) + 1 = k
  BY WidthAssumption DEF TypeOK, KeysRight
<1>2. /\ gen[k].t[0] # gen[k].t[1]
      /\ cw[k] = Correction(gen[k], alpha[k], G[gen[k].s[0]], G[gen[k].s[1]])
      /\ gen[k + 1] = GenNode(gen[k], alpha[k], G[gen[k].s[0]], G[gen[k].s[1]], cw[k])
  BY <1>1 DEF KeysRight
<1> DEFINE j == k - 1
<1>3. j \in 0 .. N_BITS - 1 /\ j + 1 = k
  BY <1>1
<1> HIDE DEF j
<1>4. Cancel(x, alpha, j, gen[k], n0, n1)
  BY DEF j
<1>5. Cancel(x, alpha, j + 1, GenNode(gen[k], alpha[j + 1], G[gen[k].s[0]], G[gen[k].s[1]], cw[k]),
             EvalNode(0, n0, x[j + 1], G[n0.s], cw[k]), EvalNode(1, n1, x[j + 1], G[n1.s], cw[k]))
  BY <1>1, <1>2, <1>3, <1>4, CancelStep
<1> QED
  BY <1>2, <1>3, <1>5
-----------------------------------------------------------------------------
LEMMA InitInv == Init => DCFInv
<1> SUFFICES ASSUME Init PROVE DCFInv
  OBVIOUS
<1>1. PICK seed \in [{0, 1} -> Seed] :
         gen = <<[s |-> seed, t |-> [b \in {0, 1} |-> b = 1], V |-> 0]>>
  BY DEF Init
<1> DEFINE g == [s |-> seed, t |-> [b \in {0, 1} |-> b = 1], V |-> 0]
<1>2. g \in GenNodes
  BY WidthAssumption DEF GenNodes, Ring
<1>3. gen = <<g>> /\ Len(gen) = 1 /\ gen[1] = g /\ gen \in Seq(GenNodes)
  BY <1>1, <1>2
<1>4. /\ cw = <<>> /\ last = NotYet /\ alpha \in Bits /\ G \in Gs
      /\ xs = [b \in {0, 1} |-> <<>>] /\ ev = [b \in {0, 1} |-> <<>>]
      /\ out = [b \in {0, 1} |-> <<>>]
  BY DEF Init
<1>5. TypeOK
  BY <1>3, <1>4, WidthAssumption DEF TypeOK
<1>6. KeysRight
  BY <1>3, <1>4 DEF KeysRight, KeysReady
<1>7. WalksRight
  BY <1>4 DEF WalksRight
<1>8. WalksCancel
  BY <1>4 DEF WalksCancel
<1> QED
  BY <1>5, <1>6, <1>7, <1>8 DEF DCFInv

\* Before the keys are complete nobody has called.
LEMMA NoCallsYet ==
    ASSUME DCFInv, ~KeysReady
    PROVE  \A b \in {0, 1} : xs[b] = <<>> /\ ev[b] = <<>> /\ out[b] = <<>>
<1> SUFFICES ASSUME NEW b \in {0, 1} PROVE xs[b] = <<>> /\ ev[b] = <<>> /\ out[b] = <<>>
  OBVIOUS
<1>1. xs[b] \in Seq(Bits) /\ ev[b] \in Seq(Seq(EvalNodes)) /\ out[b] \in Seq(Ring)
  BY DEF DCFInv, TypeOK
<1>2. /\ Len(ev[b]) = Len(xs[b]) /\ Len(out[b]) <= Len(xs[b])
      /\ \A c \in 1 .. Len(xs[b]) : FALSE
  BY DEF DCFInv, WalksRight, WalkRight
<1>3. Len(xs[b]) = 0
  BY <1>1, <1>2
<1> QED
  BY <1>1, <1>2, <1>3

LEMMA GenBitInv == DCFInv /\ GenBit => DCFInv'
<1> SUFFICES ASSUME DCFInv, GenBit PROVE DCFInv'
  OBVIOUS
<1> USE DEF DCFInv
<1> DEFINE i == Len(cw) + 1
           g == gen[i]
           e0 == G[g.s[0]]
           e1 == G[g.s[1]]
           w == Correction(g, alpha[i], e0, e1)
           n == GenNode(g, alpha[i], e0, e1, w)
<1>1. /\ Len(cw) \in Nat /\ Len(cw) < N_BITS /\ i \in 1 .. N_BITS /\ i = Len(gen)
      /\ g \in GenNodes /\ alpha[i] \in {0, 1} /\ G \in Gs
      /\ cw \in Seq(Words) /\ gen \in Seq(GenNodes)
  BY WidthAssumption DEF GenBit, TypeOK, Bits
<1>2. w \in Words /\ n \in GenNodes
  BY <1>1, StepTypes
<1>3. /\ cw' = Append(cw, w) /\ gen' = Append(gen, n)
      /\ UNCHANGED <<alpha, G, last, xs, ev, out>>
  BY DEF GenBit
<1> HIDE DEF w, n
<1>4. /\ Len(cw') = i /\ Len(gen') = i + 1 /\ cw'[i] = w /\ gen'[i + 1] = n
      /\ \A k \in 1 .. Len(cw) : cw'[k] = cw[k]
      /\ \A k \in 1 .. Len(gen) : gen'[k] = gen[k]
      /\ cw' \in Seq(Words) /\ gen' \in Seq(GenNodes)
  BY <1>1, <1>2, <1>3
<1>5. TypeOK'
  BY <1>1, <1>3, <1>4 DEF TypeOK
<1>6. ~KeysReady /\ ~KeysReady'
  BY <1>1, <1>3 DEF KeysRight, KeysReady
<1>7. KeysRight'
  <2>1. g.t[0] # g.t[1]
    BY <1>1 DEF KeysRight
  <2>2. n.t[0] # n.t[1]
    <3>1. e0 \in Expansion /\ e1 \in Expansion
      BY <1>1, StepTypes
    <3>2. /\ e0.t[alpha[i]] \in BOOLEAN /\ e1.t[alpha[i]] \in BOOLEAN
          /\ g.t[0] \in BOOLEAN /\ g.t[1] \in BOOLEAN
      BY <3>1, <1>1 DEF Expansion, GenNodes
    <3>3. w.t[alpha[i]] = ((e0.t[alpha[i]] # e1.t[alpha[i]]) # TRUE)
      BY <1>1 DEF w, Correction
    <3>4. /\ n.t[0] = (e0.t[alpha[i]] # (g.t[0] /\ w.t[alpha[i]]))
          /\ n.t[1] = (e1.t[alpha[i]] # (g.t[1] /\ w.t[alpha[i]]))
      BY DEF n, GenNode
    <3> QED
      BY <2>1, <3>2, <3>3, <3>4
  <2>3. gen'[1] = gen[1]
    BY <1>1, <1>4
  <2>4. \A k \in 1 .. Len(gen') : gen'[k].t[0] # gen'[k].t[1]
    BY <2>2, <1>1, <1>4 DEF KeysRight
  <2>5. ASSUME NEW k \in 1 .. Len(cw')
        PROVE  LET f0 == G[gen'[k].s[0]]
                   f1 == G[gen'[k].s[1]]
               IN  /\ cw'[k] = Correction(gen'[k], alpha[k], f0, f1)
                   /\ gen'[k + 1] = GenNode(gen'[k], alpha[k], f0, f1, cw'[k])
    <3>1. CASE k = i
      BY <3>1, <1>1, <1>4 DEF w, n
    <3>2. CASE k # i
      <4>1. k \in 1 .. Len(cw) /\ k \in 1 .. Len(gen) /\ k + 1 \in 1 .. Len(gen)
        BY <3>2, <1>1, <1>4
      <4> QED
        BY <4>1, <1>4 DEF KeysRight
    <3> QED
      BY <3>1, <3>2
  <2> QED
    BY <2>3, <2>4, <2>5, <1>3, <1>6 DEF KeysRight
<1>8. \A b \in {0, 1} : xs'[b] = <<>> /\ ev'[b] = <<>> /\ out'[b] = <<>>
  BY <1>3, <1>6, NoCallsYet
<1>9. WalksRight' /\ WalksCancel'
  BY <1>8 DEF WalksRight, WalksCancel
<1> QED
  BY <1>5, <1>7, <1>9

LEMMA GenLastInv == DCFInv /\ GenLast => DCFInv'
<1> SUFFICES ASSUME DCFInv, GenLast PROVE DCFInv'
  OBVIOUS
<1> USE DEF DCFInv
<1>1. /\ Len(cw) = N_BITS /\ ~KeysReady /\ last' = LastWord(gen[N_BITS + 1])
      /\ UNCHANGED <<alpha, G, gen, cw, xs, ev, out>>
  BY DEF GenLast, KeysReady
<1>2. gen[N_BITS + 1] \in GenNodes /\ G \in Gs
  BY <1>1, WidthAssumption DEF TypeOK
<1>3. last' \in Ring
  <2>1. 0 \in {0, 1}
    OBVIOUS
  <2> QED
    BY <2>1, <1>1, <1>2, StepTypes
<1>4. TypeOK'
  BY <1>1, <1>3 DEF TypeOK
<1>5. KeysRight'
  BY <1>1 DEF KeysRight, KeysReady
<1>6. \A b \in {0, 1} : xs'[b] = <<>> /\ ev'[b] = <<>> /\ out'[b] = <<>>
  BY <1>1, NoCallsYet
<1>7. WalksRight' /\ WalksCancel'
  BY <1>6 DEF WalksRight, WalksCancel
<1> QED
  BY <1>4, <1>5, <1>7

LEMMA RootsCancel ==
    ASSUME TypeOK, KeysRight, NEW x \in Bits
    PROVE  Cancel(x, alpha, 0, gen[1], Root(0), Root(1))
<1>1. Agree(x, alpha, 0)
  BY DEF Agree
<1>2. gen[1] \in GenNodes
  <2>1. Len(gen) >= 1
    BY DEF TypeOK
  <2> QED
    BY <2>1 DEF TypeOK
<1>3. /\ gen[1].t[1] = TRUE /\ gen[1].t[0] = FALSE /\ gen[1].V = 0
  BY <1>2 DEF KeysRight, GenNodes
<1>4. (0 + 0) % R = 0
  BY WidthAssumption
<1> QED
  BY <1>1, <1>3, <1>4 DEF Cancel, Root

\* What the invariant says of the walk of a call.
LEMMA WalkTypes ==
    ASSUME DCFInv, NEW b \in {0, 1}, NEW c \in 1 .. Len(xs[b])
    PROVE  /\ xs[b] \in Seq(Bits) /\ xs[b][c] \in Bits /\ Len(ev[b]) = Len(xs[b])
           /\ ev[b] \in Seq(Seq(EvalNodes)) /\ ev[b][c] \in Seq(EvalNodes)
           /\ Len(ev[b][c]) \in 1 .. N_BITS + 1 /\ KeysReady /\ Len(cw) = N_BITS
           /\ WalkRight(b, xs[b][c], ev[b][c])
<1>1. /\ xs[b] \in Seq(Bits) /\ ev[b] \in Seq(Seq(EvalNodes)) /\ Len(ev[b]) = Len(xs[b])
      /\ WalkRight(b, xs[b][c], ev[b][c])
  BY DEF DCFInv, TypeOK, WalksRight
<1>2. c \in 1 .. Len(ev[b])
  BY <1>1
<1> QED
  BY <1>1, <1>2 DEF WalkRight, DCFInv, KeysRight

LEMMA CallInv ==
    ASSUME DCFInv, NEW b \in {0, 1}, NEW x \in Bits, Call(b, x)
    PROVE  DCFInv'
<1> USE DEF DCFInv
<1>1. /\ KeysReady /\ xs' = [xs EXCEPT ![b] = Append(@, x)]
      /\ ev' = [ev EXCEPT ![b] = Append(@, <<Root(b)>>)]
      /\ UNCHANGED <<alpha, G, gen, cw, last, out>>
  BY DEF Call
<1>2. /\ xs \in [{0, 1} -> Seq(Bits)] /\ ev \in [{0, 1} -> Seq(Seq(EvalNodes))]
      /\ out \in [{0, 1} -> Seq(Ring)]
      /\ xs[b] \in Seq(Bits) /\ ev[b] \in Seq(Seq(EvalNodes)) /\ Len(ev[b]) = Len(xs[b])
      /\ Len(xs[b]) \in Nat
  BY DEF TypeOK, WalksRight
<1>3. gen[1] \in GenNodes
  <2>1. Len(gen) >= 1
    BY DEF TypeOK
  <2> QED
    BY <2>1 DEF TypeOK
<1>4. Root(b) \in EvalNodes
  BY <1>3, WidthAssumption DEF Root, EvalNodes, GenNodes, Ring
<1>5. /\ <<Root(b)>> \in Seq(EvalNodes) /\ Len(<<Root(b)>>) = 1 /\ <<Root(b)>>[1] = Root(b)
  BY <1>4
<1>6. /\ xs'[b] \in Seq(Bits) /\ ev'[b] \in Seq(Seq(EvalNodes))
      /\ Len(xs'[b]) = Len(xs[b]) + 1 /\ Len(ev'[b]) = Len(xs[b]) + 1
      /\ xs'[b][Len(xs[b]) + 1] = x /\ ev'[b][Len(xs[b]) + 1] = <<Root(b)>>
      /\ \A c \in 1 .. Len(xs[b]) : xs'[b][c] = xs[b][c] /\ ev'[b][c] = ev[b][c]
      /\ \A d \in {0, 1} \ {b} : xs'[d] = xs[d] /\ ev'[d] = ev[d]
  BY <1>1, <1>2, <1>5
<1>7. TypeOK'
  BY <1>1, <1>2, <1>6 DEF TypeOK
<1>8. KeysRight'
  BY <1>1 DEF KeysRight, KeysReady
<1>9. WalksRight'
  <2> SUFFICES ASSUME NEW d \in {0, 1}
               PROVE  /\ Len(ev'[d]) = Len(xs'[d])
                      /\ Len(out'[d]) <= Len(xs'[d]) /\ Len(xs'[d]) <= Len(out'[d]) + 1
                      /\ \A c \in 1 .. Len(xs'[d]) : WalkRight(d, xs[d][c], ev[d][c])'
                      /\ \A c \in 1 .. Len(out'[d]) :
                            /\ Len(ev'[d][c]) = N_BITS + 1
                            /\ out'[d][c] = Result(d, ev'[d][c][N_BITS + 1], last')
    BY DEF WalksRight
  <2>1. /\ Len(ev[d]) = Len(xs[d]) /\ Len(out[d]) <= Len(xs[d])
        /\ Len(out[d]) \in Nat /\ Len(xs[d]) \in Nat /\ out'[d] = out[d]
    BY <1>1, <1>2 DEF WalksRight
  <2>2. /\ Len(ev'[d]) = Len(xs'[d])
        /\ Len(out'[d]) <= Len(xs'[d]) /\ Len(xs'[d]) <= Len(out'[d]) + 1
    <3>1. CASE d = b
      <4>1. Len(out[d]) >= Len(xs[d])
        BY <3>1, <2>1 DEF Call, InCall
      <4> QED
        BY <3>1, <4>1, <2>1, <1>6
    <3>2. CASE d # b
      BY <3>2, <2>1, <1>6 DEF WalksRight
    <3> QED
      BY <3>1, <3>2
  <2>3. ASSUME NEW c \in 1 .. Len(xs'[d]) PROVE WalkRight(d, xs[d][c], ev[d][c])'
    <3>1. CASE c \in 1 .. Len(xs[d])
      <4>1. xs'[d][c] = xs[d][c] /\ ev'[d][c] = ev[d][c]
        BY <3>1, <1>6
      <4>2. WalkRight(d, xs[d][c], ev[d][c])
        BY <3>1 DEF WalksRight
      <4> QED
        BY <4>1, <4>2, <1>1 DEF WalkRight, KeysReady, Root
    <3>2. CASE c \notin 1 .. Len(xs[d])
      <4>1. d = b /\ c = Len(xs[b]) + 1
        BY <3>2, <2>1, <1>6
      <4>2. ev'[d][c] = <<Root(d)>> /\ Root(d)' = Root(d)
        BY <4>1, <1>1, <1>6 DEF Root
      <4>3. 1 .. 1 - 1 = {} /\ 1 \in 1 .. N_BITS + 1
        BY WidthAssumption
      <4> QED
        BY <4>1, <4>2, <4>3, <1>1, <1>5 DEF WalkRight, KeysReady
    <3> QED
      BY <3>1, <3>2
  <2>4. ASSUME NEW c \in 1 .. Len(out'[d])
        PROVE  /\ Len(ev'[d][c]) = N_BITS + 1
               /\ out'[d][c] = Result(d, ev'[d][c][N_BITS + 1], last')
    <3>1. c \in 1 .. Len(out[d]) /\ c \in 1 .. Len(xs[d])
      BY <2>1
    <3>2. ev'[d][c] = ev[d][c]
      BY <3>1, <1>6
    <3> QED
      BY <3>1, <3>2, <2>1, <1>1 DEF WalksRight
  <2> QED
    BY <2>2, <2>3, <2>4
<1>10. WalksCancel'
  <2> SUFFICES ASSUME NEW c0 \in DOMAIN ev'[0], NEW c1 \in DOMAIN ev'[1],
                      xs'[0][c0] = xs'[1][c1],
                      NEW k \in DOMAIN ev'[0][c0] \cap DOMAIN ev'[1][c1]
               PROVE  Cancel(xs'[0][c0], alpha', k - 1, gen'[k], ev'[0][c0][k], ev'[1][c1][k])
    BY DEF WalksCancel
  <2>1. \A d \in {0, 1} : /\ ev'[d] \in Seq(Seq(EvalNodes)) /\ xs'[d] \in Seq(Bits)
                          /\ Len(ev'[d]) = Len(xs'[d])
    BY <1>7, <1>9 DEF TypeOK, WalksRight
  <2>2. /\ c0 \in 1 .. Len(xs'[0]) /\ c1 \in 1 .. Len(xs'[1])
        /\ xs'[0][c0] \in Bits
    <3>1. DOMAIN ev'[0] = 1 .. Len(ev'[0]) /\ DOMAIN ev'[1] = 1 .. Len(ev'[1])
      BY <2>1
    <3>2. c0 \in 1 .. Len(xs'[0]) /\ c1 \in 1 .. Len(xs'[1])
      BY <3>1, <2>1
    <3> QED
      BY <3>2, <2>1
  <2>3. WalkRight(0, xs[0][c0], ev[0][c0])' /\ WalkRight(1, xs[1][c1], ev[1][c1])'
    BY <2>2, <1>9 DEF WalksRight
  <2>4. CASE k = 1
    <3>1. ev'[0][c0][1] = Root(0) /\ ev'[1][c1][1] = Root(1)
      BY <2>3, <1>1 DEF WalkRight, Root
    <3>2. Cancel(xs'[0][c0], alpha, 0, gen[1], Root(0), Root(1))
      BY <2>2, RootsCancel
    <3>3. /\ k - 1 = 0 /\ gen'[k] = gen[1] /\ alpha' = alpha
          /\ ev'[0][c0][k] = Root(0) /\ ev'[1][c1][k] = Root(1)
      BY <3>1, <2>4, <1>1
    <3> QED
      BY <3>2, <3>3
  <2>5. CASE k # 1
    <3>1. ASSUME NEW d \in {0, 1}, NEW c \in 1 .. Len(xs'[d]), c \notin 1 .. Len(xs[d])
          PROVE  ev'[d][c] = <<Root(b)>>
      <4>1. d = b
        BY <3>1, <1>6
      <4>2. c = Len(xs[b]) + 1
        BY <3>1, <4>1, <1>2, <1>6
      <4> QED
        BY <4>1, <4>2, <1>6
    <3>2. DOMAIN <<Root(b)>> = {1}
      BY <1>5
    <3>3. c0 \in 1 .. Len(xs[0])
      <4>1. c0 \notin 1 .. Len(xs[0]) => DOMAIN ev'[0][c0] = {1}
        BY <2>2, <3>1, <3>2
      <4> QED
        BY <4>1, <2>5
    <3>4. c1 \in 1 .. Len(xs[1])
      <4>1. c1 \notin 1 .. Len(xs[1]) => DOMAIN ev'[1][c1] = {1}
        BY <2>2, <3>1, <3>2
      <4> QED
        BY <4>1, <2>5
    <3>5. /\ ev'[0][c0] = ev[0][c0] /\ ev'[1][c1] = ev[1][c1]
          /\ xs'[0][c0] = xs[0][c0] /\ xs'[1][c1] = xs[1][c1]
      BY <3>3, <3>4, <1>6
    <3>6. c0 \in DOMAIN ev[0] /\ c1 \in DOMAIN ev[1]
      <4>1. /\ ev[0] \in Seq(Seq(EvalNodes)) /\ Len(ev[0]) = Len(xs[0])
            /\ ev[1] \in Seq(Seq(EvalNodes)) /\ Len(ev[1]) = Len(xs[1])
        BY DEF TypeOK, WalksRight
      <4> QED
        BY <4>1, <3>3, <3>4
    <3>7. k \in DOMAIN ev[0][c0] \cap DOMAIN ev[1][c1]
      BY <3>5
    <3>8. Cancel(xs[0][c0], alpha, k - 1, gen[k], ev[0][c0][k], ev[1][c1][k])
      BY <3>5, <3>6, <3>7 DEF WalksCancel
    <3> QED
      BY <3>5, <3>8, <1>1
  <2> QED
    BY <2>4, <2>5
<1> QED
  BY <1>7, <1>8, <1>9, <1>10

LEMMA EvalBitInv ==
    ASSUME DCFInv, NEW b \in {0, 1}, EvalBit(b)
    PROVE  DCFInv'
<1> USE DEF DCFInv
<1> DEFINE c == Len(xs[b])
           x == xs[b][c]
           w == ev[b][c]
           k == Len(w)
           m == EvalNode(b, w[k], x[k], G[w[k].s], cw[k])
<1>1. /\ Len(out[b]) < c /\ k <= N_BITS
      /\ ev' = [ev EXCEPT ![b][c] = Append(w, m)]
      /\ UNCHANGED <<alpha, G, gen, cw, last, xs, out>>
  BY DEF EvalBit, InCall
<1>2. c \in 1 .. Len(xs[b])
  BY <1>1 DEF TypeOK
<1>3. /\ x \in Bits /\ w \in Seq(EvalNodes) /\ k \in 1 .. N_BITS /\ Len(cw) = N_BITS
      /\ KeysReady /\ WalkRight(b, x, w) /\ Len(ev[b]) = Len(xs[b])
      /\ ev \in [{0, 1} -> Seq(Seq(EvalNodes))] /\ ev[b] \in Seq(Seq(EvalNodes))
  <2>1. /\ x \in Bits /\ w \in Seq(EvalNodes) /\ Len(w) \in 1 .. N_BITS + 1 /\ KeysReady
        /\ Len(cw) = N_BITS /\ WalkRight(b, x, w)
        /\ Len(ev[b]) = Len(xs[b]) /\ ev[b] \in Seq(Seq(EvalNodes))
    <3> HIDE DEF c
    <3> QED
      BY <1>2, WalkTypes
  <2>2. ev \in [{0, 1} -> Seq(Seq(EvalNodes))]
    BY DEF TypeOK
  <2> HIDE DEF x, w
  <2> QED
    BY <2>1, <2>2, <1>1, WidthAssumption
<1>4. m \in EvalNodes
  <2>1. w[k] \in EvalNodes /\ x[k] \in {0, 1} /\ cw[k] \in Words /\ G \in Gs
    <3> HIDE DEF x, w
    <3>1. w[k] \in EvalNodes
      BY <1>3
    <3>2. x[k] \in {0, 1}
      BY <1>3 DEF Bits
    <3>3. cw[k] \in Words /\ G \in Gs
      BY <1>3 DEF TypeOK
    <3> QED
      BY <3>1, <3>2, <3>3
  <2> QED
    BY <2>1, EvalTypes
<1> HIDE DEF m
<1>5. /\ Append(w, m) \in Seq(EvalNodes) /\ Len(Append(w, m)) = k + 1
      /\ Append(w, m)[k + 1] = m /\ \A j \in 1 .. k : Append(w, m)[j] = w[j]
  BY <1>3, <1>4
<1>6. /\ ev'[b] = [ev[b] EXCEPT ![c] = Append(w, m)]
      /\ \A d \in {0, 1} \ {b} : ev'[d] = ev[d]
      /\ ev'[b][c] = Append(w, m) /\ Len(ev'[b]) = Len(ev[b])
      /\ \A j \in 1 .. Len(xs[b]) : j # c => ev'[b][j] = ev[b][j]
      /\ ev' \in [{0, 1} -> Seq(Seq(EvalNodes))]
  <2>1. ev'[b] = [ev[b] EXCEPT ![c] = Append(w, m)]
    BY <1>1, <1>3
  <2>2. ev'[b] \in Seq(Seq(EvalNodes)) /\ Len(ev'[b]) = Len(ev[b])
    BY <2>1, <1>2, <1>3, <1>5
  <2>3. \A d \in {0, 1} \ {b} : ev'[d] = ev[d]
    BY <1>1, <1>3
  <2>4. /\ ev'[b][c] = Append(w, m)
        /\ \A j \in 1 .. Len(xs[b]) : j # c => ev'[b][j] = ev[b][j]
    BY <2>1, <1>2, <1>3
  <2>5. ev' = [ev EXCEPT ![b] = ev'[b]]
    BY <2>1, <1>1, <1>3
  <2>6. ev' \in [{0, 1} -> Seq(Seq(EvalNodes))]
    BY <2>2, <2>5, <1>3
  <2> QED
    BY <2>1, <2>2, <2>3, <2>4, <2>6
<1> HIDE DEF c, x, w, k
<1>7. TypeOK'
  BY <1>1, <1>6 DEF TypeOK
<1>8. KeysRight'
  BY <1>1 DEF KeysRight, KeysReady
\* The walks after the step are those before, but for one more node.
<1>9. \A d \in {0, 1} : \A j \in 1 .. Len(xs[d]) :
         /\ d = b /\ j = c => xs[d][j] = x /\ ev[d][j] = w /\ ev'[d][j] = Append(w, m)
         /\ ~(d = b /\ j = c) => ev'[d][j] = ev[d][j]
  BY <1>6 DEF x, w
<1>10. WalkRight(b, x, Append(w, m))
  <2>1. Append(w, m)[1] = Root(b)
    BY <1>3, <1>5 DEF WalkRight
  <2>2. ASSUME NEW j \in 1 .. (k + 1) - 1
        PROVE  Append(w, m)[j + 1] = EvalNode(b, Append(w, m)[j], x[j], G[Append(w, m)[j].s], cw[j])
    <3>1. CASE j = k
      BY <3>1, <1>3, <1>5 DEF m
    <3>2. CASE j # k
      <4>1. j \in 1 .. k - 1 /\ j \in 1 .. k /\ j + 1 \in 1 .. k
        BY <3>2, <1>3
      <4>2. w[j + 1] = EvalNode(b, w[j], x[j], G[w[j].s], cw[j])
        BY <4>1, <1>3 DEF WalkRight, k
      <4> QED
        BY <4>1, <4>2, <1>5
    <3> QED
      BY <3>1, <3>2
  <2>3. k + 1 \in 1 .. N_BITS + 1
    BY <1>3
  <2> QED
    BY <2>1, <2>2, <2>3, <1>3, <1>5 DEF WalkRight
<1>11. WalksRight'
  <2> SUFFICES ASSUME NEW d \in {0, 1}
               PROVE  /\ Len(ev'[d]) = Len(xs'[d])
                      /\ Len(out'[d]) <= Len(xs'[d]) /\ Len(xs'[d]) <= Len(out'[d]) + 1
                      /\ \A j \in 1 .. Len(xs'[d]) : WalkRight(d, xs[d][j], ev[d][j])'
                      /\ \A j \in 1 .. Len(out'[d]) :
                            /\ Len(ev'[d][j]) = N_BITS + 1
                            /\ out'[d][j] = Result(d, ev'[d][j][N_BITS + 1], last')
    BY DEF WalksRight
  <2>1. /\ Len(ev'[d]) = Len(xs'[d])
        /\ Len(out'[d]) <= Len(xs'[d]) /\ Len(xs'[d]) <= Len(out'[d]) + 1
    BY <1>1, <1>6 DEF WalksRight
  <2>2. ASSUME NEW j \in 1 .. Len(xs'[d]) PROVE WalkRight(d, xs[d][j], ev[d][j])'
    <3>1. j \in 1 .. Len(xs[d]) /\ xs'[d][j] = xs[d][j]
      BY <1>1
    <3>2. WalkRight(d, xs[d][j], ev'[d][j])
      <4>1. CASE d = b /\ j = c
        BY <4>1, <3>1, <1>9, <1>10
      <4>2. CASE ~(d = b /\ j = c)
        BY <4>2, <3>1, <1>9 DEF WalksRight
      <4> QED
        BY <4>1, <4>2
    <3> QED
      BY <3>1, <3>2, <1>1 DEF WalkRight, KeysReady, Root
  <2>3. ASSUME NEW j \in 1 .. Len(out'[d])
        PROVE  /\ Len(ev'[d][j]) = N_BITS + 1
               /\ out'[d][j] = Result(d, ev'[d][j][N_BITS + 1], last')
    <3>1. j \in 1 .. Len(out[d]) /\ Len(out[d]) \in Nat /\ Len(xs[d]) \in Nat
      BY <1>1 DEF TypeOK
    <3>2. j \in 1 .. Len(xs[d])
      BY <3>1 DEF WalksRight
    <3>3. ~(d = b /\ j = c)
      BY <3>1, <1>1 DEF c
    <3>4. ev'[d][j] = ev[d][j]
      BY <3>2, <3>3, <1>9
    <3> QED
      BY <3>1, <3>4, <1>1 DEF WalksRight
  <2> QED
    BY <2>1, <2>2, <2>3
<1>12. WalksCancel'
  <2> SUFFICES ASSUME NEW c0 \in DOMAIN ev'[0], NEW c1 \in DOMAIN ev'[1],
                      xs'[0][c0] = xs'[1][c1],
                      NEW j \in DOMAIN ev'[0][c0] \cap DOMAIN ev'[1][c1]
               PROVE  Cancel(xs'[0][c0], alpha', j - 1, gen'[j], ev'[0][c0][j], ev'[1][c1][j])
    BY DEF WalksCancel
  <2> DEFINE w0 == ev[0][c0]
             w1 == ev[1][c1]
             y == xs[0][c0]
  <2>1. /\ c0 \in 1 .. Len(xs[0]) /\ c1 \in 1 .. Len(xs[1])
        /\ c0 \in DOMAIN ev[0] /\ c1 \in DOMAIN ev[1]
    <3>1. \A d \in {0, 1} : /\ ev'[d] \in Seq(Seq(EvalNodes)) /\ Len(ev'[d]) = Len(xs'[d])
                            /\ ev[d] \in Seq(Seq(EvalNodes)) /\ Len(ev[d]) = Len(xs[d])
      BY <1>6, <1>11, <1>3 DEF WalksRight
    <3>2. \A d \in {0, 1} : DOMAIN ev'[d] = 1 .. Len(xs[d]) /\ DOMAIN ev[d] = 1 .. Len(xs[d])
      BY <3>1, <1>1
    <3> QED
      BY <3>2
  <2>2. y = xs[1][c1] /\ xs'[0][c0] = y
    BY <1>1
  <2>3. \A i \in DOMAIN w0 \cap DOMAIN w1 : Cancel(y, alpha, i - 1, gen[i], w0[i], w1[i])
    BY <2>1, <2>2 DEF WalksCancel
  <2>4. /\ y \in Bits /\ w0 \in Seq(EvalNodes) /\ w1 \in Seq(EvalNodes)
        /\ Len(w0) \in 1 .. N_BITS + 1 /\ Len(w1) \in 1 .. N_BITS + 1
        /\ WalkRight(0, y, w0) /\ WalkRight(1, y, w1)
    BY <2>1, <2>2, WalkTypes
  <2>5. CASE j \in DOMAIN w0 /\ j \in DOMAIN w1
    <3>1. ev'[0][c0][j] = w0[j] /\ ev'[1][c1][j] = w1[j]
      <4>1. ASSUME NEW d \in {0, 1}, NEW i \in 1 .. Len(xs[d]), j \in DOMAIN ev[d][i]
            PROVE  ev'[d][i][j] = ev[d][i][j]
        <5>1. CASE d = b /\ i = c
          <6>1. ev[d][i] = w /\ ev'[d][i] = Append(w, m)
            BY <5>1, <1>9
          <6>2. j \in DOMAIN w
            BY <4>1, <6>1
          <6>3. j \in 1 .. k
            BY <6>2, <1>3 DEF k
          <6> QED
            BY <6>1, <6>3, <1>5
        <5>2. CASE ~(d = b /\ i = c)
          BY <5>2, <1>9
        <5> QED
          BY <5>1, <5>2
      <4> QED
        BY <4>1, <2>1, <2>5
    <3> QED
      BY <3>1, <2>2, <2>3, <2>5, <1>1
  <2>6. ASSUME NEW n0 \in EvalNodes, NEW n1 \in EvalNodes, k \in DOMAIN w0, k \in DOMAIN w1,
               n0 = EvalNode(0, w0[k], y[k], G[w0[k].s], cw[k]),
               n1 = EvalNode(1, w1[k], y[k], G[w1[k].s], cw[k])
        PROVE  Cancel(y, alpha, k, gen[k + 1], n0, n1)
    <3>1. /\ Cancel(y, alpha, k - 1, gen[k], w0[k], w1[k])
          /\ w0[k] \in EvalNodes /\ w1[k] \in EvalNodes
      BY <2>3, <2>4, <2>6
    <3> QED
      BY <3>1, <2>4, <2>6, <1>3, NextCancels
  <2>7. CASE j \notin DOMAIN w0
    <3>1. b = 0 /\ c0 = c
      BY <2>1, <2>7, <1>9
    <3>2. w0 = w /\ y = x /\ ev'[0][c0] = Append(w, m)
      BY <3>1, <2>1, <1>9
    <3>3. j = k + 1
      BY <3>2, <2>4, <2>7, <1>3, <1>5 DEF k
    <3>4. ev'[1][c1] = w1
      BY <3>1, <2>1, <1>9
    <3>5. k + 1 \in 1 .. Len(w1) /\ k \in DOMAIN w1 /\ k \in DOMAIN w0
      BY <3>2, <3>3, <3>4, <2>4, <1>3 DEF k
    <3>6. w1[k + 1] = EvalNode(1, w1[k], y[k], G[w1[k].s], cw[k]) /\ w1[k + 1] \in EvalNodes
      <4>1. k \in 1 .. Len(w1) - 1 /\ k + 1 \in 1 .. Len(w1)
        BY <3>5, <2>4, <1>3
      <4>2. w1[k + 1] \in EvalNodes
        BY <4>1, <2>4
      <4> QED
        BY <4>1, <4>2, <2>4 DEF WalkRight
    <3>7. m = EvalNode(0, w0[k], y[k], G[w0[k].s], cw[k])
      BY <3>1, <3>2 DEF m
    <3>8. Cancel(y, alpha, k, gen[k + 1], m, w1[k + 1])
      BY <3>5, <3>6, <3>7, <2>6, <1>4
    <3>9. /\ j - 1 = k /\ gen'[j] = gen[k + 1] /\ alpha' = alpha
          /\ ev'[0][c0][j] = m /\ ev'[1][c1][j] = w1[k + 1]
      BY <3>2, <3>3, <3>4, <1>1, <1>3, <1>5
    <3> QED
      BY <3>8, <3>9, <2>2
  <2>8. CASE j \notin DOMAIN w1
    <3>1. b = 1 /\ c1 = c
      BY <2>1, <2>8, <1>9
    <3>2. w1 = w /\ y = x /\ ev'[1][c1] = Append(w, m)
      BY <3>1, <2>1, <2>2, <1>9
    <3>3. j = k + 1
      BY <3>2, <2>4, <2>8, <1>3, <1>5 DEF k
    <3>4. ev'[0][c0] = w0
      BY <3>1, <2>1, <1>9
    <3>5. k + 1 \in 1 .. Len(w0) /\ k \in DOMAIN w0 /\ k \in DOMAIN w1
      BY <3>2, <3>3, <3>4, <2>4, <1>3 DEF k
    <3>6. w0[k + 1] = EvalNode(0, w0[k], y[k], G[w0[k].s], cw[k]) /\ w0[k + 1] \in EvalNodes
      <4>1. k \in 1 .. Len(w0) - 1 /\ k + 1 \in 1 .. Len(w0)
        BY <3>5, <2>4, <1>3
      <4>2. w0[k + 1] \in EvalNodes
        BY <4>1, <2>4
      <4> QED
        BY <4>1, <4>2, <2>4 DEF WalkRight
    <3>7. m = EvalNode(1, w1[k], y[k], G[w1[k].s], cw[k])
      BY <3>1, <3>2 DEF m
    <3>8. Cancel(y, alpha, k, gen[k + 1], w0[k + 1], m)
      BY <3>5, <3>6, <3>7, <2>6, <1>4
    <3>9. /\ j - 1 = k /\ gen'[j] = gen[k + 1] /\ alpha' = alpha
          /\ ev'[1][c1][j] = m /\ ev'[0][c0][j] = w0[k + 1]
      BY <3>2, <3>3, <3>4, <1>1, <1>3, <1>5
    <3> QED
      BY <3>8, <3>9, <2>2
  <2> QED
    BY <2>5, <2>7, <2>8
<1> QED
  BY <1>7, <1>8, <1>11, <1>12

LEMMA ReturnInv ==
    ASSUME DCFInv, NEW b \in {0, 1}, Return(b)
    PROVE  DCFInv'
<1> USE DEF DCFInv
<1> DEFINE c == Len(xs[b])
           n == ev[b][c][N_BITS + 1]
           r == Result(b, n, last)
<1>1. /\ Len(out[b]) < c /\ Len(ev[b][c]) = N_BITS + 1
      /\ out' = [out EXCEPT ![b] = Append(@, r)]
      /\ UNCHANGED <<alpha, G, gen, cw, last, xs, ev>>
  BY DEF Return, InCall
<1>2. c \in 1 .. Len(xs[b]) /\ out[b] \in Seq(Ring) /\ out \in [{0, 1} -> Seq(Ring)]
  BY <1>1 DEF TypeOK
<1>3. ev[b][c] \in Seq(EvalNodes) /\ KeysReady
  <2> HIDE DEF c
  <2> QED
    BY <1>2, WalkTypes
<1>4. Len(out[b]) + 1 = c
  BY <1>1, <1>2 DEF WalksRight
<1>5. r \in Ring
  <2>1. n \in EvalNodes
    BY <1>1, <1>3, WidthAssumption
  <2>2. last \in Ring
    BY <1>3 DEF KeysReady, TypeOK
  <2> HIDE DEF n
  <2> QED
    BY <2>1, <2>2, ResultTypes
<1> HIDE DEF r
<1>6. /\ out'[b] = Append(out[b], r) /\ out' \in [{0, 1} -> Seq(Ring)]
      /\ \A d \in {0, 1} \ {b} : out'[d] = out[d]
  BY <1>1, <1>2, <1>5
<1>7. TypeOK'
  BY <1>1, <1>6 DEF TypeOK
<1>8. KeysRight'
  BY <1>1 DEF KeysRight, KeysReady
<1>9. WalksRight'
  <2> SUFFICES ASSUME NEW d \in {0, 1}
               PROVE  /\ Len(ev'[d]) = Len(xs'[d])
                      /\ Len(out'[d]) <= Len(xs'[d]) /\ Len(xs'[d]) <= Len(out'[d]) + 1
                      /\ \A j \in 1 .. Len(xs'[d]) : WalkRight(d, xs[d][j], ev[d][j])'
                      /\ \A j \in 1 .. Len(out'[d]) :
                            /\ Len(ev'[d][j]) = N_BITS + 1
                            /\ out'[d][j] = Result(d, ev'[d][j][N_BITS + 1], last')
    BY DEF WalksRight
  <2>1. \A j \in 1 .. Len(xs'[d]) : WalkRight(d, xs[d][j], ev[d][j])'
    BY <1>1 DEF WalksRight, WalkRight, KeysReady, Root
  <2>2. CASE d # b
    <3>1. out'[d] = out[d]
      BY <2>2, <1>6
    <3> QED
      BY <2>1, <3>1, <1>1 DEF WalksRight
  <2>3. CASE d = b
    <3>1. /\ Len(out'[b]) = c /\ out'[b][c] = r
          /\ \A j \in 1 .. Len(out[b]) : out'[b][j] = out[b][j]
      BY <1>2, <1>4, <1>5, <1>6
    <3>2. \A j \in 1 .. Len(out'[b]) : j = c \/ j \in 1 .. Len(out[b])
      BY <3>1, <1>2, <1>4
    <3>3. ASSUME NEW j \in 1 .. Len(out'[b])
          PROVE  /\ Len(ev'[b][j]) = N_BITS + 1
                 /\ out'[b][j] = Result(b, ev'[b][j][N_BITS + 1], last')
      <4>1. CASE j = c
        BY <4>1, <3>1, <1>1 DEF r
      <4>2. CASE j \in 1 .. Len(out[b])
        BY <4>2, <3>1, <1>1 DEF WalksRight
      <4> QED
        BY <3>2, <4>1, <4>2
    <3>4. Len(ev[b]) = Len(xs[b])
      BY DEF WalksRight
    <3> QED
      BY <2>1, <2>3, <3>1, <3>3, <3>4, <1>1, <1>2
  <2> QED
    BY <2>2, <2>3
<1>10. WalksCancel'
  BY <1>1 DEF WalksCancel
<1> QED
  BY <1>7, <1>8, <1>9, <1>10

LEMMA StepInv == DCFInv /\ [Next]_vars => DCFInv'
<1> SUFFICES ASSUME DCFInv, [Next]_vars PROVE DCFInv'
  OBVIOUS
<1>1. CASE GenBit
  BY <1>1, GenBitInv
<1>2. CASE GenLast
  BY <1>2, GenLastInv
<1>3. ASSUME NEW b \in {0, 1}, NEW x \in Bits, Call(b, x) PROVE DCFInv'
  BY <1>3, CallInv
<1>4. ASSUME NEW b \in {0, 1}, EvalBit(b) PROVE DCFInv'
  BY <1>4, EvalBitInv
<1>5. ASSUME NEW b \in {0, 1}, Return(b) PROVE DCFInv'
  BY <1>5, ReturnInv
<1>6. CASE UNCHANGED vars
  <2>1. UNCHANGED <<alpha, G, gen, cw, last, xs, ev, out>>
    BY <1>6 DEF vars
  <2>2. TypeOK'
    BY <2>1 DEF DCFInv, TypeOK
  <2>3. KeysRight'
    BY <2>1 DEF DCFInv, KeysRight, KeysReady
  <2>4. WalksRight'
    BY <2>1 DEF DCFInv, WalksRight, WalkRight, KeysReady, Root
  <2>5. WalksCancel'
    BY <2>1 DEF DCFInv, WalksCancel
  <2> QED
    BY <2>2, <2>3, <2>4, <2>5 DEF DCFInv
<1> QED
  BY <1>1, <1>2, <1>3, <1>4, <1>5, <1>6 DEF Next

LEMMA InvCorrect == DCFInv => DCFCorrect
<1> SUFFICES ASSUME DCFInv, NEW c0 \in DOMAIN out[0], NEW c1 \in DOMAIN out[1],
                    xs[0][c0] = xs[1][c1]
             PROVE  (out[0][c0] + out[1][c1]) % R = Comparison(xs[0][c0], alpha, N_BITS) % R
  BY DEF DCFCorrect
<1> USE DEF DCFInv
<1> DEFINE x == xs[0][c0]
           n0 == ev[0][c0][N_BITS + 1]
           n1 == ev[1][c1][N_BITS + 1]
<1>1. \A d \in {0, 1} : /\ out[d] \in Seq(Ring) /\ Len(out[d]) <= Len(xs[d])
                        /\ xs[d] \in Seq(Bits) /\ DOMAIN out[d] = 1 .. Len(out[d])
  BY DEF TypeOK, WalksRight
<1>2. c0 \in 1 .. Len(out[0]) /\ c0 \in 1 .. Len(xs[0])
  BY <1>1
<1>3. c1 \in 1 .. Len(out[1]) /\ c1 \in 1 .. Len(xs[1])
  BY <1>1
<1>4. /\ x \in Bits /\ KeysReady /\ Len(cw) = N_BITS
      /\ ev[0] \in Seq(Seq(EvalNodes)) /\ Len(ev[0]) = Len(xs[0])
      /\ ev[0][c0] \in Seq(EvalNodes)
  BY <1>2, WalkTypes
<1>5. /\ ev[1] \in Seq(Seq(EvalNodes)) /\ Len(ev[1]) = Len(xs[1])
      /\ ev[1][c1] \in Seq(EvalNodes)
  BY <1>3, WalkTypes
<1>6. /\ Len(ev[0][c0]) = N_BITS + 1 /\ out[0][c0] = Result(0, n0, last)
      /\ Len(ev[1][c1]) = N_BITS + 1 /\ out[1][c1] = Result(1, n1, last)
  BY <1>2, <1>3 DEF WalksRight
<1>7. n0 \in EvalNodes /\ n1 \in EvalNodes
  BY <1>4, <1>5, <1>6, WidthAssumption
<1> DEFINE g == gen[N_BITS + 1]
<1>8. g \in GenNodes /\ alpha \in Bits /\ g.t[0] # g.t[1] /\ last = LastWord(g) /\ last \in Ring
  <2>1. N_BITS + 1 \in 1 .. Len(gen)
    BY <1>4, WidthAssumption DEF TypeOK
  <2> QED
    BY <2>1, <1>4 DEF TypeOK, KeysRight, KeysReady
<1>9. Cancel(x, alpha, N_BITS, g, n0, n1)
  <2>1. c0 \in DOMAIN ev[0] /\ c1 \in DOMAIN ev[1]
    BY <1>2, <1>3, <1>4, <1>5
  <2>2. N_BITS + 1 \in DOMAIN ev[0][c0] \cap DOMAIN ev[1][c1]
    BY <1>4, <1>5, <1>6, WidthAssumption
  <2>3. Cancel(x, alpha, (N_BITS + 1) - 1, g, n0, n1)
    BY <2>1, <2>2 DEF WalksCancel
  <2>4. (N_BITS + 1) - 1 = N_BITS
    BY WidthAssumption
  <2> QED
    BY <2>3, <2>4
<1> HIDE DEF x, n0, n1, g
<1>10. (Result(0, n0, last) + Result(1, n1, last)) % R = Comparison(x, alpha, N_BITS) % R
  BY <1>4, <1>7, <1>8, <1>9, LastStep
<1> QED
  BY <1>6, <1>10 DEF x

LEMMA Invariant == Spec => []DCFInv
<1>1. Init => DCFInv
  BY InitInv
<1>2. DCFInv /\ [Next]_vars => DCFInv'
  BY StepInv
<1> QED
  BY <1>1, <1>2, PTL DEF Spec

\* Keys, walks and results have their types, whatever the width and the PRG.
THEOREM TypeCorrect == Spec => []TypeOK
<1>1. DCFInv => TypeOK
  BY DEF DCFInv
<1> QED
  BY <1>1, Invariant, PTL

\* Evaluations of the two keys at one input cancel as soon as they leave alpha's
\* path: DCF_gen_seeded's correction words, for every width, PRG, mask and seeds.
THEOREM EvaluationsCancel == Spec => []WalksCancel
<1>1. DCFInv => WalksCancel
  BY DEF DCFInv
<1> QED
  BY <1>1, Invariant, PTL

\* DCF_eval's results at one input add up to the comparison with the mask, for every
\* width, PRG, mask and pair of seeds, and however the calls interleave.
THEOREM ComparisonCorrect == Spec => []DCFCorrect
<1>1. DCFInv => DCFCorrect
  BY InvCorrect
<1> QED
  BY <1>1, Invariant, PTL
-----------------------------------------------------------------------------
(***************************************************************************)
(* The gates.                                                              *)
(***************************************************************************)
\* A number of at most three times the modulus, reduced.
LEMMA ModCases ==
    ASSUME NEW n \in Nat \ {0}, NEW a \in Int
    PROVE  /\ a \in 0 .. n - 1 => a % n = a
           /\ a \in n .. 2 * n - 1 => a % n = a - n
           /\ a \in -n .. -1 => a % n = a + n
           /\ a \in -2 * n .. -n - 1 => a % n = a + 2 * n
<1>1. ASSUME NEW r \in 0 .. n - 1, Cong(n, a, r) PROVE a % n = r
  <2>1. a % n \in 0 .. n - 1 /\ Cong(n, a % n, a)
    BY ModRange
  <2>2. ((a % n) - a) + (a - r) \in Multiples(n)
    BY <2>1, <1>1, MultiplesClosed DEF Cong
  <2>3. Cong(n, a % n, r)
    BY <2>1, <2>2 DEF Cong
  <2> QED
    BY <2>1, <2>3, ResiduesUnique
<1>2. /\ 0 \in Multiples(n) /\ n \in Multiples(n) /\ n + n \in Multiples(n)
      /\ -n \in Multiples(n) /\ -(n + n) \in Multiples(n)
  BY MultiplesClosed
<1>3. CASE a \in 0 .. n - 1
  <2>1. a - a = 0
    OBVIOUS
  <2> QED
    BY <2>1, <1>1, <1>2, <1>3 DEF Cong
<1>4. CASE a \in n .. 2 * n - 1
  <2>1. a - n \in 0 .. n - 1 /\ a - (a - n) = n
    BY <1>4
  <2> QED
    BY <2>1, <1>1, <1>2, <1>4 DEF Cong
<1>5. CASE a \in -n .. -1
  <2>1. a + n \in 0 .. n - 1 /\ a - (a + n) = -n
    BY <1>5
  <2> QED
    BY <2>1, <1>1, <1>2, <1>5 DEF Cong
<1>6. CASE a \in -2 * n .. -n - 1
  <2>1. a + 2 * n \in 0 .. n - 1 /\ a - (a + 2 * n) = -(n + n)
    BY <1>6
  <2> QED
    BY <2>1, <1>1, <1>2, <1>6 DEF Cong
<1> QED
  BY <1>3, <1>4, <1>5, <1>6

\* The interval gate's arithmetic: two comparisons of the masked input with the mask,
\* corrected for the sums that wrap, tell whether the input is in the interval.
LEMMA IntervalArithmetic ==
    ASSUME NEW x \in Ring, NEW r \in Ring, NEW p \in Ring, NEW q \in Ring, p <= q
    PROVE  Greater(x, p) - Greater(x, q + 1)
           - If((x - p - 1) % R < (r - 1) % R, 1) + If((x - q - 2) % R < (r - 1) % R, 1)
           + Greater(p + r, q + r) - Greater(p + r, p) + Greater(q + r + 1, q + 1)
           + If((q + r + 1) % R = 0, 1)
           = If((x - r) % R \in p .. q, 1)
<1>1. R \in Nat \ {0} /\ x \in 0 .. R - 1 /\ r \in 0 .. R - 1 /\ p \in 0 .. R - 1 /\ q \in 0 .. R - 1
  BY WidthAssumption DEF Ring
\* What each of the sums below becomes when it is reduced.
<1>0. ASSUME NEW a \in Int, a >= -2 * R, a < 2 * R
      PROVE  a % R = IF a >= 0 THEN (IF a < R THEN a ELSE a - R)
                     ELSE IF a >= -R THEN a + R ELSE a + 2 * R
  <2>1. /\ a \in 0 .. R - 1 => a % R = a
        /\ a \in R .. 2 * R - 1 => a % R = a - R
        /\ a \in -R .. -1 => a % R = a + R
        /\ a \in -2 * R .. -R - 1 => a % R = a + 2 * R
    BY <1>1, ModCases
  <2>2. \/ a \in 0 .. R - 1 \/ a \in R .. 2 * R - 1
        \/ a \in -R .. -1 \/ a \in -2 * R .. -R - 1
    BY <1>0, <1>1
  <2> QED
    BY <2>1, <2>2, <1>1
<1> DEFINE mx == x % R
           mp == p % R
           q1 == (q + 1) % R
           xp == (x - p - 1) % R
           xq == (x - q - 2) % R
           rm == (r - 1) % R
           pr == (p + r) % R
           qr == (q + r) % R
           qr1 == (q + r + 1) % R
           xr == (x - r) % R
<1>2. mx = x /\ mp = p
  BY <1>1, <1>0
<1>3. q1 = IF q = R - 1 THEN 0 ELSE q + 1
  <2> DEFINE a == q + 1
  <2>1. a \in Int /\ a >= -2 * R /\ a < 2 * R
    BY <1>1
  <2> HIDE DEF a
  <2>2. a % R = IF a >= 0 THEN (IF a < R THEN a ELSE a - R)
                ELSE IF a >= -R THEN a + R ELSE a + 2 * R
    BY <2>1, <1>0
  <2> QED
    BY <2>2, <1>1 DEF a
<1>4. xp = IF x > p THEN x - p - 1 ELSE x - p - 1 + R
  <2> DEFINE a == x - p - 1
  <2>1. a \in Int /\ a >= -2 * R /\ a < 2 * R
    BY <1>1
  <2> HIDE DEF a
  <2>2. a % R = IF a >= 0 THEN (IF a < R THEN a ELSE a - R)
                ELSE IF a >= -R THEN a + R ELSE a + 2 * R
    BY <2>1, <1>0
  <2> QED
    BY <2>2, <1>1 DEF a
<1>5. xq = IF x > q + 1 THEN x - q - 2
           ELSE IF x - q - 2 >= -R THEN x - q - 2 + R ELSE x - q - 2 + 2 * R
  <2> DEFINE a == x - q - 2
  <2>1. a \in Int /\ a >= -2 * R /\ a < 2 * R
    BY <1>1
  <2> HIDE DEF a
  <2>2. a % R = IF a >= 0 THEN (IF a < R THEN a ELSE a - R)
                ELSE IF a >= -R THEN a + R ELSE a + 2 * R
    BY <2>1, <1>0
  <2> QED
    BY <2>2, <1>1 DEF a
<1>6. rm = IF r = 0 THEN R - 1 ELSE r - 1
  <2> DEFINE a == r - 1
  <2>1. a \in Int /\ a >= -2 * R /\ a < 2 * R
    BY <1>1
  <2> HIDE DEF a
  <2>2. a % R = IF a >= 0 THEN (IF a < R THEN a ELSE a - R)
                ELSE IF a >= -R THEN a + R ELSE a + 2 * R
    BY <2>1, <1>0
  <2> QED
    BY <2>2, <1>1 DEF a
<1>7. pr = IF p + r < R THEN p + r ELSE p + r - R
  <2> DEFINE a == p + r
  <2>1. a \in Int /\ a >= -2 * R /\ a < 2 * R
    BY <1>1
  <2> HIDE DEF a
  <2>2. a % R = IF a >= 0 THEN (IF a < R THEN a ELSE a - R)
                ELSE IF a >= -R THEN a + R ELSE a + 2 * R
    BY <2>1, <1>0
  <2> QED
    BY <2>2, <1>1 DEF a
<1>8. qr = IF q + r < R THEN q + r ELSE q + r - R
  <2> DEFINE a == q + r
  <2>1. a \in Int /\ a >= -2 * R /\ a < 2 * R
    BY <1>1
  <2> HIDE DEF a
  <2>2. a % R = IF a >= 0 THEN (IF a < R THEN a ELSE a - R)
                ELSE IF a >= -R THEN a + R ELSE a + 2 * R
    BY <2>1, <1>0
  <2> QED
    BY <2>2, <1>1 DEF a
<1>9. qr1 = IF q + r + 1 < R THEN q + r + 1 ELSE q + r + 1 - R
  <2> DEFINE a == q + r + 1
  <2>1. a \in Int /\ a >= -2 * R /\ a < 2 * R
    BY <1>1
  <2> HIDE DEF a
  <2>2. a % R = IF a >= 0 THEN (IF a < R THEN a ELSE a - R)
                ELSE IF a >= -R THEN a + R ELSE a + 2 * R
    BY <2>1, <1>0
  <2> QED
    BY <2>2, <1>1 DEF a
<1>10. xr = IF x >= r THEN x - r ELSE x - r + R
  <2> DEFINE a == x - r
  <2>1. a \in Int /\ a >= -2 * R /\ a < 2 * R
    BY <1>1
  <2> HIDE DEF a
  <2>2. a % R = IF a >= 0 THEN (IF a < R THEN a ELSE a - R)
                ELSE IF a >= -R THEN a + R ELSE a + 2 * R
    BY <2>1, <1>0
  <2> QED
    BY <2>2, <1>1 DEF a
<1> HIDE DEF mx, mp, q1, xp, xq, rm, pr, qr, qr1, xr
<1>11. If(mx > mp, 1) - If(mx > q1, 1) - If(xp < rm, 1) + If(xq < rm, 1)
       + If(pr > qr, 1) - If(pr > mp, 1) + If(qr1 > q1, 1) + If(qr1 = 0, 1)
       = If(xr \in p .. q, 1)
  BY <1>1, <1>2, <1>3, <1>4, <1>5, <1>6, <1>7, <1>8, <1>9, <1>10 DEF If
<1> QED
  BY <1>11 DEF Greater, mx, mp, q1, xp, xq, rm, pr, qr, qr1, xr
-----------------------------------------------------------------------------
LEMMA SetupTypes ==
    ASSUME in \in Setups
    PROVE  /\ in.p \in Ring /\ in.q \in Ring /\ in.r_out \in Int /\ in.z0 \in Ring
           /\ in.r_in[0] \in Int /\ in.r_in[1] \in Int /\ r_in \in Int
           /\ in.theta \in Int /\ in.l \in Nat
           /\ \A i \in 1 .. in.l : /\ in.x[i] \in Int /\ in.y[i] \in Int /\ in.d_xy0[i] \in Int
                                   /\ in.d_x[0][i] \in Int /\ in.d_x[1][i] \in Int
                                   /\ in.d_y[0][i] \in Int /\ in.d_y[1][i] \in Int
<1>1. /\ in.p \in Ring /\ in.q \in Ring /\ in.r_out \in Int /\ in.z0 \in Ring
      /\ in.r_in \in [{0, 1} -> Int] /\ in.theta \in Int /\ in.l \in Nat
      /\ in.x \in [1 .. in.l -> Int] /\ in.y \in [1 .. in.l -> Int]
      /\ in.d_x \in [{0, 1} -> [1 .. in.l -> Int]]
      /\ in.d_y \in [{0, 1} -> [1 .. in.l -> Int]] /\ in.d_xy0 \in [1 .. in.l -> Int]
  BY SetupsAssumption DEF Vectors
<1>2. in.r_in[0] \in Int /\ in.r_in[1] \in Int /\ r_in \in Int
  BY <1>1 DEF r_in
<1> QED
  BY <1>1, <1>2

\* The correlated draws are right: the summands of the two parties add up to the
\* product of the plain elements.
LEMMA SummandsFit ==
    ASSUME in \in Setups, NEW i \in 1 .. in.l
    PROVE  /\ Summand(0, i) \in Int /\ Summand(1, i) \in Int
           /\ Cong(R, Summand(0, i) + Summand(1, i), in.x[i] * in.y[i])
<1> DEFINE x == in.x[i]
           y == in.y[i]
           a == in.d_x[0][i]
           b == in.d_x[1][i]
           c == in.d_y[0][i]
           d == in.d_y[1][i]
           f == in.d_xy0[i]
           X == (a + b + x) % R
           Y == (c + d + y) % R
           g == ((a + b) * (c + d) - f) % R
           m1 == X - (a + b + x)
           m2 == Y - (c + d + y)
           m3 == g - ((a + b) * (c + d) - f)
<1>1. /\ x \in Int /\ y \in Int /\ a \in Int /\ b \in Int /\ c \in Int /\ d \in Int /\ f \in Int
      /\ R \in Nat \ {0}
  BY SetupTypes, WidthAssumption
<1>2. /\ Summand(0, i) = 0 - X * c - Y * a + f
      /\ Summand(1, i) = X * Y - X * d - Y * b + g
  BY DEF Summand, funshade_share, d_xy, If
<1> HIDE DEF x, y, a, b, c, d, f
<1>3. a + b + x \in Int /\ c + d + y \in Int /\ (a + b) * (c + d) - f \in Int
  BY <1>1
<1>4. /\ X \in Int /\ Y \in Int /\ g \in Int
      /\ m1 \in Multiples(R) /\ m2 \in Multiples(R) /\ m3 \in Multiples(R)
  <2>1. /\ X \in 0 .. R - 1 /\ Cong(R, X, a + b + x)
        /\ Y \in 0 .. R - 1 /\ Cong(R, Y, c + d + y)
        /\ g \in 0 .. R - 1 /\ Cong(R, g, (a + b) * (c + d) - f)
    BY <1>1, <1>3, ModRange
  <2> QED
    BY <2>1, <1>1 DEF Cong
<1>5. /\ X = a + b + x + m1 /\ Y = c + d + y + m2 /\ g = (a + b) * (c + d) - f + m3
      /\ m1 \in Int /\ m2 \in Int /\ m3 \in Int
  BY <1>1, <1>4
<1> HIDE DEF X, Y, g, m1, m2, m3
<1>6. Summand(0, i) \in Int /\ Summand(1, i) \in Int
  BY <1>1, <1>2, <1>4
<1>7. ((0 - X * c - Y * a + f) + (X * Y - X * d - Y * b + g)) - x * y
         = ((m2 * x + m1 * y) + m1 * m2) + m3
  <2>1. (0 - X * c - Y * a + f) + (X * Y - X * d - Y * b + g)
           = (X - (a + b)) * (Y - (c + d)) + m3
    BY <1>1, <1>4, <1>5
  <2>2. X - (a + b) = x + m1 /\ Y - (c + d) = y + m2
    BY <1>1, <1>4, <1>5
  <2>3. (x + m1) * (y + m2) = x * y + ((m2 * x + m1 * y) + m1 * m2)
    BY <1>1, <1>5
  <2> DEFINE u == (x + m1) * (y + m2)
             v == (m2 * x + m1 * y) + m1 * m2
             s == (0 - X * c - Y * a + f) + (X * Y - X * d - Y * b + g)
             t == x * y
  <2>4. u \in Int /\ v \in Int /\ t \in Int /\ s = u + m3 /\ u = t + v
    BY <2>1, <2>2, <2>3, <1>1, <1>5
  <2> HIDE DEF u, v, s, t
  <2>5. s - t = v + m3
    BY <2>4, <1>5
  <2> QED
    BY <2>5 DEF s, t, v
<1>8. /\ m2 * x \in Multiples(R) /\ m1 * y \in Multiples(R) /\ m1 * m2 \in Multiples(R)
  BY <1>1, <1>4, <1>5, MultiplesTimes
<1>9. ((m2 * x + m1 * y) + m1 * m2) + m3 \in Multiples(R)
  BY <1>1, <1>4, <1>8, MultiplesClosed
<1>10. (Summand(0, i) + Summand(1, i)) - x * y = ((m2 * x + m1 * y) + m1 * m2) + m3
  BY <1>2, <1>7
<1>11. Cong(R, Summand(0, i) + Summand(1, i), x * y)
  BY <1>9, <1>10 DEF Cong
<1> QED
  BY <1>6, <1>11 DEF x, y

\* One more element of the vectors at both parties.
LEMMA SumsStep ==
    ASSUME in \in Setups, NEW i \in 1 .. in.l, NEW u \in Int, NEW v \in Int, NEW s \in Int,
           (u + v) % R = (r_in - in.theta + s) % R
    PROVE  (((u + Summand(0, i)) % R) + ((v + Summand(1, i)) % R)) % R
               = (r_in - in.theta + ((s + in.x[i] * in.y[i]) % R)) % R
<1> DEFINE c == r_in - in.theta
           e == in.x[i] * in.y[i]
           m == Summand(0, i)
           n == Summand(1, i)
           t == (s + e) % R
<1>1. /\ c \in Int /\ e \in Int /\ m \in Int /\ n \in Int /\ R \in Nat \ {0}
      /\ Cong(R, m + n, e) /\ (u + v) % R = (c + s) % R
  BY SetupTypes, SummandsFit, WidthAssumption
<1> HIDE DEF c, e, m, n
<1>2. t \in Int /\ t - (s + e) \in Multiples(R)
  <2>1. s + e \in Int
    BY <1>1
  <2>2. t \in 0 .. R - 1 /\ Cong(R, t, s + e)
    BY <2>1, <1>1, ModRange
  <2> QED
    BY <2>2, <1>1 DEF Cong
<1> HIDE DEF t
<1>3. (u + v) - (c + s) \in Multiples(R)
  <2> DEFINE a == u + v
             b == c + s
  <2>1. a \in Int /\ b \in Int /\ a % R = b % R
    BY <1>1
  <2> HIDE DEF a, b
  <2>2. /\ a % R \in 0 .. R - 1 /\ Cong(R, a, a % R) /\ Cong(R, b % R, b)
    BY <2>1, <1>1, ModRange
  <2>3. (a - (a % R)) + ((a % R) - b) \in Multiples(R)
    BY <2>1, <2>2, <1>1, MultiplesClosed DEF Cong
  <2>4. (a - (a % R)) + ((a % R) - b) = a - b
    BY <2>1, <2>2, <1>1
  <2> QED
    BY <2>3, <2>4 DEF a, b
<1>4. m + n - e \in Multiples(R)
  BY <1>1 DEF Cong
<1>5. (((u + v) - (c + s)) + (m + n - e)) - (t - (s + e)) \in Multiples(R)
  BY <1>1, <1>2, <1>3, <1>4, MultiplesClosed
<1>6. ((u + m) + (v + n)) - (c + t)
         = (((u + v) - (c + s)) + (m + n - e)) - (t - (s + e))
  BY <1>1, <1>2
<1>7. Cong(R, (u + m) + (v + n), c + t)
  BY <1>5, <1>6 DEF Cong
<1>8. u + m \in Int /\ v + n \in Int /\ c + t \in Int
  BY <1>1, <1>2
<1>9. (((u + m) % R) + ((v + n) % R)) % R = (c + t) % R
  BY <1>7, <1>8, SumOfResidues
<1> QED
  BY <1>9 DEF c, e, m, n, t
-----------------------------------------------------------------------------
\* Reducing one of two summands first makes no difference.
LEMMA ModAdd ==
    ASSUME NEW a \in Int, NEW b \in Int
    PROVE  (a + b) % R = (a + (b % R)) % R
<1> DEFINE c == b % R
<1>1. c \in Int /\ b - c \in Multiples(R)
  <2>1. c \in 0 .. R - 1 /\ Cong(R, b, c) /\ R \in Nat
    BY ModRange, WidthAssumption
  <2> QED
    BY <2>1 DEF Cong
<1> HIDE DEF c
<1>2. (a + b) - (a + c) = b - c
  BY <1>1
<1>3. Cong(R, a + b, a + c) /\ a + b \in Int /\ a + c \in Int
  BY <1>1, <1>2 DEF Cong
<1>4. (a + b) % R = (a + c) % R
  BY <1>3, CongMod, WidthAssumption
<1> QED
  BY <1>4 DEF c

\* What the gate adds up for the masked input x and the mask m tells whether the input
\* is in p .. q.
TellsInterval(x, m, p, q) ==
    Greater(x, p) - Greater(x, q + 1)
    - If((x - p - 1) % R < (m - 1) % R, 1) + If((x - q - 2) % R < (m - 1) % R, 1)
    + Greater(p + m, q + m) - Greater(p + m, p) + Greater(q + m + 1, q + 1)
    + If((q + m + 1) % R = 0, 1)
    = If((x - m) % R \in p .. q, 1)

\* The interval gate's arithmetic once more, for a mask that is not reduced.
LEMMA MaskedInterval ==
    ASSUME NEW x \in Ring, NEW m \in Int, NEW p \in Ring, NEW q \in Ring, p <= q
    PROVE  TellsInterval(x, m, p, q)
<1> DEFINE r == m % R
<1>1. r \in Ring /\ r \in Int /\ x \in Int /\ p \in Int /\ q \in Int
  BY ModRange, WidthAssumption DEF Ring
<1>2. (p + m) % R = (p + r) % R /\ (q + m) % R = (q + r) % R
  BY <1>1, ModAdd
<1>3. (q + m + 1) % R = (q + r + 1) % R
  <2>1. q + 1 \in Int /\ q + m + 1 = (q + 1) + m /\ q + r + 1 = (q + 1) + r
    BY <1>1
  <2>2. ((q + 1) + m) % R = ((q + 1) + r) % R
    BY <2>1, ModAdd
  <2> QED
    BY <2>1, <2>2
<1>4. (m - 1) % R = (r - 1) % R
  <2>1. m - 1 = -1 + m /\ r - 1 = -1 + r
    BY <1>1
  <2>2. (-1 + m) % R = (-1 + r) % R
    BY ModAdd
  <2> QED
    BY <2>1, <2>2
<1>5. (x - m) % R = (x - r) % R
  <2>1. m - r \in Multiples(R)
    BY ModRange, WidthAssumption DEF Cong
  <2> HIDE DEF r
  <2>2. -(m - r) \in Multiples(R)
    BY <2>1, MultiplesClosed, WidthAssumption
  <2>3. (x - m) - (x - r) = -(m - r) /\ x - m \in Int /\ x - r \in Int
    BY <1>1
  <2>4. Cong(R, x - m, x - r)
    BY <2>2, <2>3 DEF Cong
  <2> QED
    BY <2>3, <2>4, CongMod, WidthAssumption
<1> HIDE DEF r
<1>6. Greater(x, p) - Greater(x, q + 1)
      - If((x - p - 1) % R < (r - 1) % R, 1) + If((x - q - 2) % R < (r - 1) % R, 1)
      + Greater(p + r, q + r) - Greater(p + r, p) + Greater(q + r + 1, q + 1)
      + If((q + r + 1) % R = 0, 1)
      = If((x - r) % R \in p .. q, 1)
  BY <1>1, IntervalArithmetic
<1>7. /\ Greater(p + m, q + m) = Greater(p + r, q + r)
      /\ Greater(p + m, p) = Greater(p + r, p)
      /\ Greater(q + m + 1, q + 1) = Greater(q + r + 1, q + 1)
  BY <1>2, <1>3 DEF Greater
<1> QED
  BY <1>3, <1>4, <1>5, <1>6, <1>7 DEF TellsInterval
-----------------------------------------------------------------------------
\* What the dealer made.
DealtRight == /\ in \in Setups
              /\ alpha = BitsOf((r_in - 1) % R)
              /\ z \in [{0, 1} -> Int]
              /\ KeysReady => \A b \in {0, 1} : z[b] = IC_gen(b)

\* The partial sums are those of the loops.
SumsRight ==
    /\ plain \in Seq(Ring) /\ Len(plain) \in 1 .. in.l + 1
    /\ z_hat \in [{0, 1} -> Seq(Ring)]
    /\ \A i \in 1 .. Len(plain) - 1 : plain[i + 1] = (plain[i] + in.x[i] * in.y[i]) % R
    /\ \A j \in {0, 1} :
          /\ Len(z_hat[j]) \in 1 .. in.l + 1
          /\ \A i \in 1 .. Len(z_hat[j]) - 1 :
                z_hat[j][i + 1] = (z_hat[j][i] + Summand(j, i)) % R

\* The two evaluations of a key are at the inputs of the gate, and of the final sums.
CallsRight ==
    \A b \in {0, 1} :
       /\ Len(xs[b]) <= 2
       /\ Len(xs[b]) >= 1 => Exchanged /\ xs[b][1] = BitsOf((x_hat - in.p - 1) % R)
       /\ Len(xs[b]) >= 2 => xs[b][2] = BitsOf((x_hat - in.q - 2) % R)

OutputsRight ==
    /\ o \in [{0, 1} -> Int]
    /\ \A b \in {0, 1} : o[b] # NotYet => Len(out[b]) = 2 /\ o[b] = IC_eval(b)

GateInv == DCFInv /\ DealtRight /\ SumsRight /\ DistanceMasked /\ CallsRight /\ OutputsRight
-----------------------------------------------------------------------------
LEMMA ResidueInRing == \A a \in Int : a % R \in Ring
BY ModRange, WidthAssumption DEF Ring

LEMMA ExchangedType ==
    ASSUME DealtRight, SumsRight, Exchanged
    PROVE  x_hat \in Ring /\ x_hat \in Int
<1>1. in.l + 1 \in 1 .. in.l + 1
  BY SetupTypes DEF DealtRight
<1>2. \A j \in {0, 1} : z_hat[j] \in Seq(Ring) /\ Len(z_hat[j]) = in.l + 1
  BY DEF SumsRight, Exchanged
<1>3. \A j \in {0, 1} : z_hat[j][in.l + 1] \in Ring
  BY <1>1, <1>2, ElementOfSeq
<1>4. \A j \in {0, 1} : z_hat[j][in.l + 1] \in Int
  BY <1>3, WidthAssumption DEF Ring
<1>5. z_hat[0][in.l + 1] + z_hat[1][in.l + 1] \in Int
  BY <1>4
<1>6. x_hat \in Ring
  BY <1>5, ResidueInRing DEF x_hat
<1> QED
  BY <1>6, WidthAssumption DEF Ring

LEMMA CallInputs ==
    ASSUME DealtRight, SumsRight, Exchanged
    PROVE  BitsOf((x_hat - in.p - 1) % R) \in Bits /\ BitsOf((x_hat - in.q - 2) % R) \in Bits
<1>1. x_hat \in Int /\ in.p \in Int /\ in.q \in Int
  BY ExchangedType, SetupTypes, WidthAssumption DEF DealtRight, Ring
<1>2. x_hat - in.p - 1 \in Int /\ x_hat - in.q - 2 \in Int
  BY <1>1
<1>3. (x_hat - in.p - 1) % R \in Ring /\ (x_hat - in.q - 2) % R \in Ring
  BY <1>2, ResidueInRing
<1> QED
  BY <1>3, BitsAssumption

\* What the invariant of DCF says of the number of calls.
LEMMA CallCounts ==
    ASSUME DCFInv, NEW b \in {0, 1}
    PROVE  /\ xs[b] \in Seq(Bits) /\ out[b] \in Seq(Ring)
           /\ Len(xs[b]) \in Nat /\ Len(out[b]) \in Nat
           /\ Len(out[b]) <= Len(xs[b]) /\ Len(xs[b]) <= Len(out[b]) + 1
           /\ Len(xs[b]) > 0 => KeysReady
<1>1. xs[b] \in Seq(Bits) /\ out[b] \in Seq(Ring)
  BY DEF DCFInv, TypeOK
<1>2. Len(out[b]) <= Len(xs[b]) /\ Len(xs[b]) <= Len(out[b]) + 1
  BY DEF DCFInv, WalksRight
<1>3. ASSUME ~KeysReady PROVE Len(xs[b]) = 0
  BY <1>3, NoCallsYet
<1> QED
  BY <1>1, <1>2, <1>3, LenProperties

\* Every step of the gate is a step of the comparison function or leaves it alone.
LEMMA StepIsStep ==
    ASSUME GateInv, [GateNext]_<<vars, gateVars>>
    PROVE  [Next]_vars
<1> USE DEF GateInv
<1>1. CASE Plain
  BY <1>1 DEF Plain
<1>2. CASE Generate
  BY <1>2 DEF Generate, Next
<1>3. CASE FinishKeys
  BY <1>3 DEF FinishKeys, Next
<1>4. ASSUME NEW b \in {0, 1}, EvalDist(b) PROVE [Next]_vars
  BY <1>4 DEF EvalDist
<1>5. ASSUME NEW b \in {0, 1}, CallP(b) PROVE [Next]_vars
  BY <1>5, CallInputs DEF CallP, Next
<1>6. ASSUME NEW b \in {0, 1}, CallQ(b) PROVE [Next]_vars
  <2>1. Len(xs[b]) >= 1
    BY <1>6, CallCounts DEF CallQ
  <2>2. Exchanged
    BY <2>1 DEF CallsRight
  <2> QED
    BY <1>6, <2>2, CallInputs DEF CallQ, Next
<1>7. ASSUME NEW b \in {0, 1}, Walk(b) PROVE [Next]_vars
  BY <1>7 DEF Walk, Next
<1>8. ASSUME NEW b \in {0, 1}, Combine(b) PROVE [Next]_vars
  BY <1>8 DEF Combine
<1>9. CASE UNCHANGED <<vars, gateVars>>
  BY <1>9
<1> QED
  BY <1>1, <1>2, <1>3, <1>4, <1>5, <1>6, <1>7, <1>8, <1>9 DEF GateNext

LEMMA GateInitInv == GateInit => GateInv
<1> SUFFICES ASSUME GateInit PROVE GateInv
  OBVIOUS
<1> USE DEF GateInit
<1>1. DCFInv
  BY InitInv
<1>2. ~KeysReady /\ xs = [b \in {0, 1} |-> <<>>]
  BY DEF Init, KeysReady
<1>3. DealtRight
  BY <1>2 DEF DealtRight, NotYet
<1>4. /\ 0 \in Ring /\ in.l \in Nat
      /\ \A j \in {0, 1} : (in.r_in[j] - If(j = 1, in.theta)) % R \in Ring
  <2>1. in.r_in[0] \in Int /\ in.r_in[1] \in Int /\ in.theta \in Int /\ in.l \in Nat
    BY SetupTypes
  <2>2. \A j \in {0, 1} : in.r_in[j] - If(j = 1, in.theta) \in Int
    BY <2>1 DEF If
  <2> QED
    BY <2>1, <2>2, ResidueInRing, WidthAssumption DEF Ring
<1>5. SumsRight
  BY <1>4 DEF SumsRight
<1>6. DistanceMasked
  <2> DEFINE a == in.r_in[0]
             b == in.r_in[1] - in.theta
             c == r_in - in.theta
  <2>1. a \in Int /\ b \in Int /\ c \in Int /\ a + b = c
    BY SetupTypes DEF r_in
  <2>2. z_hat[0] = <<(a - 0) % R>> /\ z_hat[1] = <<b % R>> /\ plain = <<0>>
    BY DEF If
  <2> HIDE DEF a, b, c
  <2>3. ((a % R) + (b % R)) % R = c % R
    <3>1. (a + b) - c = 0
      BY <2>1
    <3>2. Cong(R, a + b, c)
      BY <3>1, MultiplesClosed, WidthAssumption DEF Cong
    <3> QED
      BY <2>1, <3>2, SumOfResidues
  <2>4. a - 0 = a /\ c + 0 = c
    BY <2>1
  <2>5. (z_hat[0][1] + z_hat[1][1]) % R = (c + plain[1]) % R
    BY <2>2, <2>3, <2>4
  <2>6. DOMAIN plain = {1}
    BY <2>2
  <2> QED
    BY <2>5, <2>6 DEF DistanceMasked, c
<1>7. CallsRight
  BY <1>2 DEF CallsRight
<1>8. OutputsRight
  BY DEF OutputsRight, NotYet
<1> QED
  BY <1>1, <1>3, <1>5, <1>6, <1>7, <1>8 DEF GateInv
-----------------------------------------------------------------------------
\* What no step changes, and which steps change the rest.
LEMMA StepFrame ==
    ASSUME [GateNext]_<<vars, gateVars>>
    PROVE  /\ in' = in /\ alpha' = alpha /\ r_in' = r_in
           /\ FinishKeys \/ (last' = last /\ z' = z)
           /\ Plain \/ plain' = plain
           /\ (\E j \in {0, 1} : EvalDist(j)) \/ z_hat' = z_hat
           /\ (\E b \in {0, 1} : CallP(b) \/ CallQ(b)) \/ xs' = xs
           /\ (\E b \in {0, 1} : Walk(b)) \/ out' = out
           /\ (\E b \in {0, 1} : Combine(b)) \/ o' = o
<1> USE DEF vars, gateVars
<1>1. CASE Plain
  BY <1>1 DEF Plain, r_in
<1>2. CASE Generate
  BY <1>2 DEF Generate, GenBit, r_in
<1>3. CASE FinishKeys
  BY <1>3 DEF FinishKeys, GenLast, r_in
<1>4. CASE \E j \in {0, 1} : EvalDist(j)
  BY <1>4 DEF EvalDist, r_in
<1>5. CASE \E b \in {0, 1} : CallP(b)
  BY <1>5 DEF CallP, Call, r_in
<1>6. CASE \E b \in {0, 1} : CallQ(b)
  BY <1>6 DEF CallQ, Call, r_in
<1>7. CASE \E b \in {0, 1} : Walk(b)
  BY <1>7 DEF Walk, EvalBit, Return, r_in
<1>8. CASE \E b \in {0, 1} : Combine(b)
  BY <1>8 DEF Combine, r_in
<1>9. CASE UNCHANGED <<vars, gateVars>>
  BY <1>9 DEF r_in
<1> QED
  BY <1>1, <1>2, <1>3, <1>4, <1>5, <1>6, <1>7, <1>8, <1>9 DEF GateNext

LEMMA GenType ==
    ASSUME in \in Setups, NEW b \in {0, 1}
    PROVE  IC_gen(b) \in Int
<1>1. \A t \in BOOLEAN : If(t, 1) \in Int
  BY DEF If
<1>2. \A c, d \in Int : Greater(c, d) \in Int
  BY DEF Greater, If
<1>3. /\ in.z0 \in Int /\ in.r_out \in Int /\ in.p \in Int /\ in.q \in Int /\ r_in \in Int
      /\ in.p + r_in \in Int /\ in.q + r_in \in Int /\ in.q + 1 \in Int
      /\ in.q + r_in + 1 \in Int
  BY SetupTypes, WidthAssumption DEF Ring
<1> DEFINE g1 == Greater(in.p + r_in, in.q + r_in)
           g2 == Greater(in.p + r_in, in.p)
           g3 == Greater(in.q + r_in + 1, in.q + 1)
           g4 == If((in.q + r_in + 1) % R = 0, 1)
           s == -in.z0 + in.r_out + g1 - g2 + g3 + g4
<1>4. g1 \in Int /\ g2 \in Int /\ g3 \in Int /\ g4 \in Int
  BY <1>1, <1>2, <1>3
<1> HIDE DEF g1, g2, g3, g4
<1>5. s \in Int
  BY <1>3, <1>4
<1> HIDE DEF s
<1>6. s % R \in Ring
  BY <1>5, ResidueInRing
<1>7. s % R \in Int
  BY <1>6, WidthAssumption DEF Ring
<1> QED
  BY <1>3, <1>7 DEF IC_gen, s, g1, g2, g3, g4

LEMMA DealtStep ==
    ASSUME GateInv, [GateNext]_<<vars, gateVars>>
    PROVE  DealtRight'
<1> USE DEF GateInv, DealtRight
<1>1. in' = in /\ alpha' = alpha /\ r_in' = r_in
  BY StepFrame
<1>2. \A b \in {0, 1} : IC_gen(b)' = IC_gen(b)
  BY <1>1 DEF IC_gen
<1>3. CASE FinishKeys
  <2>1. z' = [b \in {0, 1} |-> IC_gen(b)]
    BY <1>3 DEF FinishKeys
  <2>2. \A b \in {0, 1} : IC_gen(b) \in Int
    BY GenType
  <2> QED
    BY <2>1, <2>2, <1>1, <1>2
<1>4. CASE last' = last /\ z' = z
  BY <1>1, <1>2, <1>4 DEF KeysReady
<1> QED
  BY <1>3, <1>4, StepFrame

\* The summands are the same before and after a step.
LEMMA SummandStep ==
    ASSUME in' = in, NEW j, NEW i
    PROVE  Summand(j, i)' = Summand(j, i)
BY DEF Summand, funshade_share, d_xy

LEMMA SummandType ==
    ASSUME in \in Setups, NEW j \in {0, 1}, NEW i \in 1 .. in.l
    PROVE  Summand(j, i) \in Int
BY SummandsFit

LEMMA SumsPreserved ==
    ASSUME GateInv, [GateNext]_<<vars, gateVars>>
    PROVE  SumsRight'
<1> USE DEF GateInv
<1>1. in' = in /\ in \in Setups /\ in.l \in Nat
  BY StepFrame, SetupTypes DEF DealtRight
<1>2. \A j, i : Summand(j, i)' = Summand(j, i)
  BY <1>1, SummandStep
<1>3. CASE Plain
  <2> DEFINE k == Len(plain)
             e == (plain[k] + in.x[k] * in.y[k]) % R
  <2>1. k \in 1 .. in.l /\ plain' = Append(plain, e) /\ z_hat' = z_hat
    BY <1>3 DEF Plain, SumsRight
  <2>2. plain \in Seq(Ring) /\ plain[k] \in Ring
    BY <2>1, ElementOfSeq DEF SumsRight
  <2>3. e \in Ring
    <3>1. plain[k] \in Int /\ in.x[k] \in Int /\ in.y[k] \in Int
      BY <1>1, <2>1, <2>2, SetupTypes, WidthAssumption DEF Ring
    <3>2. plain[k] + in.x[k] * in.y[k] \in Int
      BY <3>1
    <3> QED
      BY <3>2, ResidueInRing
  <2>4. /\ plain' \in Seq(Ring) /\ Len(plain') = k + 1
        /\ \A i \in 1 .. k : plain'[i] = plain[i]
        /\ plain'[k + 1] = e
    BY <2>1, <2>2, <2>3, AppendProperties
  <2>5. ASSUME NEW i \in 1 .. Len(plain') - 1
        PROVE  plain'[i + 1] = (plain'[i] + in.x[i] * in.y[i]) % R
    <3>1. i \in 1 .. k /\ (i # k => i \in 1 .. k - 1 /\ i + 1 \in 1 .. k)
      BY <2>1, <2>4
    <3> QED
      BY <3>1, <2>4 DEF SumsRight
  <2>6. /\ plain' \in Seq(Ring) /\ Len(plain') \in 1 .. in'.l + 1
        /\ \A i \in 1 .. Len(plain') - 1 :
              plain'[i + 1] = (plain'[i] + in'.x[i] * in'.y[i]) % R
    BY <1>1, <2>1, <2>4, <2>5
  <2>7. /\ z_hat' \in [{0, 1} -> Seq(Ring)]
        /\ \A d \in {0, 1} :
              /\ Len(z_hat'[d]) \in 1 .. in'.l + 1
              /\ \A i \in 1 .. Len(z_hat'[d]) - 1 :
                    z_hat'[d][i + 1] = (z_hat'[d][i] + Summand(d, i)') % R
    BY <1>1, <1>2, <2>1 DEF SumsRight
  <2> QED
    BY <2>6, <2>7 DEF SumsRight
<1>4. ASSUME NEW j \in {0, 1}, EvalDist(j) PROVE SumsRight'
  <2> DEFINE k == Len(z_hat[j])
             e == (z_hat[j][k] + Summand(j, k)) % R
  <2>1. k \in 1 .. in.l /\ z_hat' = [z_hat EXCEPT ![j] = Append(@, e)] /\ plain' = plain
    BY <1>4 DEF EvalDist, SumsRight
  <2>2. z_hat[j] \in Seq(Ring) /\ z_hat[j][k] \in Ring
    BY <2>1, ElementOfSeq DEF SumsRight
  <2>3. e \in Ring
    <3>1. z_hat[j][k] \in Int /\ Summand(j, k) \in Int
      BY <1>1, <2>1, <2>2, SummandType, WidthAssumption DEF Ring
    <3>2. z_hat[j][k] + Summand(j, k) \in Int
      BY <3>1
    <3> QED
      BY <3>2, ResidueInRing
  <2>4. z_hat'[j] = Append(z_hat[j], e) /\ \A d \in {0, 1} : d # j => z_hat'[d] = z_hat[d]
    BY <2>1 DEF SumsRight
  <2>5. /\ z_hat'[j] \in Seq(Ring) /\ Len(z_hat'[j]) = k + 1
        /\ \A i \in 1 .. k : z_hat'[j][i] = z_hat[j][i]
        /\ z_hat'[j][k + 1] = e
    BY <2>2, <2>3, <2>4, AppendProperties
  <2>6. z_hat' \in [{0, 1} -> Seq(Ring)]
    BY <2>1, <2>4, <2>5 DEF SumsRight
  <2>7. ASSUME NEW i \in 1 .. Len(z_hat'[j]) - 1
        PROVE  z_hat'[j][i + 1] = (z_hat'[j][i] + Summand(j, i)) % R
    <3>1. i \in 1 .. k /\ (i # k => i \in 1 .. k - 1 /\ i + 1 \in 1 .. k)
      BY <2>1, <2>5
    <3> QED
      BY <3>1, <2>5 DEF SumsRight
  <2>8. ASSUME NEW d \in {0, 1}
        PROVE  /\ Len(z_hat'[d]) \in 1 .. in.l + 1
               /\ \A i \in 1 .. Len(z_hat'[d]) - 1 :
                     z_hat'[d][i + 1] = (z_hat'[d][i] + Summand(d, i)) % R
    BY <1>1, <2>1, <2>4, <2>5, <2>7 DEF SumsRight
  <2>9. /\ plain' \in Seq(Ring) /\ Len(plain') \in 1 .. in'.l + 1
        /\ \A i \in 1 .. Len(plain') - 1 :
              plain'[i + 1] = (plain'[i] + in'.x[i] * in'.y[i]) % R
    BY <1>1, <2>1 DEF SumsRight
  <2>10. \A d \in {0, 1} :
            /\ Len(z_hat'[d]) \in 1 .. in'.l + 1
            /\ \A i \in 1 .. Len(z_hat'[d]) - 1 :
                  z_hat'[d][i + 1] = (z_hat'[d][i] + Summand(d, i)') % R
    BY <1>1, <1>2, <2>8
  <2> QED
    BY <2>6, <2>9, <2>10 DEF SumsRight
<1>5. CASE plain' = plain /\ z_hat' = z_hat
  BY <1>1, <1>2, <1>5 DEF SumsRight
<1>6. Plain => z_hat' = z_hat
  BY DEF Plain
<1> QED
  BY <1>3, <1>4, <1>5, <1>6, StepFrame

\* The sequences of partial sums only grow, by at most one element.
LEMMA SumsGrow ==
    ASSUME GateInv, [GateNext]_<<vars, gateVars>>
    PROVE  /\ Len(plain') \in Len(plain) .. Len(plain) + 1
           /\ \A i \in 1 .. Len(plain) : plain'[i] = plain[i]
           /\ \A d \in {0, 1} :
                 /\ Len(z_hat'[d]) \in Len(z_hat[d]) .. Len(z_hat[d]) + 1
                 /\ \A i \in 1 .. Len(z_hat[d]) : z_hat'[d][i] = z_hat[d][i]
<1> USE DEF GateInv
<1>1. /\ plain \in Seq(Ring) /\ Len(plain) \in Nat
      /\ z_hat \in [{0, 1} -> Seq(Ring)]
      /\ \A d \in {0, 1} : z_hat[d] \in Seq(Ring) /\ Len(z_hat[d]) \in Nat
  BY LenProperties DEF SumsRight
<1>2. /\ Len(plain') \in Len(plain) .. Len(plain) + 1
      /\ \A i \in 1 .. Len(plain) : plain'[i] = plain[i]
  <2>1. CASE Plain
    BY <1>1, <2>1 DEF Plain
  <2>2. CASE plain' = plain
    BY <1>1, <2>2
  <2> QED
    BY <2>1, <2>2, StepFrame
<1>3. ASSUME NEW d \in {0, 1}
      PROVE  /\ Len(z_hat'[d]) \in Len(z_hat[d]) .. Len(z_hat[d]) + 1
             /\ \A i \in 1 .. Len(z_hat[d]) : z_hat'[d][i] = z_hat[d][i]
  <2>1. ASSUME NEW j \in {0, 1}, EvalDist(j)
        PROVE  z_hat'[d] = z_hat[d] \/ \E e : z_hat'[d] = Append(z_hat[d], e)
    BY <1>1, <2>1 DEF EvalDist
  <2>2. z_hat'[d] = z_hat[d] \/ \E e : z_hat'[d] = Append(z_hat[d], e)
    BY <2>1, StepFrame
  <2>3. CASE z_hat'[d] = z_hat[d]
    BY <1>1, <2>3
  <2>4. ASSUME NEW e, z_hat'[d] = Append(z_hat[d], e)
        PROVE  /\ Len(z_hat'[d]) = Len(z_hat[d]) + 1
               /\ \A i \in 1 .. Len(z_hat[d]) : z_hat'[d][i] = z_hat[d][i]
    BY <1>1, <2>4
  <2> QED
    BY <1>1, <2>2, <2>3, <2>4
<1> QED
  BY <1>2, <1>3

LEMMA MaskedStep ==
    ASSUME GateInv, [GateNext]_<<vars, gateVars>>
    PROVE  DistanceMasked'
<1> USE DEF GateInv
<1>1. in' = in /\ r_in' = r_in /\ in \in Setups
  BY StepFrame DEF DealtRight
<1>2. SumsRight'
  BY SumsPreserved
<1>3. /\ plain \in Seq(Ring) /\ z_hat[0] \in Seq(Ring) /\ z_hat[1] \in Seq(Ring)
      /\ Len(plain) \in Nat \ {0} /\ Len(z_hat[0]) \in Nat \ {0} /\ Len(z_hat[1]) \in Nat \ {0}
      /\ plain' \in Seq(Ring) /\ z_hat'[0] \in Seq(Ring) /\ z_hat'[1] \in Seq(Ring)
      /\ Len(plain') \in 1 .. in.l + 1 /\ in.l \in Nat
  BY <1>1, <1>2, SetupTypes DEF SumsRight
<1> SUFFICES ASSUME NEW i \in DOMAIN z_hat'[0] \cap DOMAIN z_hat'[1], i \in DOMAIN plain'
             PROVE  (z_hat'[0][i] + z_hat'[1][i]) % R = (r_in - in.theta + plain'[i]) % R
  BY <1>1 DEF DistanceMasked
<1>4. /\ i \in 1 .. Len(z_hat'[0]) /\ i \in 1 .. Len(z_hat'[1]) /\ i \in 1 .. Len(plain')
      /\ i \in Nat
  BY <1>3
<1>5. ASSUME NEW k \in 1 .. Len(plain), k \in 1 .. Len(z_hat[0]), k \in 1 .. Len(z_hat[1])
      PROVE  /\ z_hat'[0][k] = z_hat[0][k] /\ z_hat'[1][k] = z_hat[1][k] /\ plain'[k] = plain[k]
             /\ (z_hat'[0][k] + z_hat'[1][k]) % R = (r_in - in.theta + plain'[k]) % R
  <2>1. z_hat'[0][k] = z_hat[0][k] /\ z_hat'[1][k] = z_hat[1][k] /\ plain'[k] = plain[k]
    BY <1>5, SumsGrow
  <2>2. k \in DOMAIN z_hat[0] \cap DOMAIN z_hat[1] /\ k \in DOMAIN plain
    BY <1>3, <1>5
  <2> QED
    BY <2>1, <2>2 DEF DistanceMasked
<1>6. CASE i \in 1 .. Len(plain) /\ i \in 1 .. Len(z_hat[0]) /\ i \in 1 .. Len(z_hat[1])
  BY <1>5, <1>6
<1>7. CASE ~(i \in 1 .. Len(plain) /\ i \in 1 .. Len(z_hat[0]) /\ i \in 1 .. Len(z_hat[1]))
  <2> DEFINE k == i - 1
             u == z_hat'[0][k]
             v == z_hat'[1][k]
             s == plain'[k]
  <2>1. /\ Len(plain') \in Len(plain) .. Len(plain) + 1
        /\ Len(z_hat'[0]) \in Len(z_hat[0]) .. Len(z_hat[0]) + 1
        /\ Len(z_hat'[1]) \in Len(z_hat[1]) .. Len(z_hat[1]) + 1
    BY SumsGrow
  <2>2. /\ k \in 1 .. Len(plain) /\ k \in 1 .. Len(z_hat[0]) /\ k \in 1 .. Len(z_hat[1])
        /\ k \in 1 .. in.l /\ k + 1 = i
        /\ k \in 1 .. Len(plain') - 1 /\ k \in 1 .. Len(z_hat'[0]) - 1
        /\ k \in 1 .. Len(z_hat'[1]) - 1
    <3> DEFINE a == Len(plain)
               b == Len(z_hat[0])
               c == Len(z_hat[1])
               e == Len(plain')
               f == Len(z_hat'[0])
               g == Len(z_hat'[1])
    <3>1. /\ a \in Nat \ {0} /\ b \in Nat \ {0} /\ c \in Nat \ {0} /\ in.l \in Nat
          /\ e \in a .. a + 1 /\ f \in b .. b + 1 /\ g \in c .. c + 1 /\ e \in 1 .. in.l + 1
          /\ i \in 1 .. e /\ i \in 1 .. f /\ i \in 1 .. g /\ i \in Nat
          /\ ~(i \in 1 .. a /\ i \in 1 .. b /\ i \in 1 .. c)
      BY <1>3, <1>4, <1>7, <2>1
    <3> HIDE DEF a, b, c, e, f, g
    <3>2. i > a \/ i > b \/ i > c
      BY <3>1
    <3>3. i >= 2
      BY <3>1, <3>2
    <3>4. /\ k \in 1 .. a /\ k \in 1 .. b /\ k \in 1 .. c /\ k \in 1 .. in.l /\ k + 1 = i
          /\ k \in 1 .. e - 1 /\ k \in 1 .. f - 1 /\ k \in 1 .. g - 1
      BY <3>1, <3>3
    <3> QED
      BY <3>4 DEF a, b, c, e, f, g
  <2>3. (u + v) % R = (r_in - in.theta + s) % R
    BY <1>5, <2>2
  <2>4. /\ z_hat'[0][k + 1] = (u + Summand(0, k)') % R
        /\ z_hat'[1][k + 1] = (v + Summand(1, k)') % R
        /\ plain'[k + 1] = (s + in'.x[k] * in'.y[k]) % R
    BY <1>2, <2>2 DEF SumsRight
  <2>5. Summand(0, k)' = Summand(0, k) /\ Summand(1, k)' = Summand(1, k)
    BY <1>1, SummandStep
  <2>6. /\ z_hat'[0][i] = (u + Summand(0, k)) % R
        /\ z_hat'[1][i] = (v + Summand(1, k)) % R
        /\ plain'[i] = (s + in.x[k] * in.y[k]) % R
    BY <1>1, <2>2, <2>4, <2>5
  <2>7. u \in Int /\ v \in Int /\ s \in Int
    <3>1. k \in 1 .. Len(plain') /\ k \in 1 .. Len(z_hat'[0]) /\ k \in 1 .. Len(z_hat'[1])
      BY <1>3, <2>2
    <3>2. u \in Ring /\ v \in Ring /\ s \in Ring
      BY <1>3, <3>1, ElementOfSeq
    <3> QED
      BY <3>2, WidthAssumption DEF Ring
  <2> HIDE DEF u, v, s, k
  <2>8. (((u + Summand(0, k)) % R) + ((v + Summand(1, k)) % R)) % R
           = (r_in - in.theta + ((s + in.x[k] * in.y[k]) % R)) % R
    BY <1>1, <2>2, <2>3, <2>7, SumsStep
  <2> QED
    BY <2>6, <2>8
<1> QED
  BY <1>6, <1>7
-----------------------------------------------------------------------------
\* Once the shares are exchanged, the masked input stays what it is.
LEMMA ExchangedStays ==
    ASSUME GateInv, [GateNext]_<<vars, gateVars>>, Exchanged
    PROVE  Exchanged' /\ x_hat' = x_hat
<1> USE DEF GateInv
<1>1. in' = in /\ in.l \in Nat
  BY StepFrame, SetupTypes DEF DealtRight
<1>2. ASSUME NEW j \in {0, 1}, EvalDist(j) PROVE FALSE
  BY <1>1, <1>2 DEF EvalDist, Exchanged
<1>3. z_hat' = z_hat
  BY <1>2, StepFrame
<1> QED
  BY <1>1, <1>3 DEF Exchanged, x_hat

LEMMA CallsStep ==
    ASSUME GateInv, [GateNext]_<<vars, gateVars>>
    PROVE  CallsRight'
<1> USE DEF GateInv
<1>1. in' = in
  BY StepFrame
<1> SUFFICES ASSUME NEW d \in {0, 1}
             PROVE  /\ Len(xs'[d]) <= 2
                    /\ Len(xs'[d]) >= 1 =>
                          Exchanged' /\ xs'[d][1] = BitsOf((x_hat' - in.p - 1) % R)
                    /\ Len(xs'[d]) >= 2 => xs'[d][2] = BitsOf((x_hat' - in.q - 2) % R)
  BY <1>1 DEF CallsRight
<1>2. /\ xs \in [{0, 1} -> Seq(Bits)] /\ xs[d] \in Seq(Bits) /\ Len(xs[d]) \in Nat
      /\ Len(out[d]) \in Nat
      /\ Len(out[d]) <= Len(xs[d]) /\ Len(xs[d]) <= Len(out[d]) + 1
  BY CallCounts DEF DCFInv, TypeOK
<1>3. CASE xs'[d] = xs[d]
  BY <1>2, <1>3, ExchangedStays DEF CallsRight
<1>4. CASE CallP(d)
  <2> DEFINE y == BitsOf((x_hat - in.p - 1) % R)
  <2>1. Exchanged /\ xs'[d] = Append(xs[d], y) /\ Len(xs[d]) = 0
    BY <1>2, <1>4 DEF CallP, Call, InCall
  <2>2. Len(xs'[d]) = 1 /\ xs'[d][1] = y
    <3> HIDE DEF y
    <3> QED
      BY <1>2, <2>1
  <2>3. Exchanged' /\ x_hat' = x_hat
    BY <2>1, ExchangedStays
  <2> QED
    BY <2>2, <2>3
<1>5. CASE CallQ(d)
  <2> DEFINE y == BitsOf((x_hat - in.q - 2) % R)
  <2>1. xs'[d] = Append(xs[d], y) /\ Len(xs[d]) = 1
    <3>1. /\ Len(out[d]) = 1 /\ ~(Len(out[d]) < Len(xs[d]))
          /\ xs' = [xs EXCEPT ![d] = Append(@, y)]
      BY <1>5 DEF CallQ, Call, InCall
    <3> QED
      BY <1>2, <3>1
  <2>2. Len(xs'[d]) = 2 /\ xs'[d][1] = xs[d][1] /\ xs'[d][2] = y
    <3> HIDE DEF y
    <3> QED
      BY <1>2, <2>1
  <2>3. Exchanged /\ xs[d][1] = BitsOf((x_hat - in.p - 1) % R)
    BY <2>1 DEF CallsRight
  <2>4. Exchanged' /\ x_hat' = x_hat
    BY <2>3, ExchangedStays
  <2> QED
    BY <2>2, <2>3, <2>4
<1>6. ASSUME NEW b \in {0, 1}, CallP(b) \/ CallQ(b), b # d PROVE xs'[d] = xs[d]
  BY <1>2, <1>6 DEF CallP, CallQ, Call
<1> QED
  BY <1>3, <1>4, <1>5, <1>6, StepFrame

LEMMA OutputsStep ==
    ASSUME GateInv, [GateNext]_<<vars, gateVars>>
    PROVE  OutputsRight'
<1> USE DEF GateInv
<1>1. in' = in /\ o \in [{0, 1} -> Int]
  BY StepFrame DEF OutputsRight
\* What a party has returned does not change afterwards.
<1>2. ASSUME NEW d \in {0, 1}, Len(out[d]) = 2
      PROVE  out'[d] = out[d] /\ IC_eval(d)' = IC_eval(d)
  <2>1. Len(xs[d]) = 2 /\ KeysReady
    <3> DEFINE n == Len(xs[d])
    <3>1. n \in Nat /\ 2 <= n /\ n <= 2 /\ (n > 0 => KeysReady)
      BY <1>2, CallCounts DEF CallsRight
    <3> HIDE DEF n
    <3>2. n = 2 /\ KeysReady
      BY <3>1
    <3> QED
      BY <3>2 DEF n
  <2>2. z' = z
    BY <2>1, StepFrame DEF FinishKeys, GenLast, KeysReady
  <2>3. x_hat' = x_hat
    BY <2>1, ExchangedStays DEF CallsRight
  <2>4. ASSUME NEW b \in {0, 1}, Walk(b) PROVE out'[d] = out[d]
    <3>1. out \in [{0, 1} -> Seq(Ring)]
      BY DEF DCFInv, TypeOK
    <3> QED
      BY <1>2, <2>1, <2>4, <3>1 DEF Walk, EvalBit, Return, InCall
  <2>5. out'[d] = out[d]
    BY <2>4, StepFrame
  <2> QED
    BY <1>1, <2>2, <2>3, <2>5 DEF IC_eval
<1>3. ASSUME NEW d \in {0, 1}, o[d] # NotYet
      PROVE  Len(out'[d]) = 2 /\ o[d] = IC_eval(d)'
  BY <1>2, <1>3 DEF OutputsRight
<1>4. ASSUME NEW b \in {0, 1}, Combine(b) PROVE OutputsRight'
  <2>1. Len(out[b]) = 2 /\ o' = [o EXCEPT ![b] = IC_eval(b)]
    BY <1>4 DEF Combine
  <2>2. IC_eval(b) \in Int
    <3>1. \A t \in BOOLEAN, i \in Int : If(t, i) \in Int
      BY DEF If
    <3>2. \A c, d : Greater(c, d) \in Int
      BY DEF Greater, If
    <3>3. out[b][1] \in Int /\ out[b][2] \in Int /\ z[b] \in Int
      <4>1. out[b] \in Seq(Ring)
        BY CallCounts
      <4>2. out[b][1] \in Ring /\ out[b][2] \in Ring
        BY <2>1, <4>1, ElementOfSeq
      <4> QED
        BY <4>2, WidthAssumption DEF DealtRight, Ring
    <3> DEFINE g == Greater(x_hat, in.p) - Greater(x_hat, in.q + 1)
               h == If(b = 1, g)
    <3>4. g \in Int
      BY <3>2
    <3> HIDE DEF g
    <3>5. h \in Int
      BY <3>1, <3>4
    <3> HIDE DEF h
    <3>6. h - out[b][1] + out[b][2] + z[b] \in Int
      BY <3>3, <3>5
    <3>7. (h - out[b][1] + out[b][2] + z[b]) % R \in Ring
      BY <3>6, ResidueInRing
    <3> QED
      BY <3>7, WidthAssumption DEF IC_eval, Ring, h, g
  <2>3. out'[b] = out[b] /\ IC_eval(b)' = IC_eval(b)
    BY <1>2, <2>1
  <2>4. o' \in [{0, 1} -> Int] /\ o'[b] = IC_eval(b) /\ \A d \in {0, 1} : d # b => o'[d] = o[d]
    BY <1>1, <2>1, <2>2
  <2> QED
    BY <1>3, <2>1, <2>3, <2>4 DEF OutputsRight
<1>5. CASE o' = o
  BY <1>1, <1>3, <1>5 DEF OutputsRight
<1> QED
  BY <1>4, <1>5, StepFrame

LEMMA GateStepInv == GateInv /\ [GateNext]_<<vars, gateVars>> => GateInv'
<1> SUFFICES ASSUME GateInv, [GateNext]_<<vars, gateVars>> PROVE GateInv'
  OBVIOUS
<1>1. DCFInv'
  BY StepIsStep, StepInv DEF GateInv
<1>2. DealtRight' /\ SumsRight' /\ DistanceMasked'
  BY DealtStep, SumsPreserved, MaskedStep
<1>3. CallsRight' /\ OutputsRight'
  BY CallsStep, OutputsStep
<1> QED
  BY <1>1, <1>2, <1>3 DEF GateInv
-----------------------------------------------------------------------------
\* What a comparison of the masked input with the mask says.
LEMMA ComparisonOfNumbers ==
    ASSUME DealtRight, NEW a \in Ring, r_in \in Int
    PROVE  Comparison(BitsOf(a), alpha, N_BITS) = If(a < (r_in - 1) % R, 1)
<1>1. (r_in - 1) % R \in Ring
  BY ResidueInRing
<1>2. Less(BitsOf(a), alpha) <=> a < (r_in - 1) % R
  BY <1>1, BitsAssumption DEF DealtRight
<1> QED
  BY <1>2, BetaAssumption DEF Comparison, Less, If

LEMMA GateInvCorrect == GateInv => GateCorrect
<1> SUFFICES ASSUME GateInv, Ended, in.p <= in.q
             PROVE  Output = (in.r_out + If((x_hat - r_in) % R \in in.p .. in.q, 1)) % R
  BY DEF GateCorrect
<1> USE DEF GateInv
<1> DEFINE xp == (x_hat - in.p - 1) % R
           xq == (x_hat - in.q - 2) % R
           rm == (r_in - 1) % R
           c1 == If(xp < rm, 1)
           c2 == If(xq < rm, 1)
           g == Greater(x_hat, in.p) - Greater(x_hat, in.q + 1)
           K == Greater(in.p + r_in, in.q + r_in) - Greater(in.p + r_in, in.p)
                + Greater(in.q + r_in + 1, in.q + 1) + If((in.q + r_in + 1) % R = 0, 1)
           hit == If((x_hat - r_in) % R \in in.p .. in.q, 1)
           a1 == out[0][1]
           a2 == out[0][2]
           b1 == out[1][1]
           b2 == out[1][2]
<1>1. ASSUME NEW b \in {0, 1}
      PROVE  /\ o[b] = IC_eval(b) /\ Len(out[b]) = 2 /\ Len(xs[b]) = 2 /\ KeysReady
             /\ xs[b][1] = BitsOf(xp) /\ xs[b][2] = BitsOf(xq) /\ Exchanged
             /\ out[b] \in Seq(Ring)
  <2>1. o[b] = IC_eval(b) /\ Len(out[b]) = 2
    BY DEF Ended, OutputsRight
  <2> DEFINE n == Len(xs[b])
  <2>2. n \in Nat /\ 2 <= n /\ n <= 2 /\ (n > 0 => KeysReady)
    BY <2>1, CallCounts DEF CallsRight
  <2> HIDE DEF n
  <2>3. n = 2 /\ KeysReady
    BY <2>2
  <2>4. Len(xs[b]) = 2 /\ KeysReady /\ out[b] \in Seq(Ring)
    BY <2>3, CallCounts DEF n
  <2> QED
    BY <2>1, <2>4 DEF CallsRight
<1>2. /\ x_hat \in Ring /\ x_hat \in Int /\ in.p \in Ring /\ in.q \in Ring /\ in.p \in Int
      /\ in.q \in Int /\ r_in \in Int /\ in.z0 \in Int /\ in.r_out \in Int
      /\ in \in Setups
  <2>1. in \in Setups /\ x_hat \in Ring /\ x_hat \in Int
    BY <1>1, ExchangedType DEF DealtRight
  <2>2. \A n \in Ring : n \in Int
    BY WidthAssumption DEF Ring
  <2> QED
    BY <2>1, <2>2, SetupTypes
<1>3. xp \in Ring /\ xq \in Ring
  <2>1. x_hat - in.p - 1 \in Int /\ x_hat - in.q - 2 \in Int
    BY <1>2
  <2> QED
    BY <2>1, ResidueInRing
<1>4. (a1 + b1) % R = c1 % R /\ (a2 + b2) % R = c2 % R
  <2>1. \A k \in {1, 2} : k \in DOMAIN out[0] /\ k \in DOMAIN out[1] /\ xs[0][k] = xs[1][k]
    BY <1>1
  <2>2. \A k \in {1, 2} : (out[0][k] + out[1][k]) % R = Comparison(xs[0][k], alpha, N_BITS) % R
    BY <2>1, InvCorrect DEF DCFCorrect
  <2>3. /\ Comparison(xs[0][1], alpha, N_BITS) = c1
        /\ Comparison(xs[0][2], alpha, N_BITS) = c2
    BY <1>1, <1>2, <1>3, ComparisonOfNumbers
  <2> QED
    BY <2>2, <2>3
<1>5. g - c1 + c2 + K = hit
  <2>1. TellsInterval(x_hat, r_in, in.p, in.q)
    BY <1>2, MaskedInterval
  <2>1a. Greater(x_hat, in.p) - Greater(x_hat, in.q + 1) - c1 + c2
        + Greater(in.p + r_in, in.q + r_in) - Greater(in.p + r_in, in.p)
        + Greater(in.q + r_in + 1, in.q + 1) + If((in.q + r_in + 1) % R = 0, 1) = hit
    BY <2>1 DEF TellsInterval
  <2>2. \A c, d : Greater(c, d) \in Int
    BY DEF Greater, If
  <2>3. \A t \in BOOLEAN : If(t, 1) \in Int
    BY DEF If
  <2>4. c1 \in Int /\ c2 \in Int
    BY DEF If
  <2> DEFINE g1 == Greater(x_hat, in.p)
             g2 == Greater(x_hat, in.q + 1)
             g3 == Greater(in.p + r_in, in.q + r_in)
             g4 == Greater(in.p + r_in, in.p)
             g5 == Greater(in.q + r_in + 1, in.q + 1)
             g6 == If((in.q + r_in + 1) % R = 0, 1)
  <2>5. /\ g1 \in Int /\ g2 \in Int /\ g3 \in Int /\ g4 \in Int /\ g5 \in Int /\ g6 \in Int
        /\ g1 - g2 - c1 + c2 + g3 - g4 + g5 + g6 = hit
    BY <2>1a, <2>2, <2>3
  <2> HIDE DEF g1, g2, g3, g4, g5, g6, c1, c2, hit
  <2>6. (g1 - g2) - c1 + c2 + (g3 - g4 + g5 + g6) = hit
    BY <2>4, <2>5
  <2> QED
    BY <2>6 DEF g1, g2, g3, g4, g5, g6
<1>6. /\ a1 \in Int /\ a2 \in Int /\ b1 \in Int /\ b2 \in Int /\ c1 \in Int /\ c2 \in Int
      /\ g \in Int /\ K \in Int /\ hit \in Int
  <2>1. \A b \in {0, 1} : out[b][1] \in Ring /\ out[b][2] \in Ring
    BY <1>1, ElementOfSeq
  <2>2. a1 \in Int /\ a2 \in Int /\ b1 \in Int /\ b2 \in Int
    BY <2>1, WidthAssumption DEF Ring
  <2>3. \A c, d : Greater(c, d) \in Int
    BY DEF Greater, If
  <2>4. c1 \in Int /\ c2 \in Int /\ hit \in Int /\ If((in.q + r_in + 1) % R = 0, 1) \in Int
    BY DEF If
  <2> QED
    BY <2>2, <2>3, <2>4
<1>7. z[0] = in.z0 /\ z[1] = (-in.z0 + in.r_out + K) % R
  <2>1. z[0] = IC_gen(0) /\ z[1] = IC_gen(1)
    BY <1>1 DEF DealtRight
  <2>2. \A c, d : Greater(c, d) \in Int
    BY DEF Greater, If
  <2> DEFINE g3 == Greater(in.p + r_in, in.q + r_in)
             g4 == Greater(in.p + r_in, in.p)
             g5 == Greater(in.q + r_in + 1, in.q + 1)
             g6 == If((in.q + r_in + 1) % R = 0, 1)
  <2>3. g3 \in Int /\ g4 \in Int /\ g5 \in Int /\ g6 \in Int
    BY <2>2 DEF If
  <2>4. IC_gen(0) = in.z0 /\ IC_gen(1) = (-in.z0 + in.r_out + g3 - g4 + g5 + g6) % R
    BY DEF IC_gen
  <2> HIDE DEF g3, g4, g5, g6
  <2>5. -in.z0 + in.r_out + g3 - g4 + g5 + g6 = -in.z0 + in.r_out + (g3 - g4 + g5 + g6)
    BY <1>2, <2>3
  <2> QED
    BY <2>1, <2>4, <2>5 DEF g3, g4, g5, g6
<1>8. o[0] = (0 - a1 + a2 + z[0]) % R /\ o[1] = (g - b1 + b2 + z[1]) % R
  BY <1>1 DEF IC_eval, If
<1> HIDE DEF xp, xq, rm, c1, c2, g, K, hit, a1, a2, b1, b2
<1>9. ((a1 + b1) - c1) \in Multiples(R) /\ ((a2 + b2) - c2) \in Multiples(R)
  <2>1. ASSUME NEW u \in Int, NEW v \in Int, u % R = v % R PROVE u - v \in Multiples(R)
    <3> DEFINE w == u % R
    <3>1. w \in Int /\ u - w \in Multiples(R) /\ w - v \in Multiples(R)
      <4>1. /\ u % R \in 0 .. R - 1 /\ Cong(R, u, u % R) /\ Cong(R, v % R, v)
            /\ R \in Nat
        BY ModRange, WidthAssumption
      <4> QED
        BY <2>1, <4>1 DEF Cong
    <3> HIDE DEF w
    <3>2. (u - w) + (w - v) \in Multiples(R)
      BY <3>1, MultiplesClosed, WidthAssumption
    <3>3. (u - w) + (w - v) = u - v
      BY <3>1, <2>1
    <3> QED
      BY <3>2, <3>3
  <2>2. a1 + b1 \in Int /\ a2 + b2 \in Int
    BY <1>6
  <2> QED
    BY <1>4, <1>6, <2>1, <2>2
<1> DEFINE s == -in.z0 + in.r_out + K
           z1 == s % R
<1>10. s \in Int /\ z1 \in Int /\ z1 - s \in Multiples(R)
  <2>1. s \in Int
    BY <1>2, <1>6
  <2> HIDE DEF s
  <2>2. z1 \in 0 .. R - 1 /\ Cong(R, z1, s) /\ R \in Nat
    BY <2>1, ModRange, WidthAssumption
  <2> QED
    BY <2>1, <2>2 DEF Cong
<1>11. z[1] = z1
  BY <1>7
<1> HIDE DEF z1
<1> DEFINE u == 0 - a1 + a2 + z[0]
           v == g - b1 + b2 + z[1]
           w == in.r_out + hit
<1>12. (z1 - s) - ((a1 + b1) - c1) + ((a2 + b2) - c2) \in Multiples(R)
  <2>1. (z1 - s) - ((a1 + b1) - c1) \in Multiples(R)
    BY <1>9, <1>10, MultiplesClosed, WidthAssumption
  <2> QED
    BY <2>1, <1>9, MultiplesClosed, WidthAssumption
<1>13. u \in Int /\ v \in Int /\ w \in Int
  BY <1>2, <1>6, <1>7, <1>10, <1>11
<1>14. (u + v) - w = (z1 - s) - ((a1 + b1) - c1) + ((a2 + b2) - c2)
  <2> DEFINE z0 == in.z0
             r == in.r_out
  <2>1. z0 \in Int /\ r \in Int /\ s = -z0 + r + K /\ z[0] = z0 /\ z[1] = z1
    BY <1>2, <1>7, <1>11
  <2>2. u = 0 - a1 + a2 + z0 /\ v = g - b1 + b2 + z1 /\ w = r + hit
    BY <2>1
  <2> HIDE DEF z0, r, s, u, v, w
  <2> QED
    BY <1>5, <1>6, <1>10, <2>1, <2>2
<1> HIDE DEF u, v, w, s
<1>15. ((u % R) + (v % R)) % R = w % R
  BY <1>12, <1>13, <1>14, SumOfResidues DEF Cong
<1> QED
  BY <1>8, <1>15 DEF Output, u, v, w, hit
\* The caller's sum of products is complete before the keys are.
PlainFirst == KeysReady => Len(plain) = in.l + 1

LEMMA PlainFirstStep ==
    ASSUME GateInv, PlainFirst, [GateNext]_<<vars, gateVars>>
    PROVE  PlainFirst'
<1> USE DEF GateInv, PlainFirst
<1>1. in' = in /\ in \in Setups /\ in.l \in Nat
  BY StepFrame, SetupTypes DEF DealtRight
<1>2. CASE Plain
  <2>1. Len(plain) \in Int /\ Len(plain) <= in.l /\ last' = last
    BY <1>2 DEF Plain, vars, SumsRight
  <2>2. ~KeysReady
    BY <1>1, <2>1
  <2> QED
    BY <2>1, <2>2 DEF KeysReady
<1>3. CASE FinishKeys
  BY <1>1, <1>3 DEF FinishKeys
<1>4. CASE ~Plain /\ ~FinishKeys
  BY <1>1, <1>4, StepFrame DEF KeysReady
<1> QED
  BY <1>2, <1>3, <1>4

\* A number and its signed reading are the same residue.
LEMMA SignedReading ==
    ASSUME NEW n \in Int
    PROVE  SignedValue(n) \in Int /\ SignedValue(n) - n \in Multiples(R)
<1> DEFINE r == n % R
<1>1. r \in Int /\ r - n \in Multiples(R) /\ R \in Nat \ {0}
  <2>1. r \in 0 .. R - 1 /\ Cong(R, r, n) /\ R \in Nat \ {0}
    BY ModRange, WidthAssumption
  <2> QED
    BY <2>1 DEF Cong
<1>2. SignedValue(n) = r \/ SignedValue(n) = r - R
  BY DEF SignedValue
<1> HIDE DEF r
<1>3. R \in Multiples(R) /\ (r - n) - R \in Multiples(R)
  BY <1>1, MultiplesClosed
<1>4. (r - R) - n = (r - n) - R
  BY <1>1
<1>5. r - R \in Int
  BY <1>1
<1> QED
  BY <1>1, <1>2, <1>3, <1>4, <1>5

\* The residue of a number that is a value of R_t tells its sign.
LEMMA SignOfResidue ==
    ASSUME NEW d \in Int, d \in -(R \div 2) .. (R \div 2) - 1
    PROVE  /\ d % R \in 0 .. (R \div 2) - 1 <=> d >= 0
           /\ If(d >= 0, 1) % R = If(d >= 0, 1)
<1>1. R \in Nat \ {0} /\ R \div 2 \in Nat /\ 2 * (R \div 2) <= R
  BY WidthAssumption
<1> DEFINE h == R \div 2
<1>2. h \in Nat /\ 2 * h <= R /\ d \in -h .. h - 1
  BY <1>1
<1> HIDE DEF h
<1>3. h >= 1 /\ 1 \in 0 .. R - 1 /\ 0 \in 0 .. R - 1
  BY <1>1, <1>2
<1>4. 1 % R = 1 /\ 0 % R = 0
  BY <1>1, <1>3, ModSmall
<1>5. CASE d >= 0
  <2>1. d \in 0 .. R - 1
    BY <1>1, <1>2, <1>5
  <2>2. d % R = d
    BY <1>1, <2>1, ModSmall
  <2>3. d \in 0 .. h - 1
    BY <1>2, <1>5
  <2> QED
    BY <1>4, <1>5, <2>2, <2>3 DEF If, h
<1>6. CASE ~ d >= 0
  <2>1. d \in -R .. -1
    BY <1>1, <1>2, <1>6
  <2>2. d % R = d + R
    BY <1>1, <2>1, ModCases
  <2>3. d + R \notin 0 .. h - 1
    BY <1>1, <1>2
  <2> QED
    BY <1>4, <1>6, <2>2, <2>3 DEF If, h
<1> QED
  BY <1>5, <1>6

LEMMA InvFunshadeCorrect == GateInv /\ PlainFirst => FunshadeCorrect
<1> DEFINE product == SignedValue(plain[in.l + 1])
           theta == SignedValue(in.theta)
           d == product - theta
<1> SUFFICES ASSUME GateInv, PlainFirst, Ended, in.p = SIGN.p, in.q = SIGN.q, in.r_out = 0,
                    d \in -(R \div 2) .. (R \div 2) - 1
             PROVE  Output = If(product >= theta, 1)
  BY DEF FunshadeCorrect
<1> USE DEF GateInv
<1>1. /\ in \in Setups /\ in.l \in Nat /\ r_in \in Int /\ in.theta \in Int /\ in.q \in Ring
      /\ in.p = 0 /\ in.q = (R \div 2) - 1 /\ in.p <= in.q
  <2>1. /\ in \in Setups /\ in.l \in Nat /\ r_in \in Int /\ in.theta \in Int /\ in.q \in Ring
        /\ in.p = 0 /\ in.q = (R \div 2) - 1
    BY SetupTypes DEF DealtRight, SIGN
  <2>2. 0 <= in.q
    BY <2>1, WidthAssumption DEF Ring
  <2> QED
    BY <2>1, <2>2
<1>2. KeysReady /\ Exchanged
  <2>1. Len(out[0]) = 2
    BY DEF Ended, OutputsRight
  <2> DEFINE n == Len(xs[0])
  <2>2. n \in Nat /\ 2 <= n /\ (n > 0 => KeysReady)
    BY <2>1, CallCounts
  <2> HIDE DEF n
  <2>3. n >= 1 /\ KeysReady
    BY <2>2
  <2> QED
    BY <2>3 DEF CallsRight, n
<1> DEFINE s == plain[in.l + 1]
           t == in.theta
           X == z_hat[0][in.l + 1] + z_hat[1][in.l + 1]
<1>3. s \in Int /\ x_hat = (r_in - t + s) % R
  <2>1. in.l + 1 \in 1 .. in.l + 1 /\ Len(plain) = in.l + 1 /\ plain \in Seq(Ring)
    BY <1>1, <1>2 DEF PlainFirst, SumsRight
  <2>2. s \in Ring
    BY <2>1, ElementOfSeq
  <2>3. \A j \in {0, 1} : z_hat[j] \in Seq(Ring) /\ Len(z_hat[j]) = in.l + 1
    BY <1>2 DEF SumsRight, Exchanged
  <2>4. in.l + 1 \in DOMAIN plain /\ in.l + 1 \in DOMAIN z_hat[0] /\ in.l + 1 \in DOMAIN z_hat[1]
    BY <2>1, <2>3
  <2>5. X % R = (r_in - t + s) % R
    BY <2>4 DEF DistanceMasked
  <2> QED
    BY <2>2, <2>5, WidthAssumption DEF Ring, x_hat
<1>4. (x_hat - r_in) % R = d % R
  <2> DEFINE w == r_in - t + s
  <2>1. w \in Int /\ x_hat \in Int /\ x_hat - w \in Multiples(R)
    <3>1. w \in Int
      BY <1>1, <1>3
    <3> HIDE DEF w
    <3>2. w % R \in 0 .. R - 1 /\ Cong(R, w % R, w)
      BY <3>1, ModRange, WidthAssumption
    <3> QED
      BY <1>3, <3>1, <3>2, WidthAssumption DEF w, Cong
  <2>2. product \in Int /\ theta \in Int /\ product - s \in Multiples(R) /\ theta - t \in Multiples(R)
    BY <1>1, <1>3, SignedReading
  <2>3. ((x_hat - w) - (product - s)) + (theta - t) \in Multiples(R)
    BY <2>1, <2>2, MultiplesClosed, WidthAssumption
  <2> HIDE DEF product, theta, s, t
  <2>4. (x_hat - r_in) - (product - theta) = ((x_hat - w) - (product - s)) + (theta - t)
    BY <1>1, <1>3, <2>1, <2>2 DEF t
  <2>5. Cong(R, x_hat - r_in, product - theta)
    BY <2>3, <2>4 DEF Cong
  <2>6. x_hat - r_in \in Int /\ product - theta \in Int
    BY <1>1, <2>1, <2>2
  <2> QED
    BY <2>5, <2>6, CongMod, WidthAssumption
<1>5. Output = (0 + If(d % R \in 0 .. (R \div 2) - 1, 1)) % R
  BY <1>1, <1>4, GateInvCorrect DEF GateCorrect
<1>6. product \in Int /\ theta \in Int /\ d \in Int
  BY <1>1, <1>3, SignedReading
<1>7. /\ d % R \in 0 .. (R \div 2) - 1 <=> d >= 0
      /\ If(d >= 0, 1) % R = If(d >= 0, 1)
  BY <1>6, SignOfResidue
<1>8. If(d % R \in 0 .. (R \div 2) - 1, 1) = If(d >= 0, 1)
  BY <1>7 DEF If
<1>9. 0 + If(d >= 0, 1) = If(d >= 0, 1)
  BY DEF If
<1>10. d >= 0 <=> product >= theta
  <2> HIDE DEF product, theta
  <2> QED
    BY <1>6
<1> QED
  BY <1>5, <1>7, <1>8, <1>9, <1>10 DEF If
-----------------------------------------------------------------------------
LEMMA GateInvariant == GateSpec => []GateInv
<1>1. GateInit => GateInv
  BY GateInitInv
<1>2. GateInv /\ [GateNext]_<<vars, gateVars>> => GateInv'
  BY GateStepInv
<1> QED
  BY <1>1, <1>2, PTL DEF GateSpec

\* The gate uses the comparison function as its specification allows: IC_gen makes
\* one pair of keys, and each party evaluates its key at most twice, one call after
\* the other, whatever the other party does meanwhile.
THEOREM GateImplementsDCF == GateSpec => Spec
<1>1. GateInit => Init
  BY DEF GateInit
<1>2. GateInv /\ [GateNext]_<<vars, gateVars>> => [Next]_vars
  BY StepIsStep
<1> QED
  BY <1>1, <1>2, GateInvariant, PTL DEF GateSpec, Spec

\* The correlated draws of funshade_setup and funshade_share cancel in the exchanged
\* sums of funshade_eval_dist, for vectors of every length.
THEOREM DistancesMasked == GateSpec => []DistanceMasked
<1>1. GateInv => DistanceMasked
  BY DEF GateInv
<1> QED
  BY <1>1, GateInvariant, PTL

\* IC_gen and IC_eval compute membership in the interval, for every width, interval,
\* mask and input: no sum that wraps is left uncorrected.
THEOREM GateIsCorrect == GateSpec => []GateCorrect
<1>1. GateInv => GateCorrect
  BY GateInvCorrect
<1> QED
  BY <1>1, GateInvariant, PTL

\* The two parties learn whether the scalar product reaches the threshold (the sign
\* gate behind funshade_eval_dist), for every width, masks and draws, and for vectors of
\* every length, provided that the difference is a value of R_t.
THEOREM FunshadeIsCorrect == GateSpec => []FunshadeCorrect
<1>1. GateInit => PlainFirst
  BY DEF GateInit, Init, PlainFirst, KeysReady
<1>2. GateInv /\ PlainFirst /\ [GateNext]_<<vars, gateVars>> => PlainFirst'
  BY PlainFirstStep
<1>3. GateInv /\ PlainFirst => FunshadeCorrect
  BY InvFunshadeCorrect
<1> QED
  BY <1>1, <1>2, <1>3, GateInvariant, PTL DEF GateSpec
=============================================================================
