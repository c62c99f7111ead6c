---------------------- MODULE EndpointMatching_proofs ----------------------
(***************************************************************************)
(* For every circuit, number of parties and rounds, buffer size and entry  *)
(* point:                                                                  *)
(*   - the arithmetic of the masked evaluation.  Gate by gate, shares of   *)
(*     masks make up the mask, and values that are plaintext plus mask     *)
(*     give values that are so again.  For the gates the parties talk for, *)
(*     of which a dot product has operand lists of any length, this is by  *)
(*     induction on the partial sums of Dot;                               *)
(*   - the control: Lockstep and NothingLeft.  What p sends q in all its   *)
(*     script is what q reads from p in all of its own (BodiesMatch), and  *)
(*     the stream between them always holds the difference of what the two *)
(*     have done of it (IInv).                                             *)
(***************************************************************************)
EXTENDS EndpointMatching, Circuit_proofs

\* One pair of operands: with plaintexts x1 and x2, masks m1 and m2 of which the parties
\* hold the shares r and d, and masked values v1 and v2, all modulo n.
LEMMA TermCancels ==
    ASSUME NEW n \in Nat \ {0}, NEW x1 \in Int, NEW x2 \in Int, NEW m1 \in Int, NEW m2 \in Int,
           NEW r1 \in Int, NEW r2 \in Int, NEW d1 \in Int, NEW d2 \in Int,
           NEW v1 \in Int, NEW v2 \in Int,
           Cong(n, r1 + d1, m1), Cong(n, r2 + d2, m2),
           Cong(n, v1, x1 + m1), Cong(n, v2, x2 + m2)
    PROVE  Cong(n, m1 * m2 - r1 * v2 - d1 * v2 - v1 * r2 - v1 * d2 + v1 * v2, x1 * x2)
<1> DEFINE A == (r1 + d1) - m1
           B == (r2 + d2) - m2
           C == v1 - (x1 + m1)
           E == v2 - (x2 + m2)
           Left == m1 * m2 - r1 * v2 - d1 * v2 - v1 * r2 - v1 * d2 + v1 * v2
           Sum == ((E * x1 + C * x2) + C * E) - (A * v2 + B * v1)
<1>1. A \in Multiples(n) /\ B \in Multiples(n) /\ C \in Multiples(n) /\ E \in Multiples(n)
  BY DEF Cong
<1>2. A \in Int /\ B \in Int /\ C \in Int /\ E \in Int
  OBVIOUS
<1> HIDE DEF A, B, C, E
<1>3. /\ E * x1 \in Multiples(n) /\ C * x2 \in Multiples(n) /\ C * E \in Multiples(n)
      /\ A * v2 \in Multiples(n) /\ B * v1 \in Multiples(n)
  BY <1>1, <1>2, MultiplesTimes
<1>4. E * x1 + C * x2 \in Multiples(n) /\ A * v2 + B * v1 \in Multiples(n)
  BY <1>3, MultiplesClosed
<1>5. (E * x1 + C * x2) + C * E \in Multiples(n)
  BY <1>3, <1>4, MultiplesClosed
<1>6. Sum \in Multiples(n)
  BY <1>4, <1>5, MultiplesClosed
<1>7. Left - x1 * x2 = Sum
  <2>1. Left = m1 * m2 - (r1 + d1) * v2 - v1 * (r2 + d2) + v1 * v2
    OBVIOUS
  <2>2. r1 + d1 = m1 + A /\ r2 + d2 = m2 + B
    BY DEF A, B
  <2>3. Left = (v1 - m1) * (v2 - m2) - A * v2 - v1 * B
    <3>1. (m1 + A) * v2 = m1 * v2 + A * v2 /\ v1 * (m2 + B) = v1 * m2 + v1 * B
      BY <1>2
    <3>2. (v1 - m1) * (v2 - m2) = v1 * v2 - m1 * v2 - v1 * m2 + m1 * m2
      OBVIOUS
    <3> HIDE DEF Left
    <3> QED
      BY <2>1, <2>2, <3>1, <3>2, <1>2
  <2>4. v1 - m1 = x1 + C /\ v2 - m2 = x2 + E
    BY DEF C, E
  <2>5. (x1 + C) * (x2 + E) = x1 * x2 + E * x1 + C * x2 + C * E /\ v1 * B = B * v1
    BY <1>2
  <2> HIDE DEF Left
  <2> QED
    BY <2>3, <2>4, <2>5, <1>2
<1> QED
  BY <1>6, <1>7 DEF Cong

\* The same for whole dot products, by induction on their partial sums; each party has its
\* own copy of the masked values.
LEMMA DotsCancel ==
    ASSUME NEW n \in Nat \ {0}, NEW g, NEW W, Operands(g, W),
           NEW x, NEW m, NEW r, NEW d, NEW v, NEW u,
           \A k \in W : /\ x[k] \in Int /\ m[k] \in Int /\ r[k] \in Int /\ d[k] \in Int
                        /\ v[k] \in Int /\ u[k] = v[k]
                        /\ Cong(n, r[k] + d[k], m[k]) /\ Cong(n, v[k], x[k] + m[k])
    PROVE  /\ Dot(g, m, m) \in Int /\ Dot(g, r, v) \in Int /\ Dot(g, d, u) \in Int
           /\ Dot(g, v, r) \in Int /\ Dot(g, u, d) \in Int /\ Dot(g, v, v) \in Int
           /\ Dot(g, x, x) \in Int
           /\ Cong(n, Dot(g, m, m) - Dot(g, r, v) - Dot(g, d, u)
                      - Dot(g, v, r) - Dot(g, u, d) + Dot(g, v, v), Dot(g, x, x))
<1> DEFINE N == Len(g.in1)
           MM == DotSums(g, m, m)
           RV == DotSums(g, r, v)
           DV == DotSums(g, d, u)
           VR == DotSums(g, v, r)
           VD == DotSums(g, u, d)
           VV == DotSums(g, v, v)
           XX == DotSums(g, x, x)
           Left(i) == MM[i] - RV[i] - DV[i] - VR[i] - VD[i] + VV[i]
           T == {i \in Nat : i <= N => Cong(n, Left(i), XX[i])}
<1>1. N \in Nat /\ \A i \in 1 .. N : g.in1[i] \in W /\ g.in2[i] \in W
  BY OperandPairs
<1>2. \A i \in 0 .. N : /\ MM[i] \in Int /\ RV[i] \in Int /\ DV[i] \in Int /\ VR[i] \in Int
                        /\ VD[i] \in Int /\ VV[i] \in Int /\ XX[i] \in Int
  BY DotTypes
<1>3. /\ MM[0] = 0 /\ RV[0] = 0 /\ DV[0] = 0 /\ VR[0] = 0 /\ VD[0] = 0 /\ VV[0] = 0 /\ XX[0] = 0
  BY <1>1, DotUnfold
<1>4. ASSUME NEW i \in 1 .. N
      PROVE  LET a == g.in1[i]
                 b == g.in2[i]
             IN  /\ MM[i] = MM[i - 1] + m[a] * m[b]
                 /\ RV[i] = RV[i - 1] + r[a] * v[b]
                 /\ DV[i] = DV[i - 1] + d[a] * v[b]
                 /\ VR[i] = VR[i - 1] + v[a] * r[b]
                 /\ VD[i] = VD[i - 1] + v[a] * d[b]
                 /\ VV[i] = VV[i - 1] + v[a] * v[b]
                 /\ XX[i] = XX[i - 1] + x[a] * x[b]
  <2>0. \A a, b : \A k \in 1 .. N :
            DotSums(g, a, b)[k] = DotSums(g, a, b)[k - 1] + a[g.in1[k]] * b[g.in2[k]]
    BY ONLY <1>1, DotUnfold
  <2> HIDE DEF N
  <2>1. MM[i] = MM[i - 1] + m[g.in1[i]] * m[g.in2[i]]
    BY ONLY <2>0, i \in 1 .. N
  <2>2. RV[i] = RV[i - 1] + r[g.in1[i]] * v[g.in2[i]]
    BY ONLY <2>0, i \in 1 .. N
  <2>3. DV[i] = DV[i - 1] + d[g.in1[i]] * u[g.in2[i]]
    BY ONLY <2>0, i \in 1 .. N
  <2>4. VR[i] = VR[i - 1] + v[g.in1[i]] * r[g.in2[i]]
    BY ONLY <2>0, i \in 1 .. N
  <2>5. VD[i] = VD[i - 1] + u[g.in1[i]] * d[g.in2[i]]
    BY ONLY <2>0, i \in 1 .. N
  <2>6. VV[i] = VV[i - 1] + v[g.in1[i]] * v[g.in2[i]]
    BY ONLY <2>0, i \in 1 .. N
  <2>7. XX[i] = XX[i - 1] + x[g.in1[i]] * x[g.in2[i]]
    BY ONLY <2>0, i \in 1 .. N
  <2>8. u[g.in1[i]] = v[g.in1[i]] /\ u[g.in2[i]] = v[g.in2[i]]
    BY <1>1
  <2> HIDE DEF MM, RV, DV, VR, VD, VV, XX
  <2> QED
    BY <2>1, <2>2, <2>3, <2>4, <2>5, <2>6, <2>7, <2>8
<1> HIDE DEF N, MM, RV, DV, VR, VD, VV, XX
<1>5. 0 \in T
  <2>1. Left(0) - XX[0] = 0
    BY <1>3
  <2>2. Cong(n, Left(0), XX[0])
    BY <2>1, MultiplesClosed DEF Cong
  <2> QED
    BY <2>2
<1>6. ASSUME NEW i \in Nat, i \in T PROVE i + 1 \in T
  <2>1. CASE i + 1 <= N
    <3> DEFINE j == i + 1
               a == g.in1[j]
               b == g.in2[j]
               term == m[a] * m[b] - r[a] * v[b] - d[a] * v[b] - v[a] * r[b] - v[a] * d[b]
                       + v[a] * v[b]
    <3>1. j \in 1 .. N /\ j - 1 = i /\ i \in 0 .. N /\ j \in 0 .. N
      BY <2>1, <1>1
    <3>2. a \in W /\ b \in W
      <4> HIDE DEF j
      <4> QED
        BY ONLY <3>1, <1>1
    <3>3. Cong(n, Left(i), XX[i])
      BY <1>6, <3>1
    <3>4. Cong(n, term, x[a] * x[b])
      <4>1. /\ x[a] \in Int /\ m[a] \in Int /\ r[a] \in Int /\ d[a] \in Int /\ v[a] \in Int
            /\ Cong(n, r[a] + d[a], m[a]) /\ Cong(n, v[a], x[a] + m[a])
        BY <3>2
      <4>2. /\ x[b] \in Int /\ m[b] \in Int /\ r[b] \in Int /\ d[b] \in Int /\ v[b] \in Int
            /\ Cong(n, r[b] + d[b], m[b]) /\ Cong(n, v[b], x[b] + m[b])
        BY <3>2
      <4>3. n \in Nat \ {0}
        OBVIOUS
      <4> HIDE DEF a, b
      <4> QED
        BY ONLY <4>1, <4>2, <4>3, TermCancels
    <3>5. /\ term \in Int /\ x[a] * x[b] \in Int
          /\ m[a] * m[b] \in Int /\ r[a] * v[b] \in Int /\ d[a] * v[b] \in Int
          /\ v[a] * r[b] \in Int /\ v[a] * d[b] \in Int /\ v[a] * v[b] \in Int
      BY <3>2
    <3>6. /\ MM[j] = MM[i] + m[a] * m[b] /\ RV[j] = RV[i] + r[a] * v[b]
          /\ DV[j] = DV[i] + d[a] * v[b] /\ VR[j] = VR[i] + v[a] * r[b]
          /\ VD[j] = VD[i] + v[a] * d[b] /\ VV[j] = VV[i] + v[a] * v[b]
          /\ XX[j] = XX[i] + x[a] * x[b]
      BY <3>1, <1>4
    <3>7. Left(j) - XX[j] = (Left(i) - XX[i]) + (term - x[a] * x[b])
      <4> DEFINE t1 == m[a] * m[b]
                 t2 == r[a] * v[b]
                 t3 == d[a] * v[b]
                 t4 == v[a] * r[b]
                 t5 == v[a] * d[b]
                 t6 == v[a] * v[b]
                 t7 == x[a] * x[b]
      <4>1. /\ t1 \in Int /\ t2 \in Int /\ t3 \in Int /\ t4 \in Int /\ t5 \in Int /\ t6 \in Int
            /\ t7 \in Int /\ term = t1 - t2 - t3 - t4 - t5 + t6
            /\ MM[j] = MM[i] + t1 /\ RV[j] = RV[i] + t2 /\ DV[j] = DV[i] + t3
            /\ VR[j] = VR[i] + t4 /\ VD[j] = VD[i] + t5 /\ VV[j] = VV[i] + t6
            /\ XX[j] = XX[i] + t7
        BY <3>5, <3>6
      <4>2. /\ MM[i] \in Int /\ RV[i] \in Int /\ DV[i] \in Int /\ VR[i] \in Int
            /\ VD[i] \in Int /\ VV[i] \in Int /\ XX[i] \in Int
        BY <3>1, <1>2
      <4> HIDE DEF term, t1, t2, t3, t4, t5, t6, t7, j
      <4>3. Left(j) - XX[j] = (Left(i) - XX[i]) + (term - t7)
        BY <4>1, <4>2
      <4> QED
        BY <4>3 DEF t7
    <3> HIDE DEF term, j, a, b, Left
    <3>8. (Left(i) - XX[i]) + (term - x[a] * x[b]) \in Multiples(n)
      BY <3>3, <3>4, MultiplesClosed DEF Cong
    <3>9. Cong(n, Left(j), XX[j])
      BY <3>7, <3>8 DEF Cong
    <3> QED
      BY <3>9 DEF j
  <2>2. CASE ~(i + 1 <= N)
    BY <2>2
  <2> QED
    BY <2>1, <2>2
<1> HIDE DEF T
<1>7. Nat \subseteq T
  BY <1>5, <1>6, SetInduction
<1>8. Cong(n, Left(N), XX[N])
  BY <1>1, <1>7 DEF T
<1>9. N \in 0 .. N
  BY <1>1
<1> QED
  BY <1>2, <1>8, <1>9 DEF Dot, N, MM, RV, DV, VR, VD, VV, XX

\* Reducing one operand first changes nothing modulo n.
LEMMA ModAbsorbs ==
    ASSUME NEW n \in Nat \ {0}, NEW a \in Int, NEW b \in Int
    PROVE  ((a % n) + b) % n = (a + b) % n
<1> DEFINE c == a % n
<1>1. c \in Int /\ c - a \in Multiples(n)
  <2>1. c \in 0 .. n - 1 /\ Cong(n, c, a)
    BY ModRange
  <2> QED
    BY <2>1 DEF Cong
<1> HIDE DEF c
<1>2. (c + b) - (a + b) = c - a /\ c + b \in Int /\ a + b \in Int
  BY <1>1
<1>3. Cong(n, c + b, a + b)
  BY <1>1, <1>2 DEF Cong
<1>4. (c + b) % n = (a + b) % n
  BY <1>2, <1>3, CongMod
<1> QED
  BY <1>4 DEF c

\* The numbers in the two messages for a product with plaintext value xx: shares rw, dw of
\* its mask mw, shares pr, pd of the product mm of its operands' masks, and the cross products
\* of each party's shares with the masked operands.
MessageParts(rw, dw, mw, pr, pd, mm, rv, du, vr, ud, vv, xx) ==
    /\ rw \in Int /\ dw \in Int /\ mw \in Int /\ pr \in Int /\ pd \in Int /\ mm \in Int
    /\ rv \in Int /\ du \in Int /\ vr \in Int /\ ud \in Int /\ vv \in Int /\ xx \in Int
    /\ Cong(Modulus, rw + dw, mw) /\ Cong(Modulus, pr + pd, mm)
    /\ Cong(Modulus, mm - rv - du - vr - ud + vv, xx)

\* The messages add up to the plaintext value plus the mask.
LEMMA MessagesAdd ==
    ASSUME NEW rw, NEW dw, NEW mw, NEW pr, NEW pd, NEW mm, NEW rv, NEW du, NEW vr, NEW ud,
           NEW vv, NEW xx, MessageParts(rw, dw, mw, pr, pd, mm, rv, du, vr, ud, vv, xx)
    PROVE  (((rw + pr - rv - vr + vv) % Modulus) + ((dw + pd - du - ud + 0) % Modulus)) % Modulus
               = ((xx % Modulus) + mw) % Modulus
<1>0. /\ rw \in Int /\ dw \in Int /\ mw \in Int /\ pr \in Int /\ pd \in Int /\ mm \in Int
      /\ rv \in Int /\ du \in Int /\ vr \in Int /\ ud \in Int /\ vv \in Int /\ xx \in Int
      /\ Cong(Modulus, rw + dw, mw) /\ Cong(Modulus, pr + pd, mm)
      /\ Cong(Modulus, mm - rv - du - vr - ud + vv, xx)
  BY DEF MessageParts
<1> DEFINE A == rw + pr - rv - vr + vv
           B == dw + pd - du - ud + 0
           K == xx + mw
           P == (rw + dw) - mw
           Q == (pr + pd) - mm
           S == (mm - rv - du - vr - ud + vv) - xx
<1>1. Modulus \in Nat \ {0}
  BY ModulusAssumption
<1>2. A \in Int /\ B \in Int /\ K \in Int
  BY ONLY <1>0
<1>3. (A + B) - K = (P + Q) + S
  BY ONLY <1>0
<1>4. P \in Multiples(Modulus) /\ Q \in Multiples(Modulus) /\ S \in Multiples(Modulus)
  BY <1>0 DEF Cong
<1>5. ((xx % Modulus) + mw) % Modulus = K % Modulus
  BY <1>0, <1>1, ModAbsorbs
<1> HIDE DEF A, B, K, P, Q, S
<1>6. (P + Q) + S \in Multiples(Modulus)
  BY <1>1, <1>4, MultiplesClosed
<1>7. Cong(Modulus, A + B, K)
  BY <1>3, <1>6 DEF Cong
<1>8. ((A % Modulus) + (B % Modulus)) % Modulus = K % Modulus
  BY ONLY <1>1, <1>2, <1>7, SumMod
<1>9. ((A % Modulus) + (B % Modulus)) % Modulus = ((xx % Modulus) + mw) % Modulus
  BY ONLY <1>5, <1>8, Zenon
<1> QED
  BY ONLY <1>9, Zenon DEF A, B
-----------------------------------------------------------------------------
\* When rider r and driver d of a multiplication or dot product w hold shares of its
\* operands' masks, of its own mask and of the product of masks that add up at the SP, and
\* the same masked operands, then the two messages of evaluateGatesAtDepthPartySend add up,
\* in evaluateGatesAtDepthPartyRecv, to the gate's plaintext value plus its mask: for every
\* modulus and operand lists of any length.
THEOREM ProductsMasked ==
    ASSUME NEW w \in Products, NEW W \in SUBSET Wires, Operands(Gate(w), W),
           NEW r, NEW d, r = Gate(w).rider_id, d = Gate(w).driver_id, r # d,
           \A k \in W : Gate(k).rider_id = r /\ Gate(k).driver_id = d,
           MasksAgree, pre[0] # <<>>, pre[r] # <<>>, pre[d] # <<>>,
           \A k \in W \cup {w} : /\ pre[0].mask[k] \in Int
                                 /\ pre[r].mask[k] \in Int /\ pre[d].mask[k] \in Int,
           pre[r].prod[w] \in Int, pre[d].prod[w] \in Int,
           NEW x, \A k \in W : /\ x[k] \in Int
                               /\ wires[r][k] = (x[k] + pre[0].mask[k]) % Modulus
                               /\ wires[d][k] = (x[k] + pre[0].mask[k]) % Modulus
    PROVE  (QShare(r, w) + QShare(d, w)) % Modulus
               = (GateValue(Gate(w), w, x, inputs) + pre[0].mask[w]) % Modulus
<1> DEFINE g == Gate(w)
           m == pre[0].mask
           R == pre[r].mask
           D == pre[d].mask
           v == wires[r]
           u == wires[d]
           pr == pre[r].prod[w]
           pd == pre[d].prod[w]
           XX == Dot(g, x, x)
<1>1. Modulus \in Nat \ {0}
  BY ModulusAssumption
<1>2. w \in Wires /\ g.type \in Communicating
  BY DEF Products
<1>3. \A k \in W \cup {w} : (R[k] + D[k]) % Modulus = m[k]
  BY <1>2 DEF MasksAgree
<1>4. (pr + pd - Dot(g, m, m)) % Modulus = 0
  BY <1>2 DEF MasksAgree
<1>5. \A k \in W \cup {w} : Cong(Modulus, R[k] + D[k], m[k])
  <2> SUFFICES ASSUME NEW k \in W \cup {w} PROVE Cong(Modulus, R[k] + D[k], m[k])
    OBVIOUS
  <2>1. R[k] + D[k] \in Int
    OBVIOUS
  <2>2. Cong(Modulus, R[k] + D[k], (R[k] + D[k]) % Modulus)
    BY <1>1, <2>1, ModRange
  <2> QED
    BY <1>3, <2>2
<1>6. \A k \in W : /\ v[k] \in Int /\ u[k] = v[k] /\ Cong(Modulus, v[k], x[k] + m[k])
  <2> SUFFICES ASSUME NEW k \in W
               PROVE  v[k] \in Int /\ u[k] = v[k] /\ Cong(Modulus, v[k], x[k] + m[k])
    OBVIOUS
  <2>1. x[k] + m[k] \in Int
    OBVIOUS
  <2>2. /\ (x[k] + m[k]) % Modulus \in 0 .. Modulus - 1
        /\ Cong(Modulus, (x[k] + m[k]) % Modulus, x[k] + m[k])
    BY <1>1, <2>1, ModRange
  <2> QED
    BY <1>1, <2>2
<1>7. /\ Dot(g, m, m) \in Int /\ Dot(g, R, v) \in Int /\ Dot(g, D, u) \in Int
      /\ Dot(g, v, R) \in Int /\ Dot(g, u, D) \in Int /\ Dot(g, v, v) \in Int
      /\ XX \in Int
      /\ Cong(Modulus, Dot(g, m, m) - Dot(g, R, v) - Dot(g, D, u)
                         - Dot(g, v, R) - Dot(g, u, D) + Dot(g, v, v), XX)
  <2>1. \A k \in W : /\ x[k] \in Int /\ m[k] \in Int /\ R[k] \in Int /\ D[k] \in Int
                     /\ v[k] \in Int /\ u[k] = v[k]
                     /\ Cong(Modulus, R[k] + D[k], m[k]) /\ Cong(Modulus, v[k], x[k] + m[k])
    BY <1>5, <1>6
  <2>2. Operands(g, W)
    OBVIOUS
  <2> HIDE DEF g, m, R, D, v, u
  <2> QED
    BY <1>1, <2>1, <2>2, DotsCancel
<1>8. /\ R[w] \in Int /\ D[w] \in Int /\ m[w] \in Int /\ pr \in Int /\ pd \in Int
      /\ Cong(Modulus, R[w] + D[w], m[w])
  BY <1>5
<1>9. /\ QShare(r, w) = (R[w] + pr - Dot(g, R, v) - Dot(g, v, R) + Dot(g, v, v)) % Modulus
      /\ QShare(d, w) = (D[w] + pd - Dot(g, D, u) - Dot(g, u, D) + 0) % Modulus
  BY DEF QShare
<1>10. GateValue(g, w, x, inputs) = XX % Modulus
  BY <1>2 DEF GateValue, Communicating
<1> HIDE DEF g, m, R, D, v, u, pr, pd, XX
<1>11. Cong(Modulus, pr + pd, Dot(g, m, m))
  <2> DEFINE q == pr + pd - Dot(g, m, m)
  <2>1. q \in Int
    BY <1>7, <1>8
  <2>2. Cong(Modulus, q, q % Modulus)
    BY <1>1, <2>1, ModRange
  <2>3. q % Modulus = 0
    BY <1>4 DEF g, m, pr, pd
  <2>4. q - 0 = (pr + pd) - Dot(g, m, m)
    BY <1>7, <1>8
  <2> QED
    BY <2>2, <2>3, <2>4 DEF Cong
<1>12. (((R[w] + pr - Dot(g, R, v) - Dot(g, v, R) + Dot(g, v, v)) % Modulus)
          + ((D[w] + pd - Dot(g, D, u) - Dot(g, u, D) + 0) % Modulus)) % Modulus
           = ((XX % Modulus) + m[w]) % Modulus
  <2> DEFINE mm == Dot(g, m, m)
             rv == Dot(g, R, v)
             du == Dot(g, D, u)
             vr == Dot(g, v, R)
             ud == Dot(g, u, D)
             vv == Dot(g, v, v)
             rw == R[w]
             dw == D[w]
             mw == m[w]
  <2>1. /\ rw \in Int /\ dw \in Int /\ mw \in Int /\ pr \in Int /\ pd \in Int
        /\ mm \in Int /\ rv \in Int /\ du \in Int /\ vr \in Int /\ ud \in Int
        /\ vv \in Int /\ XX \in Int
    BY <1>7, <1>8
  <2>2. /\ Cong(Modulus, rw + dw, mw) /\ Cong(Modulus, pr + pd, mm)
        /\ Cong(Modulus, mm - rv - du - vr - ud + vv, XX)
    BY <1>7, <1>8, <1>11
  <2> HIDE DEF mm, rv, du, vr, ud, vv, rw, dw, mw
  <2>3. (((rw + pr - rv - vr + vv) % Modulus) + ((dw + pd - du - ud + 0) % Modulus)) % Modulus
            = ((XX % Modulus) + mw) % Modulus
    <3>1. MessageParts(rw, dw, mw, pr, pd, mm, rv, du, vr, ud, vv, XX)
      BY ONLY <2>1, <2>2 DEF MessageParts
    <3> QED
      BY ONLY <3>1, MessagesAdd
  <2> QED
    BY <2>3 DEF mm, rv, du, vr, ud, vv, rw, dw, mw
<1>13. (QShare(r, w) + QShare(d, w)) % Modulus = (GateValue(g, w, x, inputs) + m[w]) % Modulus
  BY <1>9, <1>10, <1>12, Zenon
<1> QED
  BY <1>13 DEF g, m
-----------------------------------------------------------------------------
LinearTypes == {"kAdd", "kSub", "kConstAdd", "kConstMul"}

\* What a linear gate does to numbers on its operand wires, up to a constant.
LinearForm(g, a) ==
    CASE g.type = "kAdd"      -> a[g.in1[1]] + a[g.in2[1]]
      [] g.type = "kSub"      -> a[g.in1[1]] - a[g.in2[1]]
      [] g.type = "kConstAdd" -> a[g.in1[1]]
      [] g.type = "kConstMul" -> a[g.in1[1]] * g.cval
ConstTerm(g) == IF g.type = "kConstAdd" THEN g.cval ELSE 0

\* The gate g is linear and its operands are wires of W.
LinearOn(g, W) ==
    /\ g.type \in LinearTypes /\ g.cval \in Int
    /\ g.in1[1] \in W /\ (g.type \in {"kAdd", "kSub"} => g.in2[1] \in W)

\* The mask of a linear gate, by its type.
LEMMA LinearUnfold ==
    ASSUME NEW g, g.type \in LinearTypes, NEW a, NEW w, NEW inp
    PROVE  /\ LinearMask(g, a) = LinearForm(g, a) % Modulus
           /\ GateValue(g, w, a, inp) =
                 (IF g.type = "kConstAdd" THEN LinearForm(g, a) + g.cval ELSE LinearForm(g, a))
                     % Modulus
<1>1. CASE g.type = "kAdd"
  BY <1>1, Zenon DEF LinearMask, LinearForm, GateValue, Communicating
<1>2. CASE g.type = "kSub"
  BY <1>2, Zenon DEF LinearMask, LinearForm, GateValue, Communicating
<1>3. CASE g.type = "kConstAdd"
  BY <1>3, Zenon DEF LinearMask, LinearForm, GateValue, Communicating
<1>4. CASE g.type = "kConstMul"
  BY <1>4, Zenon DEF LinearMask, LinearForm, GateValue, Communicating
<1> QED
  BY <1>1, <1>2, <1>3, <1>4 DEF LinearTypes

\* Linear forms respect sums modulo n.
LEMMA LinearAdds ==
    ASSUME NEW n \in Nat \ {0}, NEW g, NEW W, LinearOn(g, W), NEW a, NEW b, NEW c,
           \A k \in W : a[k] \in Int /\ b[k] \in Int /\ c[k] \in Int /\ Cong(n, a[k] + b[k], c[k])
    PROVE  /\ LinearForm(g, a) \in Int /\ LinearForm(g, b) \in Int /\ LinearForm(g, c) \in Int
           /\ Cong(n, LinearForm(g, a) + LinearForm(g, b), LinearForm(g, c))
<1> DEFINE i == g.in1[1]
           j == g.in2[1]
           E(k) == (a[k] + b[k]) - c[k]
<1>1. /\ a[i] \in Int /\ b[i] \in Int /\ c[i] \in Int
      /\ E(i) \in Multiples(n)
  BY DEF LinearOn, Cong
<1>2. CASE g.type \in {"kAdd", "kSub"}
  <2>1. /\ a[j] \in Int /\ b[j] \in Int /\ c[j] \in Int
        /\ E(j) \in Multiples(n)
    BY <1>2 DEF LinearOn, Cong
  <2>2. E(i) + E(j) \in Multiples(n) /\ E(i) - E(j) \in Multiples(n)
    BY <1>1, <2>1, MultiplesClosed
  <2>3. CASE g.type = "kAdd"
    <3>1. /\ LinearForm(g, a) = a[i] + a[j] /\ LinearForm(g, b) = b[i] + b[j]
          /\ LinearForm(g, c) = c[i] + c[j]
      BY <2>3 DEF LinearForm
    <3>2. ((a[i] + a[j]) + (b[i] + b[j])) - (c[i] + c[j]) = E(i) + E(j)
      BY <1>1, <2>1
    <3> QED
      BY <1>1, <2>1, <2>2, <3>1, <3>2 DEF Cong
  <2>4. CASE g.type = "kSub"
    <3>1. /\ LinearForm(g, a) = a[i] - a[j] /\ LinearForm(g, b) = b[i] - b[j]
          /\ LinearForm(g, c) = c[i] - c[j]
      BY <2>4 DEF LinearForm
    <3>2. ((a[i] - a[j]) + (b[i] - b[j])) - (c[i] - c[j]) = E(i) - E(j)
      BY <1>1, <2>1
    <3> QED
      BY <1>1, <2>1, <2>2, <3>1, <3>2 DEF Cong
  <2> QED
    BY <1>2, <2>3, <2>4
<1>3. CASE g.type = "kConstAdd"
  <2>1. /\ LinearForm(g, a) = a[i] /\ LinearForm(g, b) = b[i] /\ LinearForm(g, c) = c[i]
    BY <1>3 DEF LinearForm
  <2> QED
    BY <1>1, <2>1 DEF Cong
<1>4. CASE g.type = "kConstMul"
  <2>1. /\ LinearForm(g, a) = a[i] * g.cval /\ LinearForm(g, b) = b[i] * g.cval
        /\ LinearForm(g, c) = c[i] * g.cval
    BY <1>4 DEF LinearForm
  <2>2. g.cval \in Int
    BY DEF LinearOn
  <2>3. E(i) * g.cval \in Multiples(n)
    BY <1>1, <2>2, MultiplesTimes
  <2>4. (a[i] * g.cval + b[i] * g.cval) - c[i] * g.cval = E(i) * g.cval
    BY <1>1, <2>2
  <2> QED
    BY <1>1, <2>1, <2>2, <2>3, <2>4 DEF Cong
<1> QED
  BY <1>2, <1>3, <1>4 DEF LinearOn, LinearTypes

\* setWireMasksParty walks the linear gates over each party's shares alone and keeps nothing
\* for them at the SP: if the shares of a gate's operands add up to the operands' masks, the
\* shares it computes add up to the mask it computes from the masks.
THEOREM SharesOfLinear ==
    ASSUME NEW g, NEW W, LinearOn(g, W), NEW m, NEW s, NEW t,
           \A k \in W : /\ m[k] \in Int /\ s[k] \in Int /\ t[k] \in Int
                        /\ Cong(Modulus, s[k] + t[k], m[k])
    PROVE  (LinearMask(g, s) + LinearMask(g, t)) % Modulus = LinearMask(g, m)
<1>1. Modulus \in Nat \ {0} /\ g.type \in LinearTypes
  BY ModulusAssumption DEF LinearOn
<1> DEFINE S == LinearForm(g, s)
           T == LinearForm(g, t)
           M == LinearForm(g, m)
<1>2. S \in Int /\ T \in Int /\ M \in Int /\ Cong(Modulus, S + T, M)
  BY <1>1, LinearAdds
<1>3. LinearMask(g, s) = S % Modulus /\ LinearMask(g, t) = T % Modulus
      /\ LinearMask(g, m) = M % Modulus
  BY <1>1, LinearUnfold
<1> HIDE DEF S, T, M
<1>4. ((S % Modulus) + (T % Modulus)) % Modulus = M % Modulus
  BY ONLY <1>1, <1>2, SumMod
<1> QED
  BY <1>3, <1>4

\* evaluateGatesAtDepthPartyRecv evaluates a linear gate on masked values as on plain ones,
\* adding a constant included: if the operands are plaintexts plus masks, the result is the
\* gate's plaintext value plus the mask setWireMasksParty gives it.
THEOREM LinearMasked ==
    ASSUME NEW g, NEW W, LinearOn(g, W), NEW w, NEW inp, NEW x, NEW m, NEW v,
           \A k \in W : x[k] \in Int /\ m[k] \in Int /\ v[k] = (x[k] + m[k]) % Modulus
    PROVE  GateValue(g, w, v, inp)
               = (GateValue(g, w, x, inp) + LinearMask(g, m)) % Modulus
<1>1. Modulus \in Nat \ {0} /\ g.type \in LinearTypes /\ g.cval \in Int
  BY ModulusAssumption DEF LinearOn
<1>2. \A k \in W : /\ x[k] \in Int /\ m[k] \in Int /\ v[k] \in Int
                   /\ Cong(Modulus, x[k] + m[k], v[k])
  <2> SUFFICES ASSUME NEW k \in W PROVE v[k] \in Int /\ Cong(Modulus, x[k] + m[k], v[k])
    OBVIOUS
  <2>1. x[k] + m[k] \in Int
    OBVIOUS
  <2>2. /\ (x[k] + m[k]) % Modulus \in 0 .. Modulus - 1
        /\ Cong(Modulus, x[k] + m[k], (x[k] + m[k]) % Modulus)
    BY <1>1, <2>1, ModRange
  <2> QED
    BY <1>1, <2>2
<1> DEFINE X == LinearForm(g, x)
           M == LinearForm(g, m)
           V == LinearForm(g, v)
           C == ConstTerm(g)
           Xc == X + C
           Vc == V + C
<1>3. X \in Int /\ M \in Int /\ V \in Int /\ Cong(Modulus, X + M, V)
  BY <1>1, <1>2, LinearAdds
<1>4. C \in Int
  BY <1>1 DEF ConstTerm
<1>5. /\ LinearMask(g, m) = M % Modulus
      /\ GateValue(g, w, x, inp) =
            (IF g.type = "kConstAdd" THEN X + g.cval ELSE X) % Modulus
      /\ GateValue(g, w, v, inp) =
            (IF g.type = "kConstAdd" THEN V + g.cval ELSE V) % Modulus
  BY <1>1, LinearUnfold
<1> HIDE DEF X, M, V
<1>6. /\ (IF g.type = "kConstAdd" THEN X + g.cval ELSE X) = Xc
      /\ (IF g.type = "kConstAdd" THEN V + g.cval ELSE V) = Vc
  BY <1>3 DEF ConstTerm
<1> HIDE DEF C
<1>7. (Xc + M) - Vc = (X + M) - V /\ Xc \in Int /\ Vc \in Int
  BY <1>3, <1>4
<1>8. Cong(Modulus, Xc + M, Vc)
  BY <1>3, <1>7 DEF Cong
<1> HIDE DEF Xc, Vc
<1>9. ((Xc % Modulus) + (M % Modulus)) % Modulus = Vc % Modulus
  <2>1. Modulus \in Nat \ {0} /\ Xc \in Int /\ M \in Int /\ Vc \in Int /\ Cong(Modulus, Xc + M, Vc)
    BY <1>1, <1>3, <1>7, <1>8
  <2> QED
    BY ONLY <2>1, SumMod
<1> QED
  BY <1>5, <1>6, <1>9
-----------------------------------------------------------------------------
(***************************************************************************)
(* Sequences, with their constructors behind names of their own so that    *)
(* the provers see an algebra of four operators and no indexes.            *)
(***************************************************************************)
Nil == <<>>
One(x) == <<x>>
Push(s, x) == Append(s, x)
Cat(s, t) == s \o t

\* The empty sequence is one over any set, and the only one of length 0.
LEMMA NilType ==
    ASSUME NEW X
    PROVE  Nil \in Seq(X) /\ Len(Nil) = 0 /\ \A s \in Seq(X) : Len(s) = 0 => s = Nil
BY EmptySeq DEF Nil

\* Joined sequences: type and length.
LEMMA CatType ==
    ASSUME NEW X, NEW s \in Seq(X), NEW t \in Seq(X)
    PROVE  Cat(s, t) \in Seq(X) /\ Len(Cat(s, t)) = Len(s) + Len(t)
BY ConcatProperties DEF Cat

\* Nothing joined on either side changes nothing.
LEMMA CatNil ==
    ASSUME NEW X, NEW s \in Seq(X)
    PROVE  Cat(s, Nil) = s /\ Cat(Nil, s) = s
BY ConcatEmptySeq DEF Nil, Cat

\* Joining is associative.
LEMMA CatAssociative ==
    ASSUME NEW X, NEW s \in Seq(X), NEW t \in Seq(X), NEW u \in Seq(X)
    PROVE  Cat(Cat(s, t), u) = Cat(s, Cat(t, u))
BY ONLY s \in Seq(X), t \in Seq(X), u \in Seq(X), SeqAssociative DEF Cat

\* What follows the same beginning is the same.
LEMMA CatCancel ==
    ASSUME NEW X, NEW s \in Seq(X), NEW t \in Seq(X), NEW u \in Seq(X), Cat(s, t) = Cat(s, u)
    PROVE  t = u
BY ONLY s \in Seq(X), t \in Seq(X), u \in Seq(X), Cat(s, t) = Cat(s, u), ConcatSimplifications DEF Cat

\* One element more: type, length and elements.
LEMMA PushType ==
    ASSUME NEW X, NEW s \in Seq(X), NEW x \in X
    PROVE  /\ Push(s, x) \in Seq(X) /\ Len(Push(s, x)) = Len(s) + 1
           /\ Push(s, x)[Len(s) + 1] = x /\ \A i \in 1 .. Len(s) : Push(s, x)[i] = s[i]
BY AppendProperties DEF Push

\* The elements of s, in the same places, begin t.
Begins(s, t) == \A i \in 1 .. Len(s) : t[i] = s[i]

\* Pushing keeps what there was.
LEMMA PushKeeps ==
    ASSUME NEW X, NEW s \in Seq(X), NEW x \in X
    PROVE  Begins(s, Push(s, x))
BY PushType DEF Begins

\* Pushing onto a joined sequence is pushing onto its second part.
LEMMA PushCat ==
    ASSUME NEW X, NEW s \in Seq(X), NEW x \in X
    PROVE  Push(s, x) = Cat(s, One(x)) /\ One(x) \in Seq(X)
<1>1. Append(s, x) = s \o <<x>> /\ <<x>> \in Seq(X)
  BY AppendIsConcat
<1> QED
  BY <1>1 DEF Push, Cat, One

\* A sequence of one element.
LEMMA OneType ==
    ASSUME NEW X, NEW x \in X
    PROVE  One(x) \in Seq(X)
BY DEF One

\* Joining one element is pushing it.
LEMMA CatPush ==
    ASSUME NEW X, NEW s \in Seq(X), NEW t \in Seq(X), NEW x \in X
    PROVE  Cat(s, Push(t, x)) = Push(Cat(s, t), x)
<1>1. /\ Push(t, x) = Cat(t, One(x)) /\ One(x) \in Seq(X)
      /\ Cat(s, t) \in Seq(X)
  BY PushCat, CatType
<1>2. Push(Cat(s, t), x) = Cat(Cat(s, t), One(x))
  BY <1>1, PushCat
<1> QED
  BY <1>1, <1>2, CatAssociative

\* The first element pushed.
LEMMA PushNil ==
    ASSUME NEW X, NEW x \in X
    PROVE  Push(Nil, x) = One(x)
<1>1. Nil \in Seq(X) /\ One(x) \in Seq(X) /\ Push(Nil, x) = Cat(Nil, One(x))
  BY NilType, PushCat
<1> QED
  BY <1>1, CatNil

\* Induction over sequences, with a set in the place of the property.
LEMMA PushInduction ==
    ASSUME NEW X, NEW T, Nil \in T, \A s \in Seq(X), x \in X : s \in T => Push(s, x) \in T
    PROVE  Seq(X) \subseteq T
<1> DEFINE N == {n \in Nat : \A s \in Seq(X) : Len(s) = n => s \in T}
<1>1. 0 \in N
  BY NilType
<1>2. ASSUME NEW n \in Nat, n \in N
      PROVE  n + 1 \in N
  <2> SUFFICES ASSUME NEW s \in Seq(X), Len(s) = n + 1
               PROVE  s \in T
    OBVIOUS
  <2>1. s # <<>>
    BY EmptySeq
  <2>2. PICK t \in Seq(X), x \in X : s = Append(t, x)
    BY <2>1, SequenceEmptyOrAppend
  <2>3. Len(t) = n
    <3>1. Len(s) = Len(t) + 1 /\ Len(t) \in Nat
      BY <2>2, AppendProperties
    <3> QED
      BY <3>1
  <2> QED
    BY <1>2, <2>2, <2>3 DEF Push
<1> HIDE DEF N
<1>3. Nat \subseteq N
  BY <1>1, <1>2, SetInduction
<1>4. ASSUME NEW s \in Seq(X) PROVE s \in T
  <2>1. Len(s) \in N
    BY <1>3
  <2> QED
    BY <2>1 DEF N
<1> QED
  BY <1>4

\* FlattenSeq of one sequence more.
LEMMA FlattenPush ==
    ASSUME NEW U, NEW ss \in Seq(Seq(U)), NEW s \in Seq(U)
    PROVE  FlattenSeq(Push(ss, s)) = Cat(FlattenSeq(ss), s)
<1> DEFINE N == Len(ss)
           tt == Push(ss, s)
           V == Seq(U)
<1>1. /\ N \in Nat /\ tt \in Seq(V) /\ Len(tt) = N + 1 /\ tt[N + 1] = s
      /\ \A i \in 1 .. N : tt[i] = ss[i]
  <2>1. ss \in Seq(V) /\ s \in V
    OBVIOUS
  <2> HIDE DEF V
  <2>2. N \in Nat
    BY <2>1
  <2> QED
    BY <2>1, <2>2, PushType
<1> HIDE DEF tt
<1>2. PICK f : Joins(U, ss, f)
  BY FlattenUnfold
<1>3. PICK g : Joins(U, tt, g)
  BY <1>1, FlattenUnfold
<1>4. /\ f[0] = <<>> /\ FlattenSeq(ss) = f[N] /\ \A n \in 1 .. N : f[n] = f[n - 1] \o ss[n]
      /\ g[0] = <<>> /\ FlattenSeq(tt) = g[N + 1]
      /\ \A n \in 1 .. N + 1 : g[n] = g[n - 1] \o tt[n]
  BY <1>1, <1>2, <1>3 DEF Joins
<1> DEFINE T == {n \in Nat : n <= N => f[n] = g[n]}
<1>5. 0 \in T
  BY <1>4
<1>6. ASSUME NEW n \in Nat, n \in T
      PROVE  n + 1 \in T
  <2> SUFFICES ASSUME n + 1 <= N PROVE f[n + 1] = g[n + 1]
    OBVIOUS
  <2> HIDE DEF N
  <2>1. n + 1 \in 1 .. N /\ n + 1 \in 1 .. N + 1 /\ (n + 1) - 1 = n /\ n <= N
    BY <1>1
  <2>2. f[n] = g[n]
    BY <1>6, <2>1
  <2>3. f[n + 1] = f[n] \o ss[n + 1] /\ g[n + 1] = g[n] \o tt[n + 1]
    BY <1>4, <2>1
  <2> QED
    BY <1>1, <2>1, <2>2, <2>3
<1> HIDE DEF T
<1>7. Nat \subseteq T
  BY <1>5, <1>6, SetInduction
<1>8. f[N] = g[N]
  BY <1>1, <1>7 DEF T
<1>9. g[N + 1] = g[N] \o s
  <2> HIDE DEF N
  <2>1. N + 1 \in 1 .. N + 1 /\ (N + 1) - 1 = N
    BY <1>1
  <2> QED
    BY <1>1, <1>4, <2>1
<1> QED
  BY <1>4, <1>8, <1>9 DEF tt, Cat
-----------------------------------------------------------------------------
(***************************************************************************)
(* Each: the parts F[x], for the elements x of a sequence, joined.         *)
(***************************************************************************)
Table(F, X, U) == \A x \in X : F[x] \in Seq(U)
Parts(s, F) == [i \in DOMAIN s |-> F[s[i]]]

\* The parts that Each joins: type and length.
LEMMA PartsOf ==
    ASSUME NEW X, NEW U, NEW F, Table(F, X, U), NEW s \in Seq(X)
    PROVE  /\ Parts(s, F) \in Seq(Seq(U)) /\ Len(Parts(s, F)) = Len(s)
           /\ \A i \in 1 .. Len(s) : Parts(s, F)[i] = F[s[i]]
<1> DEFINE a == Parts(s, F)
<1>1. DOMAIN s = 1 .. Len(s) /\ Len(s) \in Nat /\ \A i \in 1 .. Len(s) : s[i] \in X
  BY LenProperties, ElementOfSeq
<1>2. \A i \in 1 .. Len(s) : F[s[i]] \in Seq(U)
  BY <1>1 DEF Table
<1>3. a \in [1 .. Len(s) -> Seq(U)]
  BY <1>1, <1>2 DEF Parts
<1>4. \A i \in 1 .. Len(s) : a[i] = F[s[i]]
  BY <1>1 DEF Parts
<1> HIDE DEF a
<1>5. a \in Seq(Seq(U)) /\ Len(a) = Len(s)
  BY <1>1, <1>3, IsASeq
<1> QED
  BY <1>4, <1>5 DEF a

\* As many parts as elements.
LEMMA PartsLength ==
    ASSUME NEW X, NEW U, NEW F, Table(F, X, U), NEW s \in Seq(X)
    PROVE  Len(Parts(s, F)) = Len(s)
BY PartsOf

\* Each joins the parts.
LEMMA EachParts ==
    ASSUME NEW s, NEW F PROVE Each(s, F) = FlattenSeq(Parts(s, F))
BY DEF Each, Parts

\* No elements, nothing to join.
LEMMA EachNil ==
    ASSUME NEW F
    PROVE  Each(Nil, F) = Nil
<1> DEFINE U == {}
           E == {}
           a == Parts(Nil, F)
           V == Seq(U)
<1>1. Nil \in Seq(E) /\ Len(Nil) = 0 /\ Table(F, E, U)
  BY NilType DEF Table
<1>2. a = Nil
  <2>1. a \in Seq(V) /\ Len(a) = 0
    <3> HIDE DEF U, E
    <3> DEFINE e == Nil
    <3>1. e \in Seq(E) /\ Table(F, E, U) /\ Len(e) = 0
      BY <1>1
    <3> HIDE DEF e
    <3>2. Parts(e, F) \in Seq(Seq(U))
      BY <3>1, PartsOf
    <3>3. Len(Parts(e, F)) = Len(e)
      BY <3>1, PartsLength
    <3> QED
      BY <3>1, <3>2, <3>3 DEF e
  <2> QED
    BY <2>1, NilType
<1>3. Nil \in Seq(Seq(U))
  BY NilType
<1>4. PICK f : Joins(U, Nil, f)
  BY <1>3, FlattenUnfold
<1>5. FlattenSeq(Nil) = Nil
  BY <1>1, <1>4 DEF Joins, Nil
<1> QED
  BY <1>2, <1>5, EachParts

\* What Each yields is a sequence over what its parts are over.
LEMMA EachType ==
    ASSUME NEW X, NEW U, NEW F, Table(F, X, U), NEW s \in Seq(X)
    PROVE  Each(s, F) \in Seq(U)
<1>1. Parts(s, F) \in Seq(Seq(U))
  BY PartsOf
<1> QED
  BY <1>1, FlattenProperties, EachParts

\* One element more, one part more.
LEMMA EachPush ==
    ASSUME NEW X, NEW U, NEW F, Table(F, X, U), NEW s \in Seq(X), NEW x \in X
    PROVE  /\ Each(Push(s, x), F) = Cat(Each(s, F), F[x])
           /\ Push(s, x) \in Seq(X) /\ Each(s, F) \in Seq(U) /\ F[x] \in Seq(U)
<1> DEFINE n == Len(s)
           t == Push(s, x)
           a == Push(Parts(s, F), F[x])
           b == Parts(t, F)
<1>1. F[x] \in Seq(U)
  BY DEF Table
<1>2. /\ n \in Nat /\ t \in Seq(X) /\ Len(t) = n + 1 /\ t[n + 1] = x
      /\ \A i \in 1 .. n : t[i] = s[i]
  <2>1. n \in Nat
    OBVIOUS
  <2> QED
    BY <2>1, PushType
<1> HIDE DEF t
<1>3. /\ Parts(s, F) \in Seq(Seq(U)) /\ Len(Parts(s, F)) = n
      /\ \A i \in 1 .. n : Parts(s, F)[i] = F[s[i]]
  BY PartsOf
<1>4. /\ b \in Seq(Seq(U)) /\ Len(b) = n + 1 /\ \A i \in 1 .. n + 1 : b[i] = F[t[i]]
  <2>1. b \in Seq(Seq(U)) /\ Len(b) = Len(t) /\ \A i \in 1 .. Len(t) : b[i] = F[t[i]]
    BY <1>2, PartsOf
  <2> QED
    BY <1>2, <2>1
<1> HIDE DEF b, n
<1>5. /\ a \in Seq(Seq(U)) /\ Len(a) = n + 1 /\ a[n + 1] = F[x]
      /\ \A i \in 1 .. n : a[i] = F[s[i]]
  <2> DEFINE V == Seq(U)
             c == Parts(s, F)
             y == F[x]
  <2>1. c \in Seq(V) /\ y \in V /\ Len(c) = n /\ \A i \in 1 .. n : c[i] = F[s[i]]
    BY <1>1, <1>3
  <2> HIDE DEF V, c, y
  <2>2. /\ Push(c, y) \in Seq(V) /\ Len(Push(c, y)) = Len(c) + 1 /\ Push(c, y)[Len(c) + 1] = y
        /\ \A i \in 1 .. Len(c) : Push(c, y)[i] = c[i]
    <3>1. c \in Seq(V) /\ y \in V
      BY <2>1
    <3>2. Push(c, y) \in Seq(V)
      BY <3>1, PushType
    <3>3. Len(Push(c, y)) = Len(c) + 1
      BY <3>1, PushType
    <3>4. Push(c, y)[Len(c) + 1] = y
      BY <3>1, PushType
    <3>5. \A i \in 1 .. Len(c) : Push(c, y)[i] = c[i]
      BY <3>1, PushType
    <3> QED
      BY <3>2, <3>3, <3>4, <3>5
  <2> QED
    BY <2>1, <2>2 DEF V, c, y
<1> HIDE DEF a
<1>6. ASSUME NEW i \in 1 .. n + 1
      PROVE  a[i] = b[i]
  <2>1. i \in 1 .. n \/ i = n + 1
    BY <1>2
  <2>2. b[i] = F[t[i]]
    BY <1>4
  <2>3. CASE i \in 1 .. n
    BY <1>2, <1>5, <2>2, <2>3
  <2>4. CASE i = n + 1
    BY <1>2, <1>5, <2>2, <2>4
  <2> QED
    BY <2>1, <2>3, <2>4
<1>7. a = b
  BY <1>4, <1>5, <1>6, SeqEqual
<1>8. FlattenSeq(a) = Cat(FlattenSeq(Parts(s, F)), F[x])
  BY <1>1, <1>3, FlattenPush DEF a
<1>9. Each(s, F) \in Seq(U)
  BY EachType
<1> QED
  BY <1>1, <1>2, <1>7, <1>8, <1>9, EachParts DEF b, t

\* Each of one element.
LEMMA EachOne ==
    ASSUME NEW U, NEW F, NEW x, F[x] \in Seq(U)
    PROVE  Each(One(x), F) = F[x]
<1>1. Table(F, {x}, U) /\ x \in {x} /\ Nil \in Seq({x})
  BY NilType DEF Table
<1>2. Each(Push(Nil, x), F) = Cat(Each(Nil, F), F[x])
  BY <1>1, EachPush
<1> QED
  BY <1>1, <1>2, EachNil, CatNil, PushNil

\* Each of joined sequences.
LEMMA EachCat ==
    ASSUME NEW X, NEW U, NEW F, Table(F, X, U), NEW s \in Seq(X), NEW t \in Seq(X)
    PROVE  Each(Cat(s, t), F) = Cat(Each(s, F), Each(t, F))
<1> DEFINE T == {u \in Seq(X) : Each(Cat(s, u), F) = Cat(Each(s, F), Each(u, F))}
<1>0. \A u : u \in T <=> u \in Seq(X) /\ Each(Cat(s, u), F) = Cat(Each(s, F), Each(u, F))
  OBVIOUS
<1> HIDE DEF T
<1>1. Nil \in T
  <2>1. Cat(s, Nil) = s /\ Nil \in Seq(X) /\ Cat(Each(s, F), Nil) = Each(s, F)
    BY EachType, CatNil, NilType
  <2> QED
    BY <1>0, <2>1, EachNil
<1>2. ASSUME NEW u \in Seq(X), NEW x \in X, u \in T
      PROVE  Push(u, x) \in T
  <2>1. Cat(s, Push(u, x)) = Push(Cat(s, u), x) /\ Cat(s, u) \in Seq(X) /\ Push(u, x) \in Seq(X)
    BY CatPush, CatType, PushType
  <2>2. /\ Each(Push(Cat(s, u), x), F) = Cat(Each(Cat(s, u), F), F[x])
        /\ Each(Push(u, x), F) = Cat(Each(u, F), F[x])
        /\ Each(u, F) \in Seq(U) /\ F[x] \in Seq(U) /\ Each(s, F) \in Seq(U)
    BY <2>1, EachPush, EachType
  <2>3. Cat(Cat(Each(s, F), Each(u, F)), F[x]) = Cat(Each(s, F), Cat(Each(u, F), F[x]))
    BY <2>2, CatAssociative
  <2> QED
    BY <1>0, <1>2, <2>1, <2>2, <2>3
<1>3. Seq(X) \subseteq T
  BY <1>1, <1>2, PushInduction
<1> QED
  BY <1>0, <1>3

\* For each part's elements again: one loop inside another.
LEMMA EachEach ==
    ASSUME NEW X, NEW Y, NEW U, NEW G, Table(G, X, Y), NEW F, Table(F, Y, U), NEW s \in Seq(X),
           NEW H, \A x \in X : H[x] = Each(G[x], F)
    PROVE  Each(Each(s, G), F) = Each(s, H)
<1> DEFINE T == {u \in Seq(X) : Each(Each(u, G), F) = Each(u, H)}
<1>0. \A u : u \in T <=> u \in Seq(X) /\ Each(Each(u, G), F) = Each(u, H)
  OBVIOUS
<1> HIDE DEF T
<1>1. Table(H, X, U)
  BY EachType DEF Table
<1>2. Nil \in T
  BY <1>0, EachNil, NilType
<1>3. ASSUME NEW u \in Seq(X), NEW x \in X, u \in T
      PROVE  Push(u, x) \in T
  <2>1. Each(Push(u, x), G) = Cat(Each(u, G), G[x]) /\ Each(u, G) \in Seq(Y) /\ G[x] \in Seq(Y)
    BY EachPush
  <2>2. Each(Cat(Each(u, G), G[x]), F) = Cat(Each(Each(u, G), F), Each(G[x], F))
    BY <2>1, EachCat
  <2>3. Each(Push(u, x), H) = Cat(Each(u, H), H[x]) /\ Push(u, x) \in Seq(X)
    BY <1>1, EachPush
  <2> QED
    BY <1>0, <1>3, <2>1, <2>2, <2>3
<1>4. Seq(X) \subseteq T
  BY <1>2, <1>3, PushInduction
<1> QED
  BY <1>0, <1>4

\* A set of sequences that is closed under Cat holds the joined sequence if it holds the parts.
LEMMA EachKept ==
    ASSUME NEW X, NEW U, NEW F, Table(F, X, U), NEW s \in Seq(X),
           NEW T, Nil \in T, \A x \in X : F[x] \in T,
           \A a, b \in Seq(U) : a \in T /\ b \in T => Cat(a, b) \in T
    PROVE  Each(s, F) \in T
<1> DEFINE Q == {u \in Seq(X) : Each(u, F) \in T}
<1>0. \A u : u \in Q <=> u \in Seq(X) /\ Each(u, F) \in T
  OBVIOUS
<1> HIDE DEF Q
<1>1. Nil \in Q
  BY <1>0, EachNil, NilType
<1>2. ASSUME NEW u \in Seq(X), NEW x \in X, u \in Q
      PROVE  Push(u, x) \in Q
  <2>1. /\ Each(Push(u, x), F) = Cat(Each(u, F), F[x])
        /\ Push(u, x) \in Seq(X) /\ Each(u, F) \in Seq(U) /\ F[x] \in Seq(U)
    BY EachPush
  <2>2. Each(u, F) \in T /\ F[x] \in T
    BY <1>0, <1>2
  <2> QED
    BY <1>0, <2>1, <2>2
<1>3. Seq(X) \subseteq Q
  BY <1>1, <1>2, PushInduction
<1> QED
  BY <1>0, <1>3

\* What does nothing for any element does nothing.
LEMMA EachNothing ==
    ASSUME NEW X, NEW F, NEW s \in Seq(X), \A x \in X : F[x] = Nil
    PROVE  Each(s, F) = Nil
<1> DEFINE U == {}
<1>1. Table(F, X, U)
  BY NilType DEF Table
<1> DEFINE T == {Nil}
<1>2. /\ Nil \in T /\ \A x \in X : F[x] \in T
      /\ \A a, b \in Seq(U) : a \in T /\ b \in T => Cat(a, b) \in T
  BY NilType, CatNil
<1> HIDE DEF U, T
<1>3. Each(s, F) \in T
  BY <1>1, <1>2, EachKept
<1> QED
  BY <1>3 DEF T

\* Functions that agree on the elements yield the same.
LEMMA EachSame ==
    ASSUME NEW X, NEW F, NEW G, NEW s \in Seq(X), \A x \in X : F[x] = G[x]
    PROVE  Each(s, F) = Each(s, G)
<1>1. \A i \in DOMAIN s : s[i] \in X
  BY LenProperties, ElementOfSeq
<1>2. [i \in DOMAIN s |-> F[s[i]]] = [i \in DOMAIN s |-> G[s[i]]]
  BY <1>1
<1> QED
  BY <1>2 DEF Each

\* The numbers 1 .. n: type, and one number more.
LEMMA UpToPush ==
    ASSUME NEW n \in Nat
    PROVE  /\ UpTo(n) \in Seq(1 .. n) /\ Len(UpTo(n)) = n /\ UpTo(0) = Nil
           /\ UpTo(n + 1) = Push(UpTo(n), n + 1) /\ UpTo(n) \in Seq(Nat)
<1>1. ASSUME NEW m \in Nat
      PROVE  /\ UpTo(m) \in Seq(1 .. m) /\ Len(UpTo(m)) = m /\ UpTo(m) \in Seq(Nat)
             /\ \A i \in 1 .. m : UpTo(m)[i] = i
  BY IsASeq DEF UpTo
<1>2. UpTo(0) = Nil
  BY <1>1, NilType
<1>3. UpTo(n + 1) = Push(UpTo(n), n + 1)
  <2> DEFINE a == UpTo(n + 1)
             b == UpTo(n)
             k == n + 1
             c == Push(b, k)
  <2>1. n + 1 \in Nat
    OBVIOUS
  <2>2. a \in Seq(Nat) /\ Len(a) = n + 1 /\ \A i \in 1 .. n + 1 : a[i] = i
    BY <1>1, <2>1
  <2>3. b \in Seq(Nat) /\ Len(b) = n /\ \A i \in 1 .. n : b[i] = i
    BY <1>1
  <2> HIDE DEF a, b
  <2>4. /\ c \in Seq(Nat) /\ Len(c) = Len(b) + 1 /\ c[Len(b) + 1] = k
        /\ \A i \in 1 .. Len(b) : c[i] = b[i]
    <3>1. b \in Seq(Nat) /\ k \in Nat
      BY <2>1, <2>3
    <3> HIDE DEF k
    <3>2. c \in Seq(Nat) /\ Len(c) = Len(b) + 1
      BY <3>1, PushType
    <3>3. c[Len(b) + 1] = k
      BY <3>1, PushType
    <3>4. \A i \in 1 .. Len(b) : c[i] = b[i]
      <4> DEFINE X == Nat
      <4>1. b \in Seq(X) /\ k \in X
        BY <3>1
      <4> HIDE DEF X
      <4> QED
        BY <4>1, PushType
    <3> QED
      BY <3>2, <3>3, <3>4
  <2> HIDE DEF c
  <2>5. ASSUME NEW i \in 1 .. n + 1 PROVE a[i] = c[i]
    <3>1. i \in 1 .. n \/ i = n + 1
      OBVIOUS
    <3> QED
      BY <2>2, <2>3, <2>4, <3>1
  <2>6. a = c
    BY <2>2, <2>3, <2>4, <2>5, SeqEqual
  <2> QED
    BY <2>6 DEF a, b, c
<1> QED
  BY <1>1, <1>2, <1>3

\* A loop over 1 .. n of which one index alone does something.
LEMMA EachIndex ==
    ASSUME NEW n \in Nat, NEW U, NEW F, NEW j \in 1 .. n, F[j] \in Seq(U),
           \A i \in 1 .. n : i # j => F[i] = Nil
    PROVE  Each(UpTo(n), F) = F[j]
<1> DEFINE T == {m \in Nat : m <= n => Each(UpTo(m), F) = IF m < j THEN Nil ELSE F[j]}
<1>0. \A m : m \in T <=> m \in Nat /\ (m <= n => Each(UpTo(m), F) = IF m < j THEN Nil ELSE F[j])
  OBVIOUS
<1> HIDE DEF T
<1>1. 0 \in T
  <2>1. Each(UpTo(0), F) = Nil /\ 0 < j /\ 0 \in Nat
    BY UpToPush, EachNil
  <2> QED
    BY <1>0, <2>1
<1>2. ASSUME NEW m \in Nat, m \in T
      PROVE  m + 1 \in T
  <2> SUFFICES ASSUME m + 1 <= n
               PROVE  Each(UpTo(m + 1), F) = IF m + 1 < j THEN Nil ELSE F[j]
    BY <1>0
  <2>1. Each(UpTo(m), F) = (IF m < j THEN Nil ELSE F[j]) /\ m + 1 \in 1 .. n /\ 1 .. m \subseteq 1 .. n
    BY <1>0, <1>2
  <2>2. Table(F, 1 .. n, U)
    BY NilType DEF Table
  <2>3. UpTo(m) \in Seq(1 .. n) /\ UpTo(m + 1) = Push(UpTo(m), m + 1)
    <3>1. UpTo(m) \in Seq(1 .. m)
      BY UpToPush
    <3>2. UpTo(m) \in Seq(1 .. n)
      BY <2>1, <3>1, SeqMonotonic
    <3> QED
      BY <3>2, UpToPush
  <2>4. Each(Push(UpTo(m), m + 1), F) = Cat(Each(UpTo(m), F), F[m + 1])
    <3> DEFINE k == m + 1
               X == 1 .. n
               t == UpTo(m)
    <3>1. Table(F, X, U) /\ t \in Seq(X) /\ k \in X
      BY <2>1, <2>2, <2>3
    <3> HIDE DEF k, X, t
    <3>2. Each(Push(t, k), F) = Cat(Each(t, F), F[k])
      BY <3>1, EachPush
    <3> QED
      BY <3>2 DEF k, t
  <2>5. Nil \in Seq(U) /\ Cat(Nil, F[j]) = F[j] /\ Cat(F[j], Nil) = F[j] /\ Cat(Nil, Nil) = Nil
    BY NilType, CatNil
  <2>6. CASE m + 1 < j
    BY <2>1, <2>3, <2>4, <2>5, <2>6
  <2>7. CASE m + 1 = j
    BY <2>1, <2>3, <2>4, <2>5, <2>7
  <2>8. CASE m + 1 > j
    BY <2>1, <2>3, <2>4, <2>5, <2>8
  <2> QED
    BY <2>6, <2>7, <2>8
<1>3. Nat \subseteq T
  BY <1>1, <1>2, SetInduction
<1>4. n \in T /\ n <= n /\ ~ n < j
  BY <1>3
<1> QED
  BY <1>0, <1>4

\* Nothing is picked from nothing.
LEMMA PickNil ==
    ASSUME NEW S
    PROVE  Pick(Nil, S) = Nil
<1> DEFINE U == {}
<1>1. Nil \in Seq(U) /\ Len(Nil) = 0
  BY NilType
<1> HIDE DEF U
<1>2. PICK f : Picks(U, Nil, S, f)
  BY <1>1, PickUnfold
<1> QED
  BY <1>1, <1>2 DEF Picks, Nil

\* Picking from one element more.
LEMMA PickPush ==
    ASSUME NEW U, NEW s \in Seq(U), NEW x \in U, NEW S
    PROVE  /\ Pick(s, S) \in Seq(U)
           /\ Pick(Push(s, x), S) = IF x \in S THEN Push(Pick(s, S), x) ELSE Pick(s, S)
<1> DEFINE N == Len(s)
           t == Push(s, x)
<1>1. N \in Nat /\ t \in Seq(U) /\ Len(t) = N + 1 /\ t[N + 1] = x /\ \A i \in 1 .. N : t[i] = s[i]
  <2>1. N \in Nat
    OBVIOUS
  <2> QED
    BY <2>1, PushType
<1> HIDE DEF t
<1>2. PICK f : Picks(U, s, S, f)
  BY PickUnfold
<1>3. PICK g : Picks(U, t, S, g)
  BY <1>1, PickUnfold
<1>4. /\ f \in [0 .. N -> Seq(U)] /\ f[0] = <<>> /\ Pick(s, S) = f[N]
      /\ \A n \in 1 .. N : f[n] = IF s[n] \in S THEN Append(f[n - 1], s[n]) ELSE f[n - 1]
      /\ g[0] = <<>> /\ Pick(t, S) = g[N + 1]
      /\ \A n \in 1 .. N + 1 : g[n] = IF t[n] \in S THEN Append(g[n - 1], t[n]) ELSE g[n - 1]
  BY <1>1, <1>2, <1>3 DEF Picks
<1> DEFINE T == {n \in Nat : n <= N => f[n] = g[n]}
<1>5. 0 \in T
  BY <1>4
<1>6. ASSUME NEW n \in Nat, n \in T
      PROVE  n + 1 \in T
  <2> SUFFICES ASSUME n + 1 <= N PROVE f[n + 1] = g[n + 1]
    OBVIOUS
  <2> HIDE DEF N
  <2>1. n + 1 \in 1 .. N /\ n + 1 \in 1 .. N + 1 /\ (n + 1) - 1 = n /\ n <= N
    BY <1>1
  <2>2. f[n] = g[n] /\ t[n + 1] = s[n + 1]
    BY <1>1, <1>6, <2>1
  <2>3. /\ f[n + 1] = IF s[n + 1] \in S THEN Append(f[n], s[n + 1]) ELSE f[n]
        /\ g[n + 1] = IF t[n + 1] \in S THEN Append(g[n], t[n + 1]) ELSE g[n]
    BY <1>4, <2>1
  <2> QED
    BY <2>2, <2>3
<1> HIDE DEF T
<1>7. Nat \subseteq T
  BY <1>5, <1>6, SetInduction
<1>8. f[N] = g[N] /\ f[N] \in Seq(U)
  BY <1>1, <1>4, <1>7 DEF T
<1>9. g[N + 1] = IF x \in S THEN Append(g[N], x) ELSE g[N]
  <2> HIDE DEF N
  <2>1. N + 1 \in 1 .. N + 1 /\ (N + 1) - 1 = N
    BY <1>1
  <2> QED
    BY <1>1, <1>4, <2>1
<1> QED
  BY <1>4, <1>8, <1>9 DEF t, Push

\* What is picked is a sequence over the elements that were asked for.
LEMMA PickInto ==
    ASSUME NEW U, NEW S, NEW s \in Seq(U)
    PROVE  Pick(s, S) \in Seq(U \cap S)
<1> DEFINE V == U \cap S
           T == {u \in Seq(U) : Pick(u, S) \in Seq(V)}
<1>0. (\A u : u \in T <=> u \in Seq(U) /\ Pick(u, S) \in Seq(V)) /\ (\A x \in U : x \in S => x \in V)
  OBVIOUS
<1> HIDE DEF T, V
<1>1. Nil \in T
  BY <1>0, PickNil, NilType
<1>2. ASSUME NEW u \in Seq(U), NEW x \in U, u \in T
      PROVE  Push(u, x) \in T
  <2>1. /\ Pick(Push(u, x), S) = IF x \in S THEN Push(Pick(u, S), x) ELSE Pick(u, S)
        /\ Push(u, x) \in Seq(U)
    BY PickPush, PushType
  <2>2. Pick(u, S) \in Seq(V)
    BY <1>0, <1>2
  <2>3. x \in S => Push(Pick(u, S), x) \in Seq(V)
    BY <1>0, <2>2, PushType
  <2> QED
    BY <1>0, <2>1, <2>2, <2>3
<1>3. Seq(U) \subseteq T
  BY <1>1, <1>2, PushInduction
<1> QED
  BY <1>0, <1>3 DEF V

\* A loop over the elements in S is one over all elements that does nothing for others.
LEMMA EachPick ==
    ASSUME NEW X, NEW U, NEW S, NEW F, Table(F, X \cap S, U), NEW s \in Seq(X),
           NEW H, \A x \in X : H[x] = IF x \in S THEN F[x] ELSE Nil
    PROVE  Each(Pick(s, S), F) = Each(s, H)
<1> DEFINE T == {u \in Seq(X) : Each(Pick(u, S), F) = Each(u, H)}
           V == X \cap S
<1>0. \A u : u \in T <=> u \in Seq(X) /\ Each(Pick(u, S), F) = Each(u, H)
  OBVIOUS
<1>1. Table(H, X, U) /\ Table(F, V, U) /\ \A x \in X : x \in S => x \in V
  BY NilType DEF Table
<1> HIDE DEF T, V
<1>2. Nil \in T
  BY <1>0, PickNil, EachNil, NilType
<1>3. ASSUME NEW u \in Seq(X), NEW x \in X, u \in T
      PROVE  Push(u, x) \in T
  <2>1. /\ Pick(Push(u, x), S) = IF x \in S THEN Push(Pick(u, S), x) ELSE Pick(u, S)
        /\ Pick(u, S) \in Seq(V)
    BY PickPush, PickInto DEF V
  <2>2. /\ Each(Push(u, x), H) = Cat(Each(u, H), H[x]) /\ Push(u, x) \in Seq(X)
        /\ Each(u, H) \in Seq(U)
    BY <1>1, EachPush
  <2>3. x \in S => Each(Push(Pick(u, S), x), F) = Cat(Each(Pick(u, S), F), F[x])
    BY <1>1, <2>1, EachPush
  <2>4. Cat(Each(u, H), Nil) = Each(u, H)
    BY <2>2, CatNil
  <2> QED
    BY <1>0, <1>3, <2>1, <2>2, <2>3, <2>4
<1>4. Seq(X) \subseteq T
  BY <1>2, <1>3, PushInduction
<1> QED
  BY <1>0, <1>4
-----------------------------------------------------------------------------
(***************************************************************************)
(* The parties and the circuit.                                            *)
(***************************************************************************)
LEMMA Parties ==
    /\ Net!nP \in Nat /\ Net!nP - 1 = rider_count + driver_count
    /\ Net!Rider = 1 .. rider_count /\ rider_count \in Nat
    /\ Net!Driver = rider_count + 1 .. rider_count + driver_count /\ driver_count \in Nat
    /\ Peers = 1 .. rider_count + driver_count /\ Peers \subseteq Nat
    /\ Party = 0 .. rider_count + driver_count /\ Party \subseteq Nat
BY NetAssumption DEF Party, Peers, Net!Party, Net!nP, Net!Rider, Net!Driver

\* A peer is a rider or a driver and not both.
LEMMA Roles ==
    /\ Party = {0} \cup Peers /\ 0 \notin Peers /\ Peers = Net!Rider \cup Net!Driver
    /\ \A p \in Net!Rider : p \notin Net!Driver /\ p \in Peers
    /\ \A p \in Net!Driver : p \notin Net!Rider /\ p \in Peers
BY Parties

\* Who has a connection: the SP with everybody, and every rider with every driver.
LEMMA Connections ==
    ASSUME NEW p \in Party, NEW q \in Party
    PROVE  /\ Net!Connected(p, q) <=> \/ p = 0 /\ q \in Peers
                                      \/ q = 0 /\ p \in Peers
                                      \/ p \in Net!Rider /\ q \in Net!Driver
                                      \/ p \in Net!Driver /\ q \in Net!Rider
           /\ Net!Connected(p, q) <=> Net!Connected(q, p)
           /\ Net!Connected(p, q) => p # q
BY Roles DEF Net!Connected

\* The circuit is acyclic, its wires are numbers and its outputs are wires.
LEMMA TheCircuit ==
    /\ Acyclic(circ.gates) /\ Wires = 1 .. Len(circ.gates) /\ Wires \subseteq Nat
    /\ circ.outputs \in Seq(Wires)
<1>1. \A w \in Wires : Reads(Gate(w)) \subseteq 1 .. w - 1
  BY CircuitAssumption
<1>2. /\ Wires = 1 .. Len(circ.gates) /\ Len(circ.gates) \in Nat
      /\ DOMAIN circ.gates = 1 .. Len(circ.gates) /\ circ.outputs \in Seq(Wires)
  BY CircuitAssumption DEF Wires
<1>3. \A w \in 1 .. Len(circ.gates) : Reads(circ.gates[w]) \subseteq 1 .. w - 1
  BY <1>1, <1>2 DEF Gate
<1>4. Acyclic(circ.gates)
  BY <1>2, <1>3 DEF Acyclic
<1>5. Wires \subseteq Nat
  BY <1>2
<1> QED
  BY <1>2, <1>4, <1>5

\* The owners of a wire are two connected peers.
LEMMA Owners ==
    ASSUME NEW w \in Wires
    PROVE  /\ Gate(w).rider_id \in Net!Rider /\ Gate(w).driver_id \in Net!Driver
           /\ Gate(w).rider_id # Gate(w).driver_id
           /\ Gate(w).rider_id \in Peers /\ Gate(w).driver_id \in Peers
<1>1. Gate(w).rider_id \in Net!Rider /\ Gate(w).driver_id \in Net!Driver
  BY CircuitAssumption
<1> QED
  BY <1>1, Roles

\* The levels are lists of wires; there is at least one.
LEMMA LevelsType ==
    /\ Levels \in Seq(Seq(Wires)) /\ Len(Levels) \in Nat \ {0}
    /\ \A l \in 1 .. Len(Levels) : Levels[l] \in Seq(Wires)
    /\ DOMAIN Levels = 1 .. Len(Levels)
<1> DEFINE U == 1 .. Len(circ.gates)
           V == Seq(U)
           s == ByLevel(circ.gates)
<1>1. s \in Seq(V) /\ Len(s) \in Nat \ {0}
  BY TheCircuit, LevelLists
<1> HIDE DEF V, s
<1>2. \A l \in 1 .. Len(s) : s[l] \in V
  BY <1>1, ElementOfSeq
<1>3. DOMAIN s = 1 .. Len(s)
  BY <1>1, LenProperties
<1> QED
  BY <1>1, <1>2, <1>3, TheCircuit DEF V, s, Levels

\* The order of the gates is a list of wires.
LEMMA OrderType ==
    Order \in Seq(Wires)
BY TheCircuit, OrderOfGates DEF Order, Levels
-----------------------------------------------------------------------------
(***************************************************************************)
(* Steps, and what they move: Moved(op, q)[x] is the tags of the elements  *)
(* of step x if x is a send to q (a receive from q), and nothing if not.   *)
(***************************************************************************)
Ops == {"send", "recv", "flush", "local", "close"}
Whats == {"lengths", "preproc", "input", "level", "output", "key", "share",
          "start", "match", "compare", ""}
AnyStep == [op : Ops, peer : Nat, what : Whats, ws : Seq(Nat), round : Nat]
AnyTag == Whats \X Nat \X Nat
TagSeq(what, ws, k) == [i \in DOMAIN ws |-> <<what, ws[i], k>>]
Tags(x) == TagSeq(x.what, x.ws, x.round)
Moved(op, q) == [x \in AnyStep |-> IF x.op = op /\ x.peer = q THEN Tags(x) ELSE Nil]

\* The same of a step in round k.
Made(x, k) == [x EXCEPT !.round = k]
MovedIn(op, q, k) == [x \in AnyStep |-> Moved(op, q)[Made(x, k)]]

\* The tags of an array: type, length and elements.
LEMMA TagSeqType ==
    ASSUME NEW what \in Whats, NEW ws \in Seq(Nat), NEW k \in Nat
    PROVE  /\ TagSeq(what, ws, k) \in Seq(AnyTag) /\ Len(TagSeq(what, ws, k)) = Len(ws)
           /\ \A i \in 1 .. Len(ws) : TagSeq(what, ws, k)[i] = <<what, ws[i], k>>
<1>1. DOMAIN ws = 1 .. Len(ws) /\ Len(ws) \in Nat /\ \A i \in 1 .. Len(ws) : ws[i] \in Nat
  BY LenProperties, ElementOfSeq
<1>2. \A i \in 1 .. Len(ws) : <<what, ws[i], k>> \in AnyTag
  BY <1>1 DEF AnyTag
<1> HIDE DEF AnyTag
<1>3. TagSeq(what, ws, k) = [i \in 1 .. Len(ws) |-> <<what, ws[i], k>>]
  BY <1>1 DEF TagSeq
<1> DEFINE f == [i \in 1 .. Len(ws) |-> <<what, ws[i], k>>]
<1>4. f \in [1 .. Len(ws) -> AnyTag] /\ \A i \in 1 .. Len(ws) : f[i] = <<what, ws[i], k>>
  BY <1>2
<1> HIDE DEF f
<1>5. f \in Seq(AnyTag) /\ Len(f) = Len(ws)
  BY <1>1, <1>4, IsASeq
<1> QED
  BY <1>3, <1>4, <1>5 DEF f

\* An empty array has no tags.
LEMMA TagSeqNil ==
    ASSUME NEW what \in Whats, NEW k \in Nat
    PROVE  TagSeq(what, Nil, k) = Nil
<1>1. Nil \in Seq(Nat) /\ Len(Nil) = 0
  BY NilType
<1>2. TagSeq(what, Nil, k) \in Seq(AnyTag) /\ Len(TagSeq(what, Nil, k)) = 0
  BY <1>1, TagSeqType
<1> QED
  BY <1>2, NilType

\* Moved and MovedIn map steps to sequences of tags.
LEMMA MovedType ==
    ASSUME NEW op, NEW q
    PROVE  /\ Table(Moved(op, q), AnyStep, AnyTag)
           /\ \A k \in Nat : Table(MovedIn(op, q, k), AnyStep, AnyTag)
<1>1. ASSUME NEW x \in AnyStep PROVE Moved(op, q)[x] \in Seq(AnyTag)
  <2>1. Tags(x) \in Seq(AnyTag)
    BY TagSeqType DEF Tags, AnyStep
  <2>2. Nil \in Seq(AnyTag)
    BY NilType
  <2> QED
    BY <2>1, <2>2 DEF Moved
<1>2. \A x \in AnyStep, k \in Nat : Made(x, k) \in AnyStep
  BY DEF AnyStep, Made
<1>3. ASSUME NEW k \in Nat, NEW x \in AnyStep PROVE MovedIn(op, q, k)[x] \in Seq(AnyTag)
  BY <1>1, <1>2 DEF MovedIn
<1> QED
  BY <1>1, <1>3 DEF Table

\* What the steps the scripts consist of move, in round k.
LEMMA StepMoves ==
    ASSUME NEW op \in Ops, NEW peer \in Nat, NEW what \in Whats, NEW ws \in Seq(Nat),
           NEW dir, NEW q, NEW k \in Nat
    PROVE  /\ Step(op, peer, what, ws) \in AnyStep
           /\ MovedIn(dir, q, k)[Step(op, peer, what, ws)]
                 = IF op = dir /\ peer = q THEN TagSeq(what, ws, k) ELSE Nil
<1> DEFINE x == Step(op, peer, what, ws)
<1>1. x \in AnyStep
  BY DEF AnyStep, Step
<1>2. /\ Made(x, k) \in AnyStep /\ Made(x, k).op = op /\ Made(x, k).peer = peer
      /\ Made(x, k).what = what /\ Made(x, k).ws = ws /\ Made(x, k).round = k
  BY DEF AnyStep, Step, Made
<1> HIDE DEF x
<1>3. MovedIn(dir, q, k)[x] = Moved(dir, q)[Made(x, k)]
  BY <1>1 DEF MovedIn
<1>4. Moved(dir, q)[Made(x, k)] = IF op = dir /\ peer = q THEN TagSeq(what, ws, k) ELSE Nil
  BY <1>2 DEF Moved, Tags
<1> QED
  BY <1>1, <1>3, <1>4 DEF x

\* A step of another kind, or with another party, moves nothing.
LEMMA StepMovesNothing ==
    ASSUME NEW op \in Ops, NEW peer \in Nat, NEW what \in Whats, NEW ws \in Seq(Nat),
           NEW dir, NEW q, NEW k \in Nat, op # dir \/ peer # q
    PROVE  MovedIn(dir, q, k)[Step(op, peer, what, ws)] = Nil
BY StepMoves

\* A step of this kind with this party moves the tags of its array.
LEMMA StepMovesItsTags ==
    ASSUME NEW op \in Ops, NEW peer \in Nat, NEW what \in Whats, NEW ws \in Seq(Nat),
           NEW k \in Nat
    PROVE  MovedIn(op, peer, k)[Step(op, peer, what, ws)] = TagSeq(what, ws, k)
BY StepMoves

\* A pair of steps as pushes.
LEMMA TwoIsPush ==
    ASSUME NEW a, NEW b
    PROVE  <<a, b>> = Push(One(a), b)
<1> DEFINE X == {a, b}
           s == One(a)
           t == <<a, b>>
<1>1. s \in Seq(X) /\ Len(s) = 1 /\ s[1] = a /\ b \in X
  BY DEF One
<1>2. t \in Seq(X) /\ Len(t) = 2 /\ t[1] = a /\ t[2] = b
  OBVIOUS
<1> HIDE DEF s, t, X
<1>3. Push(s, b) \in Seq(X) /\ Len(Push(s, b)) = 2
  <2>1. Push(s, b) \in Seq(X) /\ Len(Push(s, b)) = Len(s) + 1
    BY <1>1, PushType
  <2> QED
    BY <1>1, <2>1
<1>4. Push(s, b)[Len(s) + 1] = b
  BY <1>1, PushType
<1>5. \A i \in 1 .. Len(s) : Push(s, b)[i] = s[i]
  <2>1. Begins(s, Push(s, b))
    BY <1>1, PushKeeps
  <2> QED
    BY <2>1 DEF Begins
<1>6. Push(s, b)[1] = a /\ Push(s, b)[2] = b
  BY <1>1, <1>4, <1>5
<1>7. \A i \in 1 .. 2 : t[i] = Push(s, b)[i]
  BY <1>2, <1>6
<1>8. t = Push(s, b)
  BY <1>2, <1>3, <1>7, SeqEqual
<1> QED
  BY <1>8 DEF s, t

\* A triple of steps as pushes.
LEMMA ThreeIsPush ==
    ASSUME NEW a, NEW b, NEW c
    PROVE  <<a, b, c>> = Push(<<a, b>>, c)
<1> DEFINE X == {a, b, c}
           s == <<a, b>>
           t == <<a, b, c>>
<1>1. s \in Seq(X) /\ Len(s) = 2 /\ s[1] = a /\ s[2] = b /\ c \in X
  OBVIOUS
<1>2. t \in Seq(X) /\ Len(t) = 3 /\ t[1] = a /\ t[2] = b /\ t[3] = c
  OBVIOUS
<1> HIDE DEF s, t, X
<1>3. Push(s, c) \in Seq(X) /\ Len(Push(s, c)) = 3
  <2>1. Push(s, c) \in Seq(X) /\ Len(Push(s, c)) = Len(s) + 1
    BY <1>1, PushType
  <2> QED
    BY <1>1, <2>1
<1>4. Push(s, c)[Len(s) + 1] = c
  BY <1>1, PushType
<1>5. \A i \in 1 .. Len(s) : Push(s, c)[i] = s[i]
  <2>1. Begins(s, Push(s, c))
    BY <1>1, PushKeeps
  <2> QED
    BY <2>1 DEF Begins
<1>6. Push(s, c)[1] = a /\ Push(s, c)[2] = b /\ Push(s, c)[3] = c
  BY <1>1, <1>4, <1>5
<1>7. \A i \in 1 .. 3 : t[i] = Push(s, c)[i]
  BY <1>2, <1>6
<1>8. t = Push(s, c)
  BY <1>2, <1>3, <1>7, SeqEqual
<1> QED
  BY <1>8 DEF s, t

\* Each of two elements.
LEMMA EachTwo ==
    ASSUME NEW U, NEW F, NEW a, NEW b, F[a] \in Seq(U), F[b] \in Seq(U)
    PROVE  Each(<<a, b>>, F) = Cat(F[a], F[b])
<1> DEFINE X == {a, b}
<1>1. One(a) \in Seq(X) /\ a \in X /\ b \in X /\ Table(F, X, U)
  <2>1. Nil \in Seq(X) /\ a \in X /\ b \in X
    BY NilType
  <2> HIDE DEF X
  <2>2. One(a) \in Seq(X)
    BY <2>1, PushCat
  <2> QED
    BY <2>1, <2>2 DEF Table, X
<1>2. Each(Push(One(a), b), F) = Cat(Each(One(a), F), F[b])
  <2> HIDE DEF X
  <2> QED
    BY <1>1, EachPush
<1>3. Each(One(a), F) = F[a]
  BY EachOne
<1>4. Push(One(a), b) = <<a, b>>
  BY TwoIsPush
<1> QED
  BY <1>2, <1>3, <1>4

\* Each of three elements.
LEMMA EachThree ==
    ASSUME NEW U, NEW F, NEW a, NEW b, NEW c, F[a] \in Seq(U), F[b] \in Seq(U), F[c] \in Seq(U)
    PROVE  Each(<<a, b, c>>, F) = Cat(Cat(F[a], F[b]), F[c])
<1> DEFINE X == {a, b, c}
<1>1. <<a, b>> \in Seq(X) /\ c \in X /\ Table(F, X, U)
  BY DEF Table
<1>2. Each(Push(<<a, b>>, c), F) = Cat(Each(<<a, b>>, F), F[c])
  <2> DEFINE s == <<a, b>>
  <2>1. s \in Seq(X)
    BY <1>1
  <2> HIDE DEF X, s
  <2>2. Each(Push(s, c), F) = Cat(Each(s, F), F[c])
    BY <1>1, <2>1, EachPush
  <2> QED
    BY <2>2 DEF s
<1>3. Each(<<a, b>>, F) = Cat(F[a], F[b])
  BY EachTwo
<1>4. Push(<<a, b>>, c) = <<a, b, c>>
  BY ThreeIsPush
<1> QED
  BY <1>2, <1>3, <1>4
-----------------------------------------------------------------------------
(***************************************************************************)
(* What p's part of each function moves to and from another party.         *)
(***************************************************************************)
Moves(x) == x.op \in {"send", "recv"}
Wait(x, what) == x.op = "recv" /\ x.what = what

\* The steps party p may be at, other than the last one.
StepsOf(p) ==
    {x \in AnyStep :
        /\ x.op \in {"send", "recv", "flush", "local"}
        /\ Moves(x) => /\ x.peer \in Party /\ Net!Connected(p, x.peer)
                       /\ x.what \notin {"start", "match", "compare"}
        /\ Moves(x) /\ x.what = "lengths" => /\ x.ws = <<1, 2, 3>>
                                             /\ \/ x.op = "send" /\ p = 0 /\ x.peer \in Net!Driver
                                                \/ x.op = "recv" /\ p \in Net!Driver /\ x.peer = 0
        /\ Wait(x, "preproc") => /\ p \in Net!Driver /\ x.peer = 0
                                 /\ x.ws = SecWires[p] \o ParWires[p]}
OtherSteps(p) == {x \in StepsOf(p) : ~ Wait(x, "preproc")}

\* A step of a script that is no read of preprocessing values.
LEMMA OtherStep ==
    ASSUME NEW p, NEW op \in Ops, op \in {"send", "recv", "flush", "local"}, NEW peer \in Nat,
           NEW what \in Whats, NEW ws \in Seq(Nat), what # "lengths", what # "preproc",
           op \in {"send", "recv"} => /\ peer \in Party /\ Net!Connected(p, peer)
                                      /\ what \notin {"start", "match", "compare"}
    PROVE  Step(op, peer, what, ws) \in OtherSteps(p) /\ Step(op, peer, what, ws) \in AnyStep
<1> DEFINE x == Step(op, peer, what, ws)
<1>1. x.op = op /\ x.peer = peer /\ x.what = what /\ x.ws = ws /\ x \in AnyStep
  BY DEF Step, AnyStep
<1> HIDE DEF x
<1> QED
  BY <1>1 DEF x, OtherSteps, StepsOf, Moves, Wait

\* What may be in a party's script is a step.
LEMMA StepsSubset ==
    ASSUME NEW p
    PROVE  StepsOf(p) \subseteq AnyStep /\ OtherSteps(p) \subseteq StepsOf(p)
           /\ OtherSteps(p) \subseteq AnyStep
BY DEF StepsOf, OtherSteps

\* The wires a driver is sent corrections for.
PreprocWires(d) == SecWires[d] \o ParWires[d]

\* The wires of the array for a driver.
LEMMA PreprocWiresType ==
    ASSUME NEW d \in Net!Driver
    PROVE  /\ SecWires[d] \in Seq(Wires) /\ ParWires[d] \in Seq(Wires)
           /\ PreprocWires(d) \in Seq(Nat)
           /\ Len(PreprocWires(d)) = Len(SecWires[d]) + Len(ParWires[d])
<1>1. SecWires[d] \in Seq(Wires) /\ ParWires[d] \in Seq(Wires)
  BY OrderType, PickPush, PickInto DEF SecWires, ParWires
<1>2. SecWires[d] \in Seq(Nat) /\ ParWires[d] \in Seq(Nat)
  BY <1>1, TheCircuit, SeqMonotonic
<1> QED
  BY <1>1, <1>2, ConcatProperties DEF PreprocWires
-----------------------------------------------------------------------------
(***************************************************************************)
(* What p sends q is what q reads from p: one function of the code after   *)
(* the other.  Each is the sum, in order, of what its steps move, computed *)
(* once for the sender and once for the reader.                            *)
(***************************************************************************)
\* The two arrays of the preprocessing.
Lengths == <<1, 2, 3>>
LengthsStep(op, q) == Step(op, q, "lengths", Lengths)
PreprocStep(op, q, d) == Step(op, q, "preproc", PreprocWires(d))
OfflineTags(d, k) == Cat(TagSeq("lengths", Lengths, k), TagSeq("preproc", PreprocWires(d), k))

\* The two steps with one driver move lengths and values, or nothing.
LEMMA OfflineStep ==
    ASSUME NEW d \in Net!Driver, NEW op \in {"send", "recv"}, NEW q \in Nat,
           NEW dir, NEW r, NEW k \in Nat
    PROVE  LET s == <<LengthsStep(op, q), PreprocStep(op, q, d)>>
           IN  /\ s \in Seq(AnyStep)
               /\ Each(s, MovedIn(dir, r, k)) = IF op = dir /\ q = r THEN OfflineTags(d, k) ELSE Nil
               /\ OfflineTags(d, k) \in Seq(AnyTag)
<1> DEFINE F == MovedIn(dir, r, k)
           x == LengthsStep(op, q)
           y == PreprocStep(op, q, d)
           u == TagSeq("lengths", Lengths, k)
           v == TagSeq("preproc", PreprocWires(d), k)
<1>1. Lengths \in Seq(Nat) /\ PreprocWires(d) \in Seq(Nat)
  <2>1. Lengths \in Seq(Nat)
    BY DEF Lengths
  <2> QED
    BY <2>1, PreprocWiresType
<1>2. u \in Seq(AnyTag) /\ v \in Seq(AnyTag)
  <2>1. "lengths" \in Whats /\ "preproc" \in Whats
    BY DEF Whats
  <2> QED
    BY <1>1, <2>1, TagSeqType
<1>3. /\ x \in AnyStep /\ F[x] = IF op = dir /\ q = r THEN u ELSE Nil
      /\ y \in AnyStep /\ F[y] = IF op = dir /\ q = r THEN v ELSE Nil
  <2>1. op \in Ops
    BY DEF Ops
  <2>2. "lengths" \in Whats /\ "preproc" \in Whats
    BY DEF Whats
  <2> HIDE DEF F
  <2> QED
    BY <1>1, <2>1, <2>2, StepMoves DEF LengthsStep, PreprocStep, F
<1> HIDE DEF F, x, y, u, v
<1>4. Nil \in Seq(AnyTag) /\ Cat(Nil, Nil) = Nil
  BY NilType, CatNil
<1>5. Each(<<x, y>>, F) = Cat(F[x], F[y])
  <2>1. F[x] \in Seq(AnyTag) /\ F[y] \in Seq(AnyTag)
    BY <1>2, <1>3, <1>4
  <2> QED
    BY <2>1, EachTwo
<1>6. <<x, y>> \in Seq(AnyStep)
  BY <1>3
<1>7. Cat(u, v) \in Seq(AnyTag)
  BY <1>2, CatType
<1> QED
  BY <1>3, <1>4, <1>5, <1>6, <1>7 DEF OfflineTags, F, x, y, u, v

OfflineMoves(p, q, k) == IF p = 0 /\ q \in Net!Driver THEN OfflineTags(q, k) ELSE Nil

\* Preprocessing (setWireMasks): what p sends q is what q reads from p, tag by tag.
LEMMA OfflineMatch ==
    ASSUME NEW p \in Party, NEW q \in Party, NEW k \in Nat
    PROVE  /\ Each(Offline(p), MovedIn("send", q, k)) = OfflineMoves(p, q, k)
           /\ Each(Offline(p), MovedIn("recv", q, k)) = OfflineMoves(q, p, k)
           /\ Offline(p) \in Seq(AnyStep)
<1> DEFINE n == driver_count
           d(i) == rider_count + i
           A == [i \in 1 .. n |-> <<LengthsStep("send", d(i)), PreprocStep("send", d(i), d(i))>>]
<1>0. /\ n \in Nat /\ \A i \in 1 .. n : d(i) \in Net!Driver /\ d(i) \in Nat
      /\ \A x \in Net!Driver : x - rider_count \in 1 .. n /\ d(x - rider_count) = x
      /\ UpTo(n) \in Seq(1 .. n)
  <2>1. n \in Nat
    BY Parties
  <2>2. \A i \in 1 .. n : d(i) \in Net!Driver /\ d(i) \in Nat
    BY Parties
  <2>3. \A x \in Net!Driver : x - rider_count \in 1 .. n /\ d(x - rider_count) = x
    BY Parties
  <2>4. UpTo(n) \in Seq(1 .. n)
    <3> HIDE DEF n
    <3> QED
      BY <2>1, UpToPush
  <2> QED
    BY <2>1, <2>2, <2>3, <2>4
<1>1. Offline(0) = Each(UpTo(n), A)
  <2>1. 0 \notin Net!Driver
    BY Roles
  <2> QED
    BY DEF Offline, LengthsStep, PreprocStep, Send, Lengths, PreprocWires
<1>2. ASSUME p \in Net!Driver
      PROVE  Offline(p) = <<LengthsStep("recv", 0), PreprocStep("recv", 0, p)>>
  <2>1. p # 0
    BY <1>2, Roles
  <2> QED
    BY <1>2, <2>1 DEF Offline, LengthsStep, PreprocStep, Recv, Lengths, PreprocWires
<1>3. p \in Net!Rider => Offline(p) = Nil
  <2>1. p \in Net!Rider => p # 0 /\ p \notin Net!Driver
    BY Roles
  <2> QED
    BY <2>1 DEF Offline, Nil
<1>4. Table(A, 1 .. n, AnyStep)
  <2> SUFFICES ASSUME NEW i \in 1 .. n
               PROVE  <<LengthsStep("send", d(i)), PreprocStep("send", d(i), d(i))>> \in Seq(AnyStep)
    BY DEF Table
  <2> QED
    BY <1>0, OfflineStep
<1>5. ASSUME NEW dir, NEW r, NEW i \in 1 .. n
      PROVE  Each(A[i], MovedIn(dir, r, k))
                = IF "send" = dir /\ d(i) = r THEN OfflineTags(d(i), k) ELSE Nil
  <2>1. A[i] = <<LengthsStep("send", d(i)), PreprocStep("send", d(i), d(i))>>
    OBVIOUS
  <2> HIDE DEF A
  <2> QED
    BY <1>0, <2>1, OfflineStep
<1>6. ASSUME NEW dir, NEW r
      PROVE  Each(Offline(0), MovedIn(dir, r, k))
                = IF dir = "send" /\ r \in Net!Driver THEN OfflineTags(r, k) ELSE Nil
  <2> DEFINE X == 1 .. n
             F == MovedIn(dir, r, k)
             H == [i \in X |-> Each(A[i], F)]
  <2>1. Table(F, AnyStep, AnyTag) /\ UpTo(n) \in Seq(X) /\ Table(A, X, AnyStep)
    BY <1>0, <1>4, MovedType
  <2>2. \A i \in X : H[i] = Each(A[i], F)
    OBVIOUS
  <2>3. Each(Each(UpTo(n), A), F) = Each(UpTo(n), H)
    <3> DEFINE t == UpTo(n)
    <3>1. t \in Seq(X)
      BY <2>1
    <3> HIDE DEF X, F, H, A, t
    <3>2. Each(Each(t, A), F) = Each(t, H)
      BY <2>1, <2>2, <3>1, EachEach
    <3> QED
      BY <3>2 DEF t
  <2>4. \A i \in X : H[i] = IF dir = "send" /\ d(i) = r THEN OfflineTags(d(i), k) ELSE Nil
    BY <1>5
  <2> HIDE DEF H, A
  <2>5. CASE dir = "send" /\ r \in Net!Driver
    <3> DEFINE j == r - rider_count
    <3>1. j \in 1 .. n /\ d(j) = r
      BY <1>0, <2>5
    <3>2. H[j] = OfflineTags(r, k) /\ OfflineTags(r, k) \in Seq(AnyTag)
      BY <2>4, <2>5, <3>1, OfflineStep
    <3>3. \A i \in 1 .. n : i # j => H[i] = Nil
      <4> SUFFICES ASSUME NEW i \in 1 .. n, i # j PROVE H[i] = Nil
        OBVIOUS
      <4>1. d(i) # r
        BY <3>1, Parties
      <4> QED
        BY <2>4, <4>1
    <3> HIDE DEF j
    <3>4. Each(UpTo(n), H) = H[j]
      <4> HIDE DEF n
      <4>1. n \in Nat /\ H[j] \in Seq(AnyTag)
        BY <1>0, <3>2
      <4> QED
        BY <3>1, <3>3, <4>1, EachIndex
    <3> QED
      BY <1>1, <2>3, <2>5, <3>2, <3>4 DEF F
  <2>6. CASE ~ (dir = "send" /\ r \in Net!Driver)
    <3>1. \A i \in X : H[i] = Nil
      BY <1>0, <2>4, <2>6
    <3>2. Each(UpTo(n), H) = Nil
      <4> HIDE DEF X
      <4> QED
        BY <2>1, <3>1, EachNothing
    <3> QED
      BY <1>1, <2>3, <2>6, <3>2 DEF F
  <2> QED
    BY <2>5, <2>6
<1>7. ASSUME NEW dir, NEW r, p \in Net!Driver
      PROVE  Each(Offline(p), MovedIn(dir, r, k)) = IF "recv" = dir /\ 0 = r THEN OfflineTags(p, k) ELSE Nil
  BY <1>2, <1>7, OfflineStep
<1>8. p \in Net!Rider => \A dir, r : Each(Offline(p), MovedIn(dir, r, k)) = Nil
  BY <1>3, EachNil
<1>9. Offline(p) \in Seq(AnyStep)
  <2>1. Offline(0) \in Seq(AnyStep)
    <3> DEFINE X == 1 .. n
               t == UpTo(n)
    <3>1. t \in Seq(X) /\ Table(A, X, AnyStep)
      BY <1>0, <1>4
    <3> HIDE DEF A, X, t
    <3>2. Each(t, A) \in Seq(AnyStep)
      BY <3>1, EachType
    <3> QED
      BY <1>1, <3>2 DEF t
  <2>2. p \in Net!Rider => Offline(p) \in Seq(AnyStep)
    BY <1>3, NilType
  <2>3. p \in Net!Driver => Offline(p) \in Seq(AnyStep)
    BY <1>2, OfflineStep
  <2> QED
    BY <2>1, <2>2, <2>3, Roles
<1> HIDE DEF A
<1>10. CASE p = 0
  <2>1. 0 \notin Net!Driver
    BY Roles
  <2> QED
    BY <1>6, <1>9, <1>10, <2>1 DEF OfflineMoves
<1>11. CASE p \in Net!Driver
  <2>1. p # 0
    BY <1>11, Roles
  <2> QED
    BY <1>7, <1>9, <1>11, <2>1 DEF OfflineMoves
<1>12. CASE p \in Net!Rider
  <2>1. p # 0 /\ p \notin Net!Driver
    BY <1>12, Roles
  <2> QED
    BY <1>8, <1>9, <1>12, <2>1 DEF OfflineMoves
<1> QED
  BY <1>10, <1>11, <1>12, Roles

\* The other owner of a wire of p's.
LEMMA PeerOfOwner ==
    ASSUME NEW p \in Peers, NEW w \in Wires, w \in OwnWires[p]
    PROVE  /\ PeerOf(p, w) \in Peers /\ PeerOf(p, w) # p /\ PeerOf(p, w) \in Nat
           /\ PeerOf(p, w) \in Party /\ p \in Party /\ Net!Connected(p, PeerOf(p, w))
           /\ \A q : Between(p, q, w) <=> q = PeerOf(p, w)
           /\ \A q : Between(q, p, w) <=> q = PeerOf(p, w)
<1> DEFINE r == Gate(w).rider_id
           d == Gate(w).driver_id
           q == PeerOf(p, w)
<1>1. r \in Net!Rider /\ d \in Net!Driver /\ r # d /\ r \in Peers /\ d \in Peers
  BY Owners
<1>2. p = r \/ p = d
  BY DEF OwnWires, Mine
<1>3. (p = r => q = d) /\ (p = d => q = r)
  BY <1>1 DEF PeerOf
<1> HIDE DEF q
<1>4. \A x : Between(p, x, w) <=> x = q
  <2>1. \A x : Between(p, x, w) <=> {p, x} = {r, d}
    BY DEF Between
  <2> HIDE DEF r, d
  <2> QED
    BY <1>1, <1>2, <1>3, <2>1
<1>5. \A x : Between(x, p, w) <=> x = q
  <2>1. \A x : Between(x, p, w) <=> {x, p} = {r, d}
    BY DEF Between
  <2> HIDE DEF r, d
  <2> QED
    BY <1>1, <1>2, <1>3, <2>1
<1>6. q \in Peers /\ q # p /\ q \in Party /\ p \in Party /\ q \in Nat
  BY <1>1, <1>2, <1>3, Roles, Parties
<1>7. Net!Connected(p, q)
  <2>1. (p \in Net!Rider /\ q \in Net!Driver) \/ (p \in Net!Driver /\ q \in Net!Rider)
    BY <1>1, <1>2, <1>3
  <2> QED
    BY <1>6, <2>1, Connections
<1> QED
  BY <1>4, <1>5, <1>6, <1>7 DEF q

InputTags(p, q, k) ==
    [w \in Wires |-> IF Gate(w).type = "kInp" /\ Between(p, q, w) /\ input_pid[w] = p
                     THEN TagSeq("input", One(w), k) ELSE Nil]
InputMoves(p, q, k) == IF p \in Peers /\ q \in Peers THEN Each(Levels[1], InputTags(p, q, k)) ELSE Nil

\* Input wire w of party p: the step it makes there.
InputStep(p, w) == IF input_pid[w] = p THEN Send(PeerOf(p, w), "input", One(w))
                                      ELSE Recv(input_pid[w], "input", One(w))

\* The step of one input at one owner moves its tag if it has the direction asked for.
LEMMA InputStepMoves ==
    ASSUME NEW p \in Peers, NEW w \in Wires, w \in OwnWires[p], Gate(w).type = "kInp",
           NEW q \in Party, NEW k \in Nat
    PROVE  /\ InputStep(p, w) \in OtherSteps(p) /\ InputStep(p, w) \in AnyStep
           /\ MovedIn("send", q, k)[InputStep(p, w)] = InputTags(p, q, k)[w]
           /\ MovedIn("recv", q, k)[InputStep(p, w)] = InputTags(q, p, k)[w]
<1> DEFINE r == PeerOf(p, w)
           i == input_pid[w]
           ws == One(w)
           t == TagSeq("input", ws, k)
<1>1. /\ r \in Peers /\ r # p /\ r \in Nat /\ r \in Party /\ Net!Connected(p, r)
      /\ \A x : (Between(p, x, w) <=> x = r) /\ (Between(x, p, w) <=> x = r)
  BY PeerOfOwner
<1>2. i \in {p, r}
  <2>1. i \in {Gate(w).rider_id, Gate(w).driver_id}
    BY InputAssumption
  <2> QED
    BY <2>1 DEF OwnWires, Mine, PeerOf
<1>3. ws \in Seq(Nat) /\ "input" \in Whats /\ "send" \in Ops /\ "recv" \in Ops
  BY TheCircuit DEF One, Whats, Ops
<1>4. /\ InputTags(p, q, k)[w] = IF q = r /\ i = p THEN t ELSE Nil
      /\ InputTags(q, p, k)[w] = IF q = r /\ i = q THEN t ELSE Nil
  BY <1>1 DEF InputTags
<1>5. CASE i = p
  <2>1. InputStep(p, w) = Step("send", r, "input", ws)
    BY <1>5 DEF InputStep, Send
  <2> HIDE DEF r, ws, i
  <2>2. Step("send", r, "input", ws) \in OtherSteps(p) /\ Step("send", r, "input", ws) \in AnyStep
    BY <1>1, <1>3, OtherStep
  <2>3. /\ MovedIn("send", q, k)[Step("send", r, "input", ws)] = IF r = q THEN t ELSE Nil
        /\ MovedIn("recv", q, k)[Step("send", r, "input", ws)] = Nil
    BY <1>1, <1>3, StepMoves
  <2> QED
    BY <1>1, <1>4, <1>5, <2>1, <2>2, <2>3
<1>6. CASE i = r
  <2>1. InputStep(p, w) = Step("recv", r, "input", ws)
    BY <1>1, <1>6 DEF InputStep, Recv
  <2> HIDE DEF r, ws, i
  <2>2. Step("recv", r, "input", ws) \in OtherSteps(p) /\ Step("recv", r, "input", ws) \in AnyStep
    BY <1>1, <1>3, OtherStep
  <2>3. /\ MovedIn("recv", q, k)[Step("recv", r, "input", ws)] = IF r = q THEN t ELSE Nil
        /\ MovedIn("send", q, k)[Step("recv", r, "input", ws)] = Nil
    BY <1>1, <1>3, StepMoves
  <2> QED
    BY <1>1, <1>4, <1>6, <2>1, <2>2, <2>3
<1> QED
  BY <1>2, <1>5, <1>6

\* setInputs: what p sends q is what q reads from p, both walking the first level.
LEMMA InputsMatch ==
    ASSUME NEW p \in Peers, NEW q \in Party, NEW k \in Nat
    PROVE  /\ Each(SetInputs(p), MovedIn("send", q, k)) = InputMoves(p, q, k)
           /\ Each(SetInputs(p), MovedIn("recv", q, k)) = InputMoves(q, p, k)
           /\ SetInputs(p) \in Seq(OtherSteps(p))
<1> DEFINE S == {w \in OwnWires[p] : Gate(w).type = "kInp"}
           X == Wires \cap S
           s == Levels[1]
           G == [w \in Wires |-> One(InputStep(p, w))]
<1>1. s \in Seq(Wires)
  BY LevelsType
<1>2. SetInputs(p) = Each(Pick(s, S), G)
  <2>1. \A w : One(InputStep(p, w)) = IF input_pid[w] = p THEN <<Send(PeerOf(p, w), "input", <<w>>)>>
                                      ELSE <<Recv(input_pid[w], "input", <<w>>)>>
    BY DEF InputStep, One
  <2> QED
    BY <2>1 DEF SetInputs
<1>3. ASSUME NEW w \in X
      PROVE  w \in Wires /\ w \in OwnWires[p] /\ Gate(w).type = "kInp" /\ G[w] = One(InputStep(p, w))
  OBVIOUS
<1>4. ASSUME NEW w \in X
      PROVE  G[w] \in Seq(OtherSteps(p)) /\ G[w] \in Seq(AnyStep)
  <2>1. InputStep(p, w) \in OtherSteps(p) /\ InputStep(p, w) \in AnyStep
    <3> HIDE DEF X, G
    <3> QED
      BY <1>3, InputStepMoves, Parties
  <2> QED
    BY <1>3, <2>1 DEF One
<1>5. Pick(s, S) \in Seq(X)
  <2> HIDE DEF s, S
  <2> QED
    BY <1>1, PickInto
<1>6. Table(G, X, OtherSteps(p)) /\ Table(G, X, AnyStep)
  BY <1>4 DEF Table
<1>7. SetInputs(p) \in Seq(OtherSteps(p))
  <2> HIDE DEF X, G
  <2> QED
    BY <1>2, <1>5, <1>6, EachType
<1>8. ASSUME NEW dir, NEW T, \A w \in X : MovedIn(dir, q, k)[InputStep(p, w)] = T[w],
             \A w \in Wires : w \notin X => T[w] = Nil
      PROVE  Each(SetInputs(p), MovedIn(dir, q, k)) = Each(s, T)
  <2> DEFINE F == MovedIn(dir, q, k)
             u == Pick(s, S)
  <2>1. Table(F, AnyStep, AnyTag)
    BY MovedType
  <2>2. ASSUME NEW w \in X PROVE T[w] = Each(G[w], F) /\ T[w] \in Seq(AnyTag)
    <3>1. F[InputStep(p, w)] \in Seq(AnyTag)
      <4>1. InputStep(p, w) \in AnyStep
        <5> HIDE DEF X, G
        <5> QED
          BY <1>3, InputStepMoves
      <4> QED
        BY <2>1, <4>1 DEF Table
    <3>2. Each(One(InputStep(p, w)), F) = F[InputStep(p, w)]
      <4> HIDE DEF F
      <4> QED
        BY <3>1, EachOne
    <3> QED
      BY <1>3, <1>8, <3>1, <3>2
  <2>3. Table(T, X, AnyTag)
    BY <2>2 DEF Table
  <2> HIDE DEF F
  <2>4. Each(Each(u, G), F) = Each(u, T)
    <3>1. u \in Seq(X)
      BY <1>5
    <3> HIDE DEF X, G, u
    <3> QED
      BY <1>6, <2>1, <2>2, <3>1, EachEach
  <2>5. Each(u, T) = Each(s, T)
    <3>1. \A w \in Wires : T[w] = IF w \in S THEN T[w] ELSE Nil
      BY <1>8
    <3>2. Table(T, Wires \cap S, AnyTag)
      BY <2>3
    <3> HIDE DEF S, s
    <3> QED
      BY <1>1, <3>1, <3>2, EachPick DEF u
  <2> QED
    BY <1>2, <2>4, <2>5 DEF F, u
<1>9. ASSUME NEW w \in Wires, w \notin X
      PROVE  InputTags(p, q, k)[w] = Nil /\ InputTags(q, p, k)[w] = Nil
  <2>1. w \notin OwnWires[p] \/ Gate(w).type # "kInp"
    BY <1>9
  <2>2. w \notin OwnWires[p] => ~ Between(p, q, w) /\ ~ Between(q, p, w)
    BY DEF OwnWires, Mine, Between
  <2> QED
    BY <2>1, <2>2 DEF InputTags
<1>10. ASSUME NEW w \in X
       PROVE  /\ MovedIn("send", q, k)[InputStep(p, w)] = InputTags(p, q, k)[w]
              /\ MovedIn("recv", q, k)[InputStep(p, w)] = InputTags(q, p, k)[w]
  <2> HIDE DEF X
  <2> QED
    BY <1>3, InputStepMoves
<1>11. /\ Each(SetInputs(p), MovedIn("send", q, k)) = Each(s, InputTags(p, q, k))
       /\ Each(SetInputs(p), MovedIn("recv", q, k)) = Each(s, InputTags(q, p, k))
  <2> HIDE DEF X, s
  <2> QED
    BY <1>8, <1>9, <1>10
<1>12. q \notin Peers => /\ Each(s, InputTags(p, q, k)) = Nil
                         /\ Each(s, InputTags(q, p, k)) = Nil
  <2> SUFFICES ASSUME q \notin Peers
               PROVE  \A w \in Wires : InputTags(p, q, k)[w] = Nil /\ InputTags(q, p, k)[w] = Nil
    BY <1>1, EachNothing
  <2>1. \A w \in Wires : ~ Between(p, q, w) /\ ~ Between(q, p, w)
    BY Owners DEF Between
  <2> QED
    BY <2>1 DEF InputTags
<1> QED
  BY <1>7, <1>11, <1>12 DEF InputMoves

\* F says what a step of round k moves to q, or what it moves from q.
Direction(F, q, k) == F = MovedIn("send", q, k) \/ F = MovedIn("recv", q, k)

\* Either direction maps steps to sequences of tags.
LEMMA DirectionType ==
    ASSUME NEW q, NEW k \in Nat, NEW F, Direction(F, q, k)
    PROVE  Table(F, AnyStep, AnyTag)
BY MovedType DEF Direction

LevelMoves(p, q, l, k) ==
    IF p \in Peers /\ q \in Peers THEN TagSeq("level", LevelWires[l][p][q], k) ELSE Nil

\* The gates p and q talk for on a level: both agree, and there are some only if they are
\* connected.
LEMMA LevelWiresType ==
    ASSUME NEW l \in 1 .. Len(Levels), NEW p \in Peers, NEW q \in Peers
    PROVE  /\ LevelWires[l][p][q] \in Seq(Nat)
           /\ LevelWires[l][p][q] = LevelWires[l][q][p]
           /\ LevelWires[l][p][q] # Nil => Net!Connected(p, q) /\ q \in Party
<1> DEFINE a(x, y) == Pick(Levels[l], PairWires(x, y, "kMul"))
           b(x, y) == Pick(Levels[l], PairWires(x, y, "kDotprod"))
           P(x, y) == {w \in Wires : Between(x, y, w)}
<1>1. DOMAIN Levels = 1 .. Len(Levels) /\ Levels[l] \in Seq(Wires)
  BY LevelsType
<1>2. LevelWires[l][p][q] = a(p, q) \o b(p, q) /\ LevelWires[l][q][p] = a(q, p) \o b(q, p)
  BY <1>1 DEF LevelWires
<1>3. \A t : PairWires(p, q, t) = PairWires(q, p, t)
  <2>1. \A w : Between(p, q, w) <=> Between(q, p, w)
    BY DEF Between
  <2> QED
    BY <2>1 DEF PairWires
<1>4. a(p, q) \in Seq(P(p, q)) /\ b(p, q) \in Seq(P(p, q))
  <2> DEFINE s == Levels[l]
  <2>1. ASSUME NEW t PROVE Pick(s, PairWires(p, q, t)) \in Seq(P(p, q))
    <3> DEFINE S == PairWires(p, q, t)
    <3>1. Pick(s, S) \in Seq(Wires \cap S)
      <4> HIDE DEF s, S
      <4> QED
        BY <1>1, PickInto DEF s
    <3>2. Wires \cap S \subseteq P(p, q)
      BY DEF PairWires
    <3> DEFINE u == Pick(s, S)
               Y == Wires \cap S
    <3>3. u \in Seq(Y) /\ Y \subseteq P(p, q)
      BY <3>1, <3>2
    <3> HIDE DEF u, Y, P
    <3>4. u \in Seq(P(p, q))
      BY <3>3, SeqMonotonic
    <3> QED
      BY <3>4 DEF u
  <2> QED
    BY <2>1
<1>5. LevelWires[l][p][q] \in Seq(P(p, q))
  <2> HIDE DEF a, b, P
  <2> QED
    BY <1>2, <1>4, ConcatProperties
<1>6. LevelWires[l][p][q] \in Seq(Nat)
  <2>1. P(p, q) \subseteq Nat
    BY TheCircuit
  <2> HIDE DEF P
  <2> QED
    BY <1>5, <2>1, SeqMonotonic
<1>7. ASSUME LevelWires[l][p][q] # Nil
      PROVE  Net!Connected(p, q) /\ q \in Party
  <2> DEFINE s == LevelWires[l][p][q]
  <2>1. s \in Seq(P(p, q)) /\ Len(s) # 0
    BY <1>5, <1>7, NilType
  <2>2. PICK w \in Wires : Between(p, q, w)
    <3> HIDE DEF s
    <3>1. 1 \in 1 .. Len(s)
      BY <2>1, LenProperties
    <3>2. s[1] \in P(p, q)
      BY <2>1, <3>1, ElementOfSeq
    <3> QED
      BY <3>2
  <2>3. w \in OwnWires[p]
    BY <2>2 DEF OwnWires, Mine, Between
  <2> QED
    BY <2>2, <2>3, PeerOfOwner
<1>8. LevelWires[l][p][q] = LevelWires[l][q][p]
  <2>1. a(q, p) = a(p, q) /\ b(q, p) = b(p, q)
    BY <1>3
  <2> HIDE DEF a, b
  <2> QED
    BY <1>2, <2>1
<1> QED
  BY <1>6, <1>7, <1>8

\* What p does for a peer on a level, if they talk for some gate ws.
FlushStep == Step("flush", 0, "", Nil)
LevelEnd(l) == Step("local", l, "level", Nil)
LevelStep(op, r, ws) == Step(op, r, "level", ws)
Exchange(r, ws) == IF ws = Nil THEN Nil
                   ELSE <<LevelStep("send", r, ws), FlushStep, LevelStep("recv", r, ws)>>
Exchanges(p, l) == [r \in Peers |-> Exchange(r, LevelWires[l][p][r])]

\* The literals of the steps of a level, as members of their sets.
LEMMA Literals ==
    /\ "level" \in Whats /\ "" \in Whats /\ "send" \in Ops /\ "recv" \in Ops /\ "flush" \in Ops
    /\ "local" \in Ops /\ "close" \in Ops /\ "output" \in Whats /\ "key" \in Whats /\ "share" \in Whats
    /\ "match" \in Whats /\ "compare" \in Whats /\ "start" \in Whats
    /\ Nil \in Seq(Nat) /\ 0 \in Nat
BY NilType DEF Whats, Ops

\* The three steps of an exchange are steps of the script.
LEMMA ExchangeType ==
    ASSUME NEW p, NEW r \in Nat, NEW ws \in Seq(Nat), ws # Nil => r \in Party /\ Net!Connected(p, r)
    PROVE  /\ Exchange(r, ws) \in Seq(OtherSteps(p))
           /\ FlushStep \in OtherSteps(p) /\ FlushStep \in AnyStep
           /\ LevelStep("send", r, ws) \in AnyStep /\ LevelStep("recv", r, ws) \in AnyStep
<1> DEFINE a == LevelStep("send", r, ws)
           b == LevelStep("recv", r, ws)
           f == FlushStep
<1>1. f \in OtherSteps(p) /\ f \in AnyStep
  BY Literals, OtherStep DEF FlushStep
<1>2. a \in AnyStep /\ b \in AnyStep
  BY Literals DEF LevelStep, Step, AnyStep
<1>3. CASE ws = Nil
  BY <1>1, <1>2, <1>3, NilType DEF Exchange
<1>4. CASE ws # Nil
  <2>1. a \in OtherSteps(p) /\ b \in OtherSteps(p)
    BY <1>4, Literals, OtherStep DEF LevelStep
  <2>2. Exchange(r, ws) = <<a, f, b>>
    BY <1>4 DEF Exchange
  <2> HIDE DEF a, f, b
  <2>3. <<a, f, b>> \in Seq(OtherSteps(p))
    BY <1>1, <2>1
  <2> QED
    BY <1>1, <1>2, <2>2, <2>3 DEF a, b, f
<1> QED
  BY <1>3, <1>4

\* Of the steps of an exchange with r, one moves its array in either direction.
LEMMA ExchangeStepMoves ==
    ASSUME NEW r \in Nat, NEW ws \in Seq(Nat), NEW q, NEW k \in Nat
    PROVE  /\ MovedIn("send", q, k)[LevelStep("send", r, ws)]
                 = IF r = q THEN TagSeq("level", ws, k) ELSE Nil
           /\ MovedIn("recv", q, k)[LevelStep("recv", r, ws)]
                 = IF r = q THEN TagSeq("level", ws, k) ELSE Nil
           /\ MovedIn("send", q, k)[LevelStep("recv", r, ws)] = Nil
           /\ MovedIn("recv", q, k)[LevelStep("send", r, ws)] = Nil
<1> DEFINE t == TagSeq("level", ws, k)
           u == IF r = q THEN t ELSE Nil
<1>1. ASSUME NEW op \in {"send", "recv"}, NEW dir
      PROVE  MovedIn(dir, q, k)[LevelStep(op, r, ws)] = IF op = dir /\ r = q THEN t ELSE Nil
  <2>1. op \in Ops /\ "level" \in Whats
    BY DEF Ops, Whats
  <2>2. MovedIn(dir, q, k)[Step(op, r, "level", ws)] = IF op = dir /\ r = q THEN t ELSE Nil
    BY <2>1, StepMoves
  <2> QED
    BY <2>2 DEF LevelStep
<1>2. "send" \in {"send", "recv"} /\ "recv" \in {"send", "recv"} /\ "send" # "recv"
  OBVIOUS
<1> HIDE DEF t
<1>3. MovedIn("send", q, k)[LevelStep("send", r, ws)] = u
  BY <1>1, <1>2
<1>4. MovedIn("recv", q, k)[LevelStep("recv", r, ws)] = u
  BY <1>1, <1>2
<1>5. MovedIn("send", q, k)[LevelStep("recv", r, ws)] = Nil
  BY <1>1, <1>2
<1>6. MovedIn("recv", q, k)[LevelStep("send", r, ws)] = Nil
  BY <1>1, <1>2
<1> QED
  BY <1>3, <1>4, <1>5, <1>6 DEF t

\* A step that is neither a send nor a recv moves nothing.
LEMMA OtherMovesNothing ==
    ASSUME NEW op \in Ops, op # "send", op # "recv", NEW peer \in Nat, NEW what \in Whats,
           NEW ws \in Seq(Nat), NEW q, NEW k \in Nat
    PROVE  /\ MovedIn("send", q, k)[Step(op, peer, what, ws)] = Nil
           /\ MovedIn("recv", q, k)[Step(op, peer, what, ws)] = Nil
BY StepMovesNothing

\* A flush and the end of a level move nothing.
LEMMA FlushMovesNothing ==
    ASSUME NEW q, NEW k \in Nat, NEW l \in Nat
    PROVE  /\ MovedIn("send", q, k)[FlushStep] = Nil /\ MovedIn("recv", q, k)[FlushStep] = Nil
           /\ MovedIn("send", q, k)[LevelEnd(l)] = Nil /\ MovedIn("recv", q, k)[LevelEnd(l)] = Nil
<1> DEFINE flush == "flush"
           none == ""
           local == "local"
           level == "level"
<1>1. /\ flush \in Ops /\ flush # "send" /\ flush # "recv"
      /\ local \in Ops /\ local # "send" /\ local # "recv"
      /\ none \in Whats /\ level \in Whats /\ Nil \in Seq(Nat) /\ 0 \in Nat
  BY Literals
<1>2. FlushStep = Step(flush, 0, none, Nil) /\ LevelEnd(l) = Step(local, l, level, Nil)
  BY DEF FlushStep, LevelEnd
<1> HIDE DEF flush, none, local, level
<1>3. MovedIn("send", q, k)[Step(flush, 0, none, Nil)] = Nil
  BY <1>1, OtherMovesNothing
<1>4. MovedIn("recv", q, k)[Step(flush, 0, none, Nil)] = Nil
  BY <1>1, OtherMovesNothing
<1>5. MovedIn("send", q, k)[Step(local, l, level, Nil)] = Nil
  BY <1>1, OtherMovesNothing
<1>6. MovedIn("recv", q, k)[Step(local, l, level, Nil)] = Nil
  BY <1>1, OtherMovesNothing
<1> QED
  BY <1>2, <1>3, <1>4, <1>5, <1>6

\* EachThree for steps and tags.
LEMMA EachThreeTags ==
    ASSUME NEW F, NEW x, NEW y, NEW z,
           F[x] \in Seq(AnyTag), F[y] \in Seq(AnyTag), F[z] \in Seq(AnyTag)
    PROVE  Each(<<x, y, z>>, F) = Cat(Cat(F[x], F[y]), F[z])
<1> DEFINE U == AnyTag
<1>1. F[x] \in Seq(U) /\ F[y] \in Seq(U) /\ F[z] \in Seq(U)
  OBVIOUS
<1> HIDE DEF U
<1> QED
  BY ONLY <1>1, EachThree, SMTT(30)

\* An exchange with r moves the wires of the level if r is the party asked for.
LEMMA ExchangeMoves ==
    ASSUME NEW r \in Nat, NEW ws \in Seq(Nat), NEW q, NEW k \in Nat,
           NEW F, Direction(F, q, k)
    PROVE  Each(Exchange(r, ws), F) = IF r = q THEN TagSeq("level", ws, k) ELSE Nil
<1> DEFINE a == LevelStep("send", r, ws)
           b == LevelStep("recv", r, ws)
           f == FlushStep
           t == TagSeq("level", ws, k)
           u == IF r = q THEN t ELSE Nil
<1>1. (F[a] = u /\ F[b] = Nil) \/ (F[a] = Nil /\ F[b] = u)
  BY ExchangeStepMoves DEF Direction
<1>2. F[f] = Nil
  BY Literals, FlushMovesNothing DEF Direction
<1>3. t \in Seq(AnyTag) /\ Nil \in Seq(AnyTag) /\ (ws = Nil => t = Nil)
  BY Literals, TagSeqType, TagSeqNil, NilType
<1>4. u \in Seq(AnyTag)
  BY <1>3
<1>5. CASE ws = Nil
  <2>1. Exchange(r, ws) = Nil
    BY <1>5 DEF Exchange
  <2> HIDE DEF t
  <2> QED
    BY <1>3, <1>5, <2>1, EachNil DEF t
<1>6. CASE ws # Nil
  <2>1. Exchange(r, ws) = <<a, f, b>>
    BY <1>6 DEF Exchange
  <2> HIDE DEF u, t, a, b, f
  <2>2. F[a] \in Seq(AnyTag) /\ F[b] \in Seq(AnyTag) /\ F[f] \in Seq(AnyTag)
    BY <1>1, <1>2, <1>3, <1>4
  <2>3. Each(<<a, f, b>>, F) = Cat(Cat(F[a], F[f]), F[b])
    BY <2>2, EachThreeTags
  <2>4. Cat(Nil, Nil) = Nil /\ Cat(u, Nil) = u /\ Cat(Nil, u) = u
    BY <1>3, <1>4, CatNil
  <2>5. Each(<<a, f, b>>, F) = u
    BY <1>1, <1>2, <2>3, <2>4
  <2> QED
    BY <2>1, <2>5 DEF u, t
<1> QED
  BY <1>5, <1>6

\* 1 .. nP - 1 are the peers.
LEMMA AllPeers ==
    /\ Net!nP - 1 \in Nat /\ Peers = 1 .. Net!nP - 1 /\ UpTo(Net!nP - 1) \in Seq(Peers)
    /\ Peers \subseteq Nat /\ Peers \subseteq Party
<1> DEFINE n == Net!nP - 1
<1>1. n \in Nat /\ Peers = 1 .. n /\ Peers \subseteq Nat /\ Peers \subseteq Party
  BY Parties
<1> HIDE DEF n
<1>2. UpTo(n) \in Seq(1 .. n)
  BY <1>1, UpToPush
<1> QED
  BY <1>1, <1>2 DEF n

\* A sequence of steps per party moves what the step for q moves.
LEMMA EachPeerMoves ==
    ASSUME NEW A, Table(A, Peers, AnyStep), NEW F, Table(F, AnyStep, AnyTag), NEW q, NEW t,
           q \in Peers => t \in Seq(AnyTag),
           \A r \in Peers : Each(A[r], F) = IF r = q THEN t ELSE Nil
    PROVE  Each(Each(UpTo(Net!nP - 1), A), F) = IF q \in Peers THEN t ELSE Nil
<1> DEFINE n == Net!nP - 1
           H == [r \in Peers |-> Each(A[r], F)]
           u == UpTo(n)
<1>1. n \in Nat /\ Peers = 1 .. n /\ u \in Seq(Peers)
  BY AllPeers
<1>2. \A r \in Peers : H[r] = Each(A[r], F)
  OBVIOUS
<1> HIDE DEF H, u, n
<1>3. Each(Each(u, A), F) = Each(u, H)
  BY <1>1, <1>2, EachEach
<1>4. CASE q \in Peers
  <2>1. PICK j \in 1 .. n : j = q
    BY <1>1, <1>4
  <2>2. H[j] = t /\ H[j] \in Seq(AnyTag) /\ \A r \in 1 .. n : r # j => H[r] = Nil
    BY <1>1, <1>2, <1>4, <2>1
  <2>3. Each(UpTo(n), H) = H[j]
    <3>1. n \in Nat
      BY <1>1
    <3> QED
      BY ONLY <3>1, <2>2, EachIndex
  <2> QED
    BY <1>3, <1>4, <2>2, <2>3 DEF u, n
<1>5. CASE q \notin Peers
  <2>1. \A r \in Peers : H[r] = Nil
    BY <1>2, <1>5
  <2>2. Each(u, H) = Nil
    BY <1>1, <2>1, EachNothing
  <2> QED
    BY <1>3, <1>5, <2>2 DEF u, n
<1> QED
  BY <1>4, <1>5

\* The exchanges of a level are sequences of steps of the script.
LEMMA ExchangesType ==
    ASSUME NEW p \in Peers, NEW l \in 1 .. Len(Levels)
    PROVE  /\ Table(Exchanges(p, l), Peers, OtherSteps(p)) /\ Table(Exchanges(p, l), Peers, AnyStep)
           /\ AtDepth(p, l) = Cat(Each(UpTo(Net!nP - 1), Exchanges(p, l)), One(LevelEnd(l)))
           /\ LevelEnd(l) \in OtherSteps(p) /\ LevelEnd(l) \in AnyStep
           /\ AtDepth(p, l) \in Seq(OtherSteps(p))
<1> DEFINE A == Exchanges(p, l)
           u == UpTo(Net!nP - 1)
           x == LevelEnd(l)
<1>1. ASSUME NEW r \in Peers
      PROVE  A[r] \in Seq(OtherSteps(p)) /\ A[r] = Exchange(r, LevelWires[l][p][r])
  <2> DEFINE ws == LevelWires[l][p][r]
  <2>1. ws \in Seq(Nat) /\ r \in Nat /\ (ws # Nil => r \in Party /\ Net!Connected(p, r))
    BY LevelWiresType, AllPeers
  <2>2. A[r] = Exchange(r, ws)
    BY DEF Exchanges
  <2> HIDE DEF ws, A
  <2>3. Exchange(r, ws) \in Seq(OtherSteps(p))
    BY <2>1, ExchangeType
  <2> QED
    BY <2>2, <2>3 DEF ws
<1> HIDE DEF A
<1>2. \A r \in Peers : A[r] \in Seq(AnyStep)
  BY <1>1, StepsSubset, SeqMonotonic
<1>3. Table(A, Peers, OtherSteps(p)) /\ Table(A, Peers, AnyStep)
  BY <1>1, <1>2 DEF Table
<1>4. AtDepth(p, l) = Cat(Each(u, A), One(x))
  BY DEF AtDepth, Cat, One, Send, Recv, Flush, Nil, A, Exchanges, Exchange, LevelStep, FlushStep, LevelEnd
<1>5. x \in OtherSteps(p) /\ x \in AnyStep
  <2>1. l \in Nat
    BY LevelsType
  <2>2. Step("local", l, "level", Nil) \in OtherSteps(p) /\ Step("local", l, "level", Nil) \in AnyStep
    BY <2>1, Literals, OtherStep
  <2> QED
    BY <2>2 DEF LevelEnd
<1>6. u \in Seq(Peers)
  BY AllPeers
<1> HIDE DEF u, x
<1>7. Each(u, A) \in Seq(OtherSteps(p))
  BY <1>3, <1>6, EachType
<1>8. One(x) \in Seq(OtherSteps(p))
  BY <1>5, OneType
<1>9. Cat(Each(u, A), One(x)) \in Seq(OtherSteps(p))
  BY <1>7, <1>8, CatType
<1> QED
  BY <1>3, <1>4, <1>5, <1>9 DEF A, u, x

\* evaluateGatesAtDepth moves, in either direction, one array per other party.
LEMMA LevelMovesOf ==
    ASSUME NEW p \in Peers, NEW q \in Party, NEW k \in Nat, NEW l \in 1 .. Len(Levels),
           NEW F, Direction(F, q, k)
    PROVE  Each(AtDepth(p, l), F)
              = IF q \in Peers THEN TagSeq("level", LevelWires[l][p][q], k) ELSE Nil
<1> DEFINE A == Exchanges(p, l)
           u == UpTo(Net!nP - 1)
           x == LevelEnd(l)
           t == TagSeq("level", LevelWires[l][p][q], k)
           y == Each(u, A)
           z == One(x)
<1>1. Table(F, AnyStep, AnyTag)
  BY DirectionType
<1>2. F[x] = Nil
  <2>1. l \in Nat
    BY LevelsType
  <2> QED
    BY <2>1, FlushMovesNothing DEF Direction
<1>3. ASSUME NEW r \in Peers
      PROVE  /\ Each(A[r], F) = IF r = q THEN TagSeq("level", LevelWires[l][p][r], k) ELSE Nil
             /\ TagSeq("level", LevelWires[l][p][r], k) \in Seq(AnyTag)
  <2> DEFINE ws == LevelWires[l][p][r]
  <2>1. ws \in Seq(Nat) /\ r \in Nat
    BY LevelWiresType, AllPeers
  <2>2. A[r] = Exchange(r, ws)
    BY DEF Exchanges
  <2> HIDE DEF ws, A
  <2>3. Each(Exchange(r, ws), F) = IF r = q THEN TagSeq("level", ws, k) ELSE Nil
    BY <2>1, ExchangeMoves
  <2>4. TagSeq("level", ws, k) \in Seq(AnyTag)
    BY <2>1, Literals, TagSeqType
  <2> QED
    BY <2>2, <2>3, <2>4 DEF ws
<1>4. Table(A, Peers, AnyStep) /\ x \in AnyStep /\ AtDepth(p, l) = Cat(y, z) /\ u \in Seq(Peers)
  BY ExchangesType, AllPeers
<1>5. y \in Seq(AnyStep)
  <2> HIDE DEF A, u
  <2> QED
    BY <1>4, EachType
<1>6. z \in Seq(AnyStep)
  <2> HIDE DEF x
  <2> QED
    BY <1>4, OneType
<1>7. (q \in Peers => t \in Seq(AnyTag)) /\ \A r \in Peers : Each(A[r], F) = IF r = q THEN t ELSE Nil
  BY <1>3
<1>8. Each(y, F) = IF q \in Peers THEN t ELSE Nil
  <2> HIDE DEF A, t
  <2> QED
    BY <1>1, <1>4, <1>7, EachPeerMoves
<1>9. Each(z, F) = Nil
  <2>1. F[x] \in Seq(AnyTag)
    BY <1>2, NilType
  <2> HIDE DEF x
  <2>2. Each(One(x), F) = F[x]
    BY <2>1, EachOne
  <2> QED
    BY <1>2, <2>2
<1> HIDE DEF y, z, t
<1>10. Each(Cat(y, z), F) = Cat(Each(y, F), Each(z, F))
  BY <1>1, <1>5, <1>6, EachCat
<1>11. Each(y, F) \in Seq(AnyTag)
  BY <1>7, <1>8, NilType
<1>12. Cat(Each(y, F), Nil) = Each(y, F)
  BY <1>11, CatNil
<1> QED
  BY <1>4, <1>8, <1>9, <1>10, <1>12 DEF t

\* evaluateGatesAtDepth: what p sends q for a level is what q reads from p.
LEMMA LevelMatch ==
    ASSUME NEW p \in Peers, NEW q \in Party, NEW k \in Nat, NEW l \in 1 .. Len(Levels)
    PROVE  /\ Each(AtDepth(p, l), MovedIn("send", q, k)) = LevelMoves(p, q, l, k)
           /\ Each(AtDepth(p, l), MovedIn("recv", q, k)) = LevelMoves(q, p, l, k)
           /\ AtDepth(p, l) \in Seq(OtherSteps(p))
<1>1. Direction(MovedIn("send", q, k), q, k) /\ Direction(MovedIn("recv", q, k), q, k)
  BY DEF Direction
<1>2. q \in Peers => LevelWires[l][q][p] = LevelWires[l][p][q]
  BY LevelWiresType
<1> QED
  BY <1>1, <1>2, LevelMovesOf, ExchangesType DEF LevelMoves

\* A sequence of steps for each of 1..n moves what they do, one after the other.
LEMMA UpToMoves ==
    ASSUME NEW n \in Nat, NEW X, NEW A, Table(A, 1 .. n, X), NEW U, NEW F, Table(F, X, U),
           NEW H, \A i \in 1 .. n : H[i] = Each(A[i], F)
    PROVE  /\ Each(Each(UpTo(n), A), F) = Each(UpTo(n), H)
           /\ Each(UpTo(n), A) \in Seq(X) /\ Each(UpTo(n), H) \in Seq(U)
<1> DEFINE I == 1 .. n
           u == UpTo(n)
<1>1. u \in Seq(I)
  BY UpToPush
<1>2. \A i \in I : H[i] = Each(A[i], F)
  OBVIOUS
<1>3. Table(A, I, X)
  OBVIOUS
<1> HIDE DEF I, u
<1>4. Each(Each(u, A), F) = Each(u, H)
  BY <1>1, <1>2, <1>3, EachEach
<1>5. Each(u, A) \in Seq(X)
  BY <1>1, <1>3, EachType
<1>6. Each(Each(u, A), F) \in Seq(U)
  BY <1>5, EachType
<1> QED
  BY <1>4, <1>5, <1>6 DEF u

LevelTable(p, q, k) == [l \in 1 .. Len(Levels) |-> LevelMoves(p, q, l, k)]
LevelsMoves(p, q, k) == Each(UpTo(Len(Levels)), LevelTable(p, q, k))
OnlineMoves(p, q, k) == Cat(InputMoves(p, q, k), LevelsMoves(p, q, k))
LevelSteps(p) == [l \in 1 .. Len(Levels) |-> AtDepth(p, l)]

\* The same for all levels.
LEMMA LevelsMatch ==
    ASSUME NEW p \in Peers, NEW q \in Party, NEW k \in Nat
    PROVE  LET s == Each(UpTo(Len(Levels)), LevelSteps(p))
           IN  /\ Each(s, MovedIn("send", q, k)) = LevelsMoves(p, q, k)
               /\ Each(s, MovedIn("recv", q, k)) = LevelsMoves(q, p, k)
               /\ s \in Seq(OtherSteps(p))
<1> DEFINE n == Len(Levels)
           A == LevelSteps(p)
           F == MovedIn("send", q, k)
           G == MovedIn("recv", q, k)
           HF == LevelTable(p, q, k)
           HG == LevelTable(q, p, k)
<1>1. n \in Nat
  BY LevelsType
<1>2. ASSUME NEW l \in 1 .. n
      PROVE  /\ A[l] \in Seq(OtherSteps(p)) /\ A[l] \in Seq(AnyStep)
             /\ HF[l] = Each(A[l], F) /\ HG[l] = Each(A[l], G)
  <2>1. A[l] = AtDepth(p, l) /\ HF[l] = LevelMoves(p, q, l, k) /\ HG[l] = LevelMoves(q, p, l, k)
    BY DEF LevelSteps, LevelTable
  <2>2. /\ Each(AtDepth(p, l), MovedIn("send", q, k)) = LevelMoves(p, q, l, k)
        /\ Each(AtDepth(p, l), MovedIn("recv", q, k)) = LevelMoves(q, p, l, k)
        /\ AtDepth(p, l) \in Seq(OtherSteps(p))
    BY LevelMatch
  <2>3. AtDepth(p, l) \in Seq(AnyStep)
    BY <2>2, StepsSubset, SeqMonotonic
  <2> HIDE DEF A, HF, HG
  <2> QED
    BY <2>1, <2>2, <2>3
<1>3. Table(F, AnyStep, AnyTag) /\ Table(G, AnyStep, AnyTag)
  BY MovedType
<1> HIDE DEF A, F, G, HF, HG, n
<1>4. Table(A, 1 .. n, OtherSteps(p)) /\ Table(A, 1 .. n, AnyStep)
  BY <1>2 DEF Table
<1>5. Each(Each(UpTo(n), A), F) = Each(UpTo(n), HF)
  BY <1>1, <1>2, <1>3, <1>4, UpToMoves
<1>6. Each(Each(UpTo(n), A), G) = Each(UpTo(n), HG)
  BY <1>1, <1>2, <1>3, <1>4, UpToMoves
<1>7. Each(UpTo(n), A) \in Seq(OtherSteps(p))
  <2> DEFINE I == 1 .. n
             u == UpTo(n)
  <2>1. u \in Seq(I)
    BY <1>1, UpToPush
  <2>2. Table(A, I, OtherSteps(p))
    BY <1>4
  <2> HIDE DEF I, u
  <2> QED
    BY <2>1, <2>2, EachType DEF u
<1> QED
  BY <1>5, <1>6, <1>7 DEF A, F, G, HF, HG, n, LevelsMoves

\* The online phase: what p sends q is what q reads from p.
LEMMA OnlineMatch ==
    ASSUME NEW p \in Party, NEW q \in Party, NEW k \in Nat
    PROVE  /\ Each(Online(p), MovedIn("send", q, k)) = OnlineMoves(p, q, k)
           /\ Each(Online(p), MovedIn("recv", q, k)) = OnlineMoves(q, p, k)
           /\ Online(p) \in Seq(OtherSteps(p))
<1>1. CASE p = 0
  <2>1. Online(p) = Nil
    BY <1>1 DEF Online, Nil
  <2>2. InputMoves(p, q, k) = Nil /\ InputMoves(q, p, k) = Nil
    BY <1>1, Roles DEF InputMoves
  <2>3. \A l \in 1 .. Len(Levels) : LevelTable(p, q, k)[l] = Nil /\ LevelTable(q, p, k)[l] = Nil
    BY <1>1, Roles DEF LevelTable, LevelMoves
  <2>4. LevelsMoves(p, q, k) = Nil /\ LevelsMoves(q, p, k) = Nil
    <3> DEFINE n == Len(Levels)
               I == 1 .. n
               u == UpTo(n)
    <3>1. u \in Seq(I)
      BY LevelsType, UpToPush
    <3>2. \A l \in I : LevelTable(p, q, k)[l] = Nil /\ LevelTable(q, p, k)[l] = Nil
      BY <2>3
    <3> HIDE DEF I, u
    <3>3. Each(u, LevelTable(p, q, k)) = Nil
      BY <3>1, <3>2, EachNothing
    <3>4. Each(u, LevelTable(q, p, k)) = Nil
      BY <3>1, <3>2, EachNothing
    <3> QED
      BY <3>3, <3>4 DEF LevelsMoves, u
  <2>5. Cat(Nil, Nil) = Nil
    BY NilType, CatNil
  <2>6. \A F : Each(Nil, F) = Nil
    BY EachNil
  <2>7. Nil \in Seq(OtherSteps(p))
    BY NilType
  <2> QED
    BY <2>1, <2>2, <2>4, <2>5, <2>6, <2>7 DEF OnlineMoves
<1>2. CASE p \in Peers
  <2> DEFINE s == SetInputs(p)
             t == Each(UpTo(Len(Levels)), LevelSteps(p))
             F == MovedIn("send", q, k)
             G == MovedIn("recv", q, k)
  <2>1. Online(p) = Cat(s, t)
    <3>1. p # 0
      BY <1>2, Roles
    <3> QED
      BY <3>1 DEF Online, Cat, LevelSteps
  <2>2. /\ s \in Seq(OtherSteps(p)) /\ t \in Seq(OtherSteps(p))
        /\ Each(s, F) = InputMoves(p, q, k) /\ Each(s, G) = InputMoves(q, p, k)
        /\ Each(t, F) = LevelsMoves(p, q, k) /\ Each(t, G) = LevelsMoves(q, p, k)
    BY <1>2, InputsMatch, LevelsMatch
  <2>3. Table(F, AnyStep, AnyTag) /\ Table(G, AnyStep, AnyTag)
    BY MovedType
  <2> HIDE DEF s, t, F, G
  <2>4. s \in Seq(AnyStep) /\ t \in Seq(AnyStep)
    BY <2>2, StepsSubset, SeqMonotonic
  <2>5. Each(Cat(s, t), F) = Cat(Each(s, F), Each(t, F))
    BY <2>3, <2>4, EachCat
  <2>6. Each(Cat(s, t), G) = Cat(Each(s, G), Each(t, G))
    BY <2>3, <2>4, EachCat
  <2>7. Cat(s, t) \in Seq(OtherSteps(p))
    BY <2>2, CatType
  <2> QED
    BY <2>1, <2>2, <2>5, <2>6, <2>7 DEF F, G, OnlineMoves
<1> QED
  BY <1>1, <1>2, Roles
-----------------------------------------------------------------------------
(***************************************************************************)
(* The same for the entry points.                                          *)
(***************************************************************************)
\* What one step of a party moves, with the literals of the entry points' steps.
LEMMA SendStep ==
    ASSUME NEW p \in Party, NEW r \in Party, Net!Connected(p, r), NEW ws \in Seq(Nat),
           NEW what \in {"output", "key", "share"}, NEW q, NEW k \in Nat
    PROVE  /\ Send(r, what, ws) \in OtherSteps(p) /\ Send(r, what, ws) \in AnyStep
           /\ MovedIn("send", q, k)[Send(r, what, ws)] = IF r = q THEN TagSeq(what, ws, k) ELSE Nil
           /\ MovedIn("recv", q, k)[Send(r, what, ws)] = Nil
           /\ TagSeq(what, ws, k) \in Seq(AnyTag)
<1>1. r \in Nat /\ what \in Whats /\ "send" \in Ops /\ "send" # "recv"
  BY Parties DEF Whats, Ops
<1>2. TagSeq(what, ws, k) \in Seq(AnyTag)
  BY <1>1, TagSeqType
<1>3. Step("send", r, what, ws) \in OtherSteps(p) /\ Step("send", r, what, ws) \in AnyStep
  <2>1. what # "lengths" /\ what # "preproc" /\ what \notin {"start", "match", "compare"}
    OBVIOUS
  <2> QED
    BY <1>1, <2>1, OtherStep
<1>4. MovedIn("send", q, k)[Step("send", r, what, ws)] = IF r = q THEN TagSeq(what, ws, k) ELSE Nil
  BY <1>1, StepMoves
<1>5. MovedIn("recv", q, k)[Step("send", r, what, ws)] = Nil
  BY <1>1, StepMovesNothing
<1> QED
  BY <1>2, <1>3, <1>4, <1>5 DEF Send

\* The same for a read.
LEMMA RecvStep ==
    ASSUME NEW p \in Party, NEW r \in Party, Net!Connected(p, r), NEW ws \in Seq(Nat),
           NEW what \in {"output", "key", "share"}, NEW q, NEW k \in Nat
    PROVE  /\ Recv(r, what, ws) \in OtherSteps(p) /\ Recv(r, what, ws) \in AnyStep
           /\ MovedIn("recv", q, k)[Recv(r, what, ws)] = IF r = q THEN TagSeq(what, ws, k) ELSE Nil
           /\ MovedIn("send", q, k)[Recv(r, what, ws)] = Nil
           /\ TagSeq(what, ws, k) \in Seq(AnyTag)
<1>1. r \in Nat /\ what \in Whats /\ "recv" \in Ops /\ "send" # "recv"
  BY Parties DEF Whats, Ops
<1>2. TagSeq(what, ws, k) \in Seq(AnyTag)
  BY <1>1, TagSeqType
<1>3. Step("recv", r, what, ws) \in OtherSteps(p) /\ Step("recv", r, what, ws) \in AnyStep
  <2>1. what # "lengths" /\ what # "preproc" /\ what \notin {"start", "match", "compare"}
    OBVIOUS
  <2> QED
    BY <1>1, <2>1, OtherStep
<1>4. MovedIn("recv", q, k)[Step("recv", r, what, ws)] = IF r = q THEN TagSeq(what, ws, k) ELSE Nil
  BY <1>1, StepMoves
<1>5. MovedIn("send", q, k)[Step("recv", r, what, ws)] = Nil
  BY <1>1, StepMovesNothing
<1> QED
  BY <1>2, <1>3, <1>4, <1>5 DEF Recv

\* A flush or local step moves nothing.
LEMMA StillStep ==
    ASSUME NEW p, NEW q, NEW k \in Nat, NEW what \in {"start", "match", "compare"}
    PROVE  /\ Local(what) \in OtherSteps(p) /\ Local(what) \in AnyStep
           /\ MovedIn("send", q, k)[Local(what)] = Nil /\ MovedIn("recv", q, k)[Local(what)] = Nil
<1>1. what \in Whats /\ what # "lengths" /\ what # "preproc" /\ "local" \in Ops
      /\ "local" # "send" /\ "local" # "recv" /\ Nil \in Seq(Nat) /\ 0 \in Nat
  BY Literals DEF Whats
<1>2. /\ MovedIn("send", q, k)[Step("local", 0, what, Nil)] = Nil
      /\ MovedIn("recv", q, k)[Step("local", 0, what, Nil)] = Nil
  BY <1>1, OtherMovesNothing
<1>3. Step("local", 0, what, Nil) \in OtherSteps(p) /\ Step("local", 0, what, Nil) \in AnyStep
  BY <1>1, OtherStep
<1> QED
  BY <1>2, <1>3 DEF Local, Nil

\* GetOutputs: what rider p sends the SP, output by output.
OutputTags(p, k) ==
    [w \in Wires |-> IF p = Gate(w).rider_id THEN TagSeq("output", One(w), k) ELSE Nil]
OutputMoves(p, q, k) ==
    IF q = 0 /\ p \in Peers THEN Each(circ.outputs, OutputTags(p, k)) ELSE Nil
OutputSteps(p) ==
    [w \in Wires |-> IF p = 0 THEN <<FlushStep, Recv(Gate(w).rider_id, "output", One(w))>>
                     ELSE IF p = Gate(w).rider_id THEN One(Send(0, "output", One(w))) ELSE Nil]

\* The step of one output, by the party whose step it is.
LEMMA OutputStepMoves ==
    ASSUME NEW p \in Party, NEW q \in Party, NEW k \in Nat, NEW w \in Wires
    PROVE  LET s == OutputSteps(p)[w]
           IN  /\ s \in Seq(OtherSteps(p)) /\ s \in Seq(AnyStep)
               /\ Each(s, MovedIn("send", q, k))
                     = IF p # 0 /\ q = 0 THEN OutputTags(p, k)[w] ELSE Nil
               /\ Each(s, MovedIn("recv", q, k))
                     = IF p = 0 /\ q # 0 THEN OutputTags(q, k)[w] ELSE Nil
<1> DEFINE r == Gate(w).rider_id
           s == OutputSteps(p)[w]
           F == MovedIn("send", q, k)
           G == MovedIn("recv", q, k)
           ws == One(w)
           t == TagSeq("output", ws, k)
<1>1. r \in Peers /\ r \in Party /\ r # 0 /\ 0 \in Party /\ Net!Connected(0, r) /\ Net!Connected(r, 0)
  <2>1. r \in Peers /\ r \in Party /\ r # 0 /\ 0 \in Party
    BY Owners, Roles
  <2> HIDE DEF r
  <2> QED
    BY <2>1, Connections
<1>2. ws \in Seq(Nat) /\ Nil \in Seq(AnyTag) /\ Cat(Nil, Nil) = Nil
  BY TheCircuit, NilType, CatNil DEF One
<1>3. OutputTags(p, k)[w] = (IF p = r THEN t ELSE Nil) /\ OutputTags(q, k)[w] = (IF q = r THEN t ELSE Nil)
  BY DEF OutputTags
<1>4. t \in Seq(AnyTag)
  <2> HIDE DEF ws
  <2> QED
    BY <1>2, Literals, TagSeqType
<1>5. CASE p = 0
  <2> DEFINE f == FlushStep
             x == Recv(r, "output", ws)
  <2>1. s = <<f, x>>
    BY <1>5 DEF OutputSteps
  <2>2. f \in OtherSteps(p) /\ f \in AnyStep
    BY Literals, OtherStep DEF FlushStep
  <2>3. F[f] = Nil /\ G[f] = Nil
    <3>1. 0 \in Nat
      OBVIOUS
    <3> QED
      BY <3>1, FlushMovesNothing
  <2>4. /\ x \in OtherSteps(p) /\ x \in AnyStep
        /\ G[x] = IF r = q THEN t ELSE Nil
        /\ F[x] = Nil
    <3> HIDE DEF r, ws
    <3> QED
      BY <1>1, <1>2, <1>5, RecvStep
  <2> HIDE DEF f, x, F, G, s, t, r, ws
  <2>5. <<f, x>> \in Seq(OtherSteps(p)) /\ <<f, x>> \in Seq(AnyStep)
    BY <2>2, <2>4
  <2>6. F[f] \in Seq(AnyTag) /\ F[x] \in Seq(AnyTag) /\ G[f] \in Seq(AnyTag) /\ G[x] \in Seq(AnyTag)
    BY <1>2, <1>4, <2>3, <2>4
  <2>7. Each(<<f, x>>, F) = Cat(F[f], F[x])
    BY <2>6, EachTwo
  <2>8. Each(<<f, x>>, G) = Cat(G[f], G[x])
    BY <2>6, EachTwo
  <2>9. Cat(Nil, t) = t
    BY <1>4, CatNil
  <2>10. Each(<<f, x>>, F) = Nil
    BY <1>2, <2>3, <2>4, <2>7
  <2>11. Each(<<f, x>>, G) = IF r = q THEN t ELSE Nil
    BY <1>2, <2>3, <2>4, <2>8, <2>9
  <2>12. Each(s, F) = IF p # 0 /\ q = 0 THEN OutputTags(p, k)[w] ELSE Nil
    BY <1>5, <2>1, <2>10
  <2>13. Each(s, G) = IF p = 0 /\ q # 0 THEN OutputTags(q, k)[w] ELSE Nil
    BY <1>1, <1>3, <1>5, <2>1, <2>11
  <2>14. s \in Seq(OtherSteps(p)) /\ s \in Seq(AnyStep)
    BY <2>1, <2>5
  <2> QED
    BY <2>12, <2>13, <2>14 DEF s, F, G
<1>6. CASE p = r
  <2> DEFINE x == Send(0, "output", ws)
  <2>1. s = One(x)
    BY <1>1, <1>6 DEF OutputSteps
  <2>2. /\ x \in OtherSteps(p) /\ x \in AnyStep
        /\ F[x] = IF 0 = q THEN t ELSE Nil
        /\ G[x] = Nil
    <3> HIDE DEF r, ws
    <3> QED
      BY <1>1, <1>2, <1>6, SendStep
  <2> HIDE DEF x, F, G, s, t, r, ws
  <2>3. One(x) \in Seq(OtherSteps(p)) /\ One(x) \in Seq(AnyStep)
    BY <2>2, OneType
  <2>4. F[x] \in Seq(AnyTag) /\ G[x] \in Seq(AnyTag)
    BY <1>2, <1>4, <2>2
  <2>5. Each(One(x), F) = F[x]
    BY <2>4, EachOne
  <2>6. Each(One(x), G) = G[x]
    BY <2>4, EachOne
  <2>7. Each(s, F) = IF p # 0 /\ q = 0 THEN OutputTags(p, k)[w] ELSE Nil
    BY <1>1, <1>3, <1>6, <2>1, <2>2, <2>5
  <2>8. Each(s, G) = IF p = 0 /\ q # 0 THEN OutputTags(q, k)[w] ELSE Nil
    BY <1>1, <1>6, <2>1, <2>2, <2>6
  <2>9. s \in Seq(OtherSteps(p)) /\ s \in Seq(AnyStep)
    BY <2>1, <2>3
  <2> QED
    BY <2>7, <2>8, <2>9 DEF s, F, G
<1>7. CASE p # 0 /\ p # r
  <2>1. s = Nil
    BY <1>7 DEF OutputSteps
  <2>2. \A H : Each(Nil, H) = Nil
    BY EachNil
  <2>3. Nil \in Seq(OtherSteps(p)) /\ Nil \in Seq(AnyStep)
    BY NilType
  <2> QED
    BY <1>3, <1>7, <2>1, <2>2, <2>3
<1> QED
  BY <1>5, <1>6, <1>7

\* getOutputs: what p sends q is what q reads from p.
LEMMA OutputsMatch ==
    ASSUME NEW p \in Party, NEW q \in Party, NEW k \in Nat
    PROVE  /\ Each(GetOutputs(p), MovedIn("send", q, k)) = OutputMoves(p, q, k)
           /\ Each(GetOutputs(p), MovedIn("recv", q, k)) = OutputMoves(q, p, k)
           /\ GetOutputs(p) \in Seq(OtherSteps(p))
<1> DEFINE A == OutputSteps(p)
           s == circ.outputs
           F == MovedIn("send", q, k)
           G == MovedIn("recv", q, k)
           HF == [w \in Wires |-> IF p # 0 /\ q = 0 THEN OutputTags(p, k)[w] ELSE Nil]
           HG == [w \in Wires |-> IF p = 0 /\ q # 0 THEN OutputTags(q, k)[w] ELSE Nil]
<1>1. GetOutputs(p) = Each(s, A)
  BY DEF GetOutputs, OutputSteps, Flush, FlushStep, One, Nil
<1>2. s \in Seq(Wires)
  BY TheCircuit
<1>3. \A w \in Wires : /\ A[w] \in Seq(OtherSteps(p)) /\ A[w] \in Seq(AnyStep)
                       /\ HF[w] = Each(A[w], F) /\ HG[w] = Each(A[w], G)
  BY OutputStepMoves
<1>4. /\ p # 0 /\ q = 0 => \A w \in Wires : HF[w] = OutputTags(p, k)[w]
      /\ ~ (p # 0 /\ q = 0) => \A w \in Wires : HF[w] = Nil
      /\ p = 0 /\ q # 0 => \A w \in Wires : HG[w] = OutputTags(q, k)[w]
      /\ ~ (p = 0 /\ q # 0) => \A w \in Wires : HG[w] = Nil
  OBVIOUS
<1>5. Table(F, AnyStep, AnyTag) /\ Table(G, AnyStep, AnyTag)
  BY MovedType
<1> HIDE DEF A, s, F, G, HF, HG
<1>6. Table(A, Wires, OtherSteps(p)) /\ Table(A, Wires, AnyStep)
  BY <1>3 DEF Table
<1>7. Each(Each(s, A), F) = Each(s, HF)
  BY <1>2, <1>3, <1>5, <1>6, EachEach
<1>8. Each(Each(s, A), G) = Each(s, HG)
  BY <1>2, <1>3, <1>5, <1>6, EachEach
<1>9. Each(s, A) \in Seq(OtherSteps(p))
  BY <1>2, <1>6, EachType
<1>10. Each(s, HF) = OutputMoves(p, q, k)
  <2>1. CASE p # 0 /\ q = 0
    <3>1. \A w \in Wires : HF[w] = OutputTags(p, k)[w]
      BY <1>4, <2>1
    <3>2. Each(s, HF) = Each(s, OutputTags(p, k))
      BY <1>2, <3>1, EachSame
    <3>3. p \in Peers
      BY <2>1, Roles
    <3> QED
      BY <2>1, <3>2, <3>3 DEF OutputMoves, s
  <2>2. CASE ~ (p # 0 /\ q = 0)
    <3>1. \A w \in Wires : HF[w] = Nil
      BY <1>4, <2>2
    <3>2. Each(s, HF) = Nil
      BY <1>2, <3>1, EachNothing
    <3>3. ~ (q = 0 /\ p \in Peers)
      BY <2>2, Roles
    <3> QED
      BY <3>2, <3>3 DEF OutputMoves
  <2> QED
    BY <2>1, <2>2
<1>11. Each(s, HG) = OutputMoves(q, p, k)
  <2>1. CASE p = 0 /\ q # 0
    <3>1. \A w \in Wires : HG[w] = OutputTags(q, k)[w]
      BY <1>4, <2>1
    <3>2. Each(s, HG) = Each(s, OutputTags(q, k))
      BY <1>2, <3>1, EachSame
    <3>3. q \in Peers
      BY <2>1, Roles
    <3> QED
      BY <2>1, <3>2, <3>3 DEF OutputMoves, s
  <2>2. CASE ~ (p = 0 /\ q # 0)
    <3>1. \A w \in Wires : HG[w] = Nil
      BY <1>4, <2>2
    <3>2. Each(s, HG) = Nil
      BY <1>2, <3>1, EachNothing
    <3>3. ~ (p = 0 /\ q \in Peers)
      BY <2>2, Roles
    <3> QED
      BY <3>2, <3>3 DEF OutputMoves
  <2> QED
    BY <2>1, <2>2
<1> QED
  BY <1>1, <1>7, <1>8, <1>9, <1>10, <1>11 DEF F, G

\* The outputs of a party are a list of wires.
LEMMA MyOutputsType ==
    ASSUME NEW p \in Peers
    PROVE  MyOutputs[p] \in Seq(Nat) /\ MyOutputs[p] \in Seq(Wires)
<1>1. MyOutputs[p] = Pick(circ.outputs, OwnWires[p])
  BY DEF MyOutputs
<1>2. Pick(circ.outputs, OwnWires[p]) \in Seq(Wires)
  <2> DEFINE o == circ.outputs
             S == OwnWires[p]
             Y == Wires \cap S
             t == Pick(o, S)
  <2>1. o \in Seq(Wires)
    BY TheCircuit
  <2> HIDE DEF o, S
  <2>2. t \in Seq(Y)
    BY <2>1, PickInto
  <2>3. Y \subseteq Wires
    OBVIOUS
  <2> HIDE DEF t, Y
  <2>4. t \in Seq(Wires)
    BY <2>2, <2>3, SeqMonotonic
  <2> QED
    BY <2>4 DEF t, o, S
<1> QED
  BY <1>1, <1>2, TheCircuit, SeqMonotonic

\* The outputs as numbers.
LEMMA OutputsType ==
    circ.outputs \in Seq(Nat)
BY TheCircuit, SeqMonotonic

\* The SP is connected with every peer.
LEMMA SPConnected ==
    ASSUME NEW p \in Peers
    PROVE  /\ p \in Party /\ p # 0 /\ p \in Nat /\ 0 \in Party /\ 0 \notin Peers
           /\ Net!Connected(0, p) /\ Net!Connected(p, 0)
<1>1. p \in Party /\ p # 0 /\ p \in Nat /\ 0 \in Party /\ 0 \notin Peers
  BY Roles, Parties
<1> QED
  BY <1>1, Connections

\* Each of four joined sequences.
LEMMA CatFour ==
    ASSUME NEW X, NEW U, NEW F, Table(F, X, U),
           NEW a \in Seq(X), NEW b \in Seq(X), NEW c \in Seq(X), NEW d \in Seq(X)
    PROVE  /\ Each(Cat(Cat(Cat(a, b), c), d), F)
                 = Cat(Cat(Cat(Each(a, F), Each(b, F)), Each(c, F)), Each(d, F))
           /\ Cat(Cat(Cat(a, b), c), d) \in Seq(X)
<1>1. Cat(a, b) \in Seq(X)
  BY CatType
<1>2. Cat(Cat(a, b), c) \in Seq(X)
  BY <1>1, CatType
<1>3. Cat(Cat(Cat(a, b), c), d) \in Seq(X)
  BY <1>2, CatType
<1>4. Each(Cat(a, b), F) = Cat(Each(a, F), Each(b, F))
  BY EachCat
<1>5. Each(Cat(Cat(a, b), c), F) = Cat(Each(Cat(a, b), F), Each(c, F))
  BY <1>1, EachCat
<1>6. Each(Cat(Cat(Cat(a, b), c), d), F) = Cat(Each(Cat(Cat(a, b), c), F), Each(d, F))
  BY <1>2, EachCat
<1> QED
  BY <1>3, <1>4, <1>5, <1>6

\* The comparison for all pairs: the SP sends every party its keys, and the party
\* answers with its shares.
MatchingMoves(p, q, k) ==
    IF p = 0 /\ q \in Peers THEN TagSeq("key", MyOutputs[q], k)
    ELSE IF q = 0 /\ p \in Peers THEN TagSeq("share", MyOutputs[p], k)
    ELSE Nil
KeySteps == [i \in Peers |-> One(Send(i, "key", MyOutputs[i]))]
ShareSteps == [i \in Peers |-> One(Recv(i, "share", MyOutputs[i]))]

\* The SP's keys: one array for each peer.
LEMMA KeyStepsMove ==
    ASSUME NEW q \in Party, NEW k \in Nat
    PROVE  LET s == Each(UpTo(Net!nP - 1), KeySteps)
           IN  /\ s \in Seq(OtherSteps(0)) /\ s \in Seq(AnyStep)
               /\ Each(s, MovedIn("send", q, k))
                     = IF q \in Peers THEN TagSeq("key", MyOutputs[q], k) ELSE Nil
               /\ Each(s, MovedIn("recv", q, k)) = Nil
<1> DEFINE A == KeySteps
           F == MovedIn("send", q, k)
           G == MovedIn("recv", q, k)
           t == TagSeq("key", MyOutputs[q], k)
           u == UpTo(Net!nP - 1)
<1>1. ASSUME NEW r \in Peers
      PROVE  /\ A[r] \in Seq(OtherSteps(0)) /\ A[r] \in Seq(AnyStep)
             /\ Each(A[r], F) = IF r = q THEN t ELSE Nil
             /\ Each(A[r], G) = Nil
             /\ TagSeq("key", MyOutputs[r], k) \in Seq(AnyTag)
  <2> DEFINE ws == MyOutputs[r]
             x == Send(r, "key", ws)
             v == TagSeq("key", ws, k)
  <2>1. ws \in Seq(Nat) /\ r \in Party /\ Net!Connected(0, r) /\ 0 \in Party
    BY MyOutputsType, SPConnected
  <2>2. A[r] = One(x)
    BY DEF KeySteps
  <2>3. r = q => t = v
    OBVIOUS
  <2> HIDE DEF ws, A, t
  <2>4. /\ x \in OtherSteps(0) /\ x \in AnyStep /\ v \in Seq(AnyTag)
        /\ F[x] = IF r = q THEN v ELSE Nil
        /\ G[x] = Nil
    BY <2>1, SendStep
  <2> HIDE DEF x, v, F, G
  <2>5. One(x) \in Seq(OtherSteps(0)) /\ One(x) \in Seq(AnyStep)
    BY <2>4, OneType
  <2>6. F[x] \in Seq(AnyTag) /\ G[x] \in Seq(AnyTag)
    BY <2>4, NilType
  <2>7. Each(One(x), F) = F[x]
    BY <2>6, EachOne
  <2>8. Each(One(x), G) = G[x]
    BY <2>6, EachOne
  <2>9. Each(A[r], F) = IF r = q THEN t ELSE Nil
    BY <2>2, <2>3, <2>4, <2>7
  <2>10. Each(A[r], G) = Nil
    BY <2>2, <2>4, <2>8
  <2> QED
    BY <2>2, <2>4, <2>5, <2>9, <2>10 DEF v, ws
<1>2. q \in Peers => t \in Seq(AnyTag)
  BY <1>1
<1>3. Table(F, AnyStep, AnyTag) /\ Table(G, AnyStep, AnyTag)
  BY MovedType
<1>4. u \in Seq(Peers)
  BY AllPeers
<1> HIDE DEF A, F, G, t
<1>5. Table(A, Peers, OtherSteps(0)) /\ Table(A, Peers, AnyStep)
  BY <1>1 DEF Table
<1>6. Each(u, A) \in Seq(OtherSteps(0))
  <2> HIDE DEF u
  <2> QED
    BY <1>4, <1>5, EachType
<1>7. Each(u, A) \in Seq(AnyStep)
  <2> HIDE DEF u
  <2> QED
    BY <1>4, <1>5, EachType
<1>8. Each(Each(u, A), F) = IF q \in Peers THEN t ELSE Nil
  <2>1. \A r \in Peers : Each(A[r], F) = IF r = q THEN t ELSE Nil
    BY <1>1
  <2> QED
    BY <1>2, <1>3, <1>5, <2>1, EachPeerMoves
<1>9. Each(Each(u, A), G) = Nil
  <2> DEFINE H == [r \in Peers |-> Nil]
  <2>1. \A r \in Peers : H[r] = Each(A[r], G) /\ H[r] = Nil
    BY <1>1
  <2> HIDE DEF H, u
  <2>2. Each(Each(u, A), G) = Each(u, H)
    BY <1>3, <1>4, <1>5, <2>1, EachEach
  <2>3. Each(u, H) = Nil
    BY <1>4, <2>1, EachNothing
  <2> QED
    BY <2>2, <2>3
<1> QED
  BY <1>6, <1>7, <1>8, <1>9 DEF A, F, G, t

\* The shares the SP reads: one array from each peer.
LEMMA ShareStepsMove ==
    ASSUME NEW q \in Party, NEW k \in Nat
    PROVE  LET s == Each(UpTo(Net!nP - 1), ShareSteps)
           IN  /\ s \in Seq(OtherSteps(0)) /\ s \in Seq(AnyStep)
               /\ Each(s, MovedIn("recv", q, k))
                     = IF q \in Peers THEN TagSeq("share", MyOutputs[q], k) ELSE Nil
               /\ Each(s, MovedIn("send", q, k)) = Nil
<1> DEFINE A == ShareSteps
           F == MovedIn("recv", q, k)
           G == MovedIn("send", q, k)
           t == TagSeq("share", MyOutputs[q], k)
           u == UpTo(Net!nP - 1)
<1>1. ASSUME NEW r \in Peers
      PROVE  /\ A[r] \in Seq(OtherSteps(0)) /\ A[r] \in Seq(AnyStep)
             /\ Each(A[r], F) = IF r = q THEN t ELSE Nil
             /\ Each(A[r], G) = Nil
             /\ TagSeq("share", MyOutputs[r], k) \in Seq(AnyTag)
  <2> DEFINE ws == MyOutputs[r]
             x == Recv(r, "share", ws)
             v == TagSeq("share", ws, k)
  <2>1. ws \in Seq(Nat) /\ r \in Party /\ Net!Connected(0, r) /\ 0 \in Party
    BY MyOutputsType, SPConnected
  <2>2. A[r] = One(x)
    BY DEF ShareSteps
  <2>3. r = q => t = v
    OBVIOUS
  <2> HIDE DEF ws, A, t
  <2>4. /\ x \in OtherSteps(0) /\ x \in AnyStep /\ v \in Seq(AnyTag)
        /\ F[x] = IF r = q THEN v ELSE Nil
        /\ G[x] = Nil
    BY <2>1, RecvStep
  <2> HIDE DEF x, v, F, G
  <2>5. One(x) \in Seq(OtherSteps(0)) /\ One(x) \in Seq(AnyStep)
    BY <2>4, OneType
  <2>6. F[x] \in Seq(AnyTag) /\ G[x] \in Seq(AnyTag)
    BY <2>4, NilType
  <2>7. Each(One(x), F) = F[x]
    BY <2>6, EachOne
  <2>8. Each(One(x), G) = G[x]
    BY <2>6, EachOne
  <2>9. Each(A[r], F) = IF r = q THEN t ELSE Nil
    BY <2>2, <2>3, <2>4, <2>7
  <2>10. Each(A[r], G) = Nil
    BY <2>2, <2>4, <2>8
  <2> QED
    BY <2>2, <2>4, <2>5, <2>9, <2>10 DEF v, ws
<1>2. q \in Peers => t \in Seq(AnyTag)
  BY <1>1
<1>3. Table(F, AnyStep, AnyTag) /\ Table(G, AnyStep, AnyTag)
  BY MovedType
<1>4. u \in Seq(Peers)
  BY AllPeers
<1> HIDE DEF A, F, G, t
<1>5. Table(A, Peers, OtherSteps(0)) /\ Table(A, Peers, AnyStep)
  BY <1>1 DEF Table
<1>6. Each(u, A) \in Seq(OtherSteps(0))
  <2> HIDE DEF u
  <2> QED
    BY <1>4, <1>5, EachType
<1>7. Each(u, A) \in Seq(AnyStep)
  <2> HIDE DEF u
  <2> QED
    BY <1>4, <1>5, EachType
<1>8. Each(Each(u, A), F) = IF q \in Peers THEN t ELSE Nil
  <2>1. \A r \in Peers : Each(A[r], F) = IF r = q THEN t ELSE Nil
    BY <1>1
  <2> QED
    BY <1>2, <1>3, <1>5, <2>1, EachPeerMoves
<1>9. Each(Each(u, A), G) = Nil
  <2> DEFINE H == [r \in Peers |-> Nil]
  <2>1. \A r \in Peers : H[r] = Each(A[r], G) /\ H[r] = Nil
    BY <1>1
  <2> HIDE DEF H, u
  <2>2. Each(Each(u, A), G) = Each(u, H)
    BY <1>3, <1>4, <1>5, <2>1, EachEach
  <2>3. Each(u, H) = Nil
    BY <1>4, <2>1, EachNothing
  <2> QED
    BY <2>2, <2>3
<1> QED
  BY <1>6, <1>7, <1>8, <1>9 DEF A, F, G, t

\* A single step that moves nothing.
LEMMA OneMoves ==
    ASSUME NEW p, NEW x \in OtherSteps(p), x \in AnyStep, NEW F, F[x] = Nil
    PROVE  /\ One(x) \in Seq(OtherSteps(p)) /\ One(x) \in Seq(AnyStep) /\ Each(One(x), F) = Nil
<1>1. F[x] \in Seq(AnyTag)
  BY NilType
<1>2. Each(One(x), F) = F[x]
  BY <1>1, EachOne
<1>3. One(x) \in Seq(OtherSteps(p)) /\ One(x) \in Seq(AnyStep)
  BY OneType
<1> QED
  BY <1>2, <1>3

\* Four joined sequences of which at most one is not empty.
LEMMA CatNils ==
    ASSUME NEW t \in Seq(AnyTag)
    PROVE  /\ Cat(Cat(Cat(t, Nil), Nil), Nil) = t
           /\ Cat(Cat(Cat(Nil, Nil), t), Nil) = t
           /\ Cat(Cat(Cat(Nil, Nil), Nil), Nil) = Nil
<1>1. Cat(t, Nil) = t /\ Cat(Nil, t) = t
  BY CatNil
<1>2. Cat(Nil, Nil) = Nil
  BY NilType, CatNil
<1> QED
  BY <1>1, <1>2

\* pair_EDMatching for all pairs: what p sends q is what q reads from p.
LEMMA MatchingMatch ==
    ASSUME NEW p \in Party, NEW q \in Party, NEW k \in Nat
    PROVE  /\ Each(Matching(p), MovedIn("send", q, k)) = MatchingMoves(p, q, k)
           /\ Each(Matching(p), MovedIn("recv", q, k)) = MatchingMoves(q, p, k)
           /\ Matching(p) \in Seq(OtherSteps(p))
<1> DEFINE F == MovedIn("send", q, k)
           G == MovedIn("recv", q, k)
<1>0. Table(F, AnyStep, AnyTag) /\ Table(G, AnyStep, AnyTag)
  BY MovedType
<1>1. CASE p = 0
  <2> DEFINE n == Net!nP - 1
             a == Each(UpTo(n), KeySteps)
             b == One(FlushStep)
             c == Each(UpTo(n), ShareSteps)
             d == One(Local("match"))
             key == IF q \in Peers THEN TagSeq("key", MyOutputs[q], k) ELSE Nil
             share == IF q \in Peers THEN TagSeq("share", MyOutputs[q], k) ELSE Nil
  <2>1. Matching(p) = Cat(Cat(Cat(a, b), c), d)
    BY <1>1 DEF Matching, Cat, One, KeySteps, ShareSteps, FlushStep, Flush, Nil
  <2>2. /\ a \in Seq(OtherSteps(0)) /\ a \in Seq(AnyStep) /\ Each(a, F) = key /\ Each(a, G) = Nil
    BY KeyStepsMove
  <2>3. /\ c \in Seq(OtherSteps(0)) /\ c \in Seq(AnyStep) /\ Each(c, G) = share /\ Each(c, F) = Nil
    BY ShareStepsMove
  <2>4. /\ FlushStep \in OtherSteps(0) /\ FlushStep \in AnyStep /\ F[FlushStep] = Nil /\ G[FlushStep] = Nil
    <3>1. FlushStep \in OtherSteps(0) /\ FlushStep \in AnyStep
      BY Literals, OtherStep DEF FlushStep
    <3>2. 0 \in Nat
      OBVIOUS
    <3> QED
      BY <3>1, <3>2, FlushMovesNothing
  <2>5. /\ Local("match") \in OtherSteps(0) /\ Local("match") \in AnyStep
        /\ F[Local("match")] = Nil /\ G[Local("match")] = Nil
    BY StillStep
  <2>6. key \in Seq(AnyTag) /\ share \in Seq(AnyTag)
    <3>1. q \in Peers => TagSeq("key", MyOutputs[q], k) \in Seq(AnyTag)
      BY MyOutputsType, Literals, TagSeqType
    <3>2. q \in Peers => TagSeq("share", MyOutputs[q], k) \in Seq(AnyTag)
      BY MyOutputsType, Literals, TagSeqType
    <3> QED
      BY <3>1, <3>2, NilType
  <2> HIDE DEF F, G, a, c, key, share
  <2>7. /\ b \in Seq(OtherSteps(0)) /\ b \in Seq(AnyStep) /\ Each(b, F) = Nil /\ Each(b, G) = Nil
    BY <2>4, OneMoves
  <2>8. /\ d \in Seq(OtherSteps(0)) /\ d \in Seq(AnyStep) /\ Each(d, F) = Nil /\ Each(d, G) = Nil
    BY <2>5, OneMoves
  <2> HIDE DEF b, d
  <2>9. Each(Cat(Cat(Cat(a, b), c), d), F) = key
    <3>1. Each(Cat(Cat(Cat(a, b), c), d), F)
             = Cat(Cat(Cat(Each(a, F), Each(b, F)), Each(c, F)), Each(d, F))
      BY <1>0, <2>2, <2>3, <2>7, <2>8, CatFour
    <3>2. Cat(Cat(Cat(key, Nil), Nil), Nil) = key
      BY <2>6, CatNils
    <3> QED
      BY <2>2, <2>3, <2>7, <2>8, <3>1, <3>2
  <2>10. Each(Cat(Cat(Cat(a, b), c), d), G) = share
    <3>1. Each(Cat(Cat(Cat(a, b), c), d), G)
             = Cat(Cat(Cat(Each(a, G), Each(b, G)), Each(c, G)), Each(d, G))
      BY <1>0, <2>2, <2>3, <2>7, <2>8, CatFour
    <3>2. Cat(Cat(Cat(Nil, Nil), share), Nil) = share
      BY <2>6, CatNils
    <3> QED
      BY <2>2, <2>3, <2>7, <2>8, <3>1, <3>2
  <2>11. Cat(Cat(Cat(a, b), c), d) \in Seq(OtherSteps(0))
    <3>1. Cat(a, b) \in Seq(OtherSteps(0))
      BY <2>2, <2>7, CatType
    <3>2. Cat(Cat(a, b), c) \in Seq(OtherSteps(0))
      BY <2>3, <3>1, CatType
    <3> QED
      BY <2>8, <3>2, CatType
  <2>12. key = MatchingMoves(p, q, k)
    <3>1. 0 \notin Peers
      BY Roles
    <3> QED
      BY <1>1, <3>1 DEF key, MatchingMoves
  <2>13. share = MatchingMoves(q, p, k)
    <3>1. 0 \notin Peers
      BY Roles
    <3> QED
      BY <1>1, <3>1 DEF share, MatchingMoves
  <2> QED
    BY <1>1, <2>1, <2>9, <2>10, <2>11, <2>12, <2>13 DEF F, G
<1>2. CASE p \in Peers
  <2> DEFINE ws == MyOutputs[p]
             x == Recv(0, "key", ws)
             y == Send(0, "share", ws)
             key == TagSeq("key", ws, k)
             share == TagSeq("share", ws, k)
  <2>1. p \in Party /\ p # 0 /\ 0 \in Party /\ 0 \notin Peers /\ Net!Connected(p, 0)
    BY <1>2, SPConnected
  <2>2. ws \in Seq(Nat)
    BY <1>2, MyOutputsType
  <2>3. Matching(p) = <<x, y>>
    BY <2>1 DEF Matching
  <2> HIDE DEF ws
  <2>4. /\ x \in OtherSteps(p) /\ x \in AnyStep /\ G[x] = (IF 0 = q THEN key ELSE Nil) /\ F[x] = Nil
        /\ key \in Seq(AnyTag)
    BY <2>1, <2>2, RecvStep
  <2>5. /\ y \in OtherSteps(p) /\ y \in AnyStep /\ F[y] = (IF 0 = q THEN share ELSE Nil) /\ G[y] = Nil
        /\ share \in Seq(AnyTag)
    BY <2>1, <2>2, SendStep
  <2> HIDE DEF x, y, F, G, key, share
  <2>6. F[x] \in Seq(AnyTag) /\ F[y] \in Seq(AnyTag) /\ G[x] \in Seq(AnyTag) /\ G[y] \in Seq(AnyTag)
    BY <2>4, <2>5, NilType
  <2>7. Each(<<x, y>>, F) = Cat(F[x], F[y])
    BY <2>6, EachTwo
  <2>8. Each(<<x, y>>, G) = Cat(G[x], G[y])
    BY <2>6, EachTwo
  <2>9. Cat(Nil, share) = share /\ Cat(key, Nil) = key
    BY <2>4, <2>5, CatNil
  <2>10. Cat(Nil, Nil) = Nil
    BY NilType, CatNil
  <2>11. Each(<<x, y>>, F) = IF 0 = q THEN share ELSE Nil
    BY <2>4, <2>5, <2>7, <2>9, <2>10
  <2>12. Each(<<x, y>>, G) = IF 0 = q THEN key ELSE Nil
    BY <2>4, <2>5, <2>8, <2>9, <2>10
  <2>13. <<x, y>> \in Seq(OtherSteps(p))
    BY <2>4, <2>5
  <2>14. MatchingMoves(p, q, k) = IF 0 = q THEN share ELSE Nil
    BY <1>2, <2>1 DEF MatchingMoves, share, ws
  <2>15. MatchingMoves(q, p, k) = IF 0 = q THEN key ELSE Nil
    BY <1>2, <2>1 DEF MatchingMoves, key, ws
  <2> QED
    BY <2>3, <2>11, <2>12, <2>13, <2>14, <2>15 DEF F, G
<1> QED
  BY <1>1, <1>2, Roles

\* The comparison for one pair: the SP sends both their keys.
PairMoves(p, q, k) == IF p = 0 /\ q \in Peers THEN TagSeq("key", circ.outputs, k) ELSE Nil

\* pair_EDMatching for one pair: what p sends q is what q reads from p.
LEMMA PairMatch ==
    ASSUME Mode = "Pair", NEW p \in Party, NEW q \in Party, NEW k \in Nat
    PROVE  /\ Each(PairMatching(p), MovedIn("send", q, k)) = PairMoves(p, q, k)
           /\ Each(PairMatching(p), MovedIn("recv", q, k)) = PairMoves(q, p, k)
           /\ PairMatching(p) \in Seq(OtherSteps(p))
<1> DEFINE F == MovedIn("send", q, k)
           G == MovedIn("recv", q, k)
           ws == circ.outputs
           t == TagSeq("key", ws, k)
<1>1. Peers = {1, 2} /\ 1 \in Peers /\ 2 \in Peers
  <2>1. rider_count = 1 /\ driver_count = 1
    BY NetAssumption
  <2>2. Peers = 1 .. 2
    BY <2>1, Parties
  <2> QED
    BY <2>2
<1>2. ws \in Seq(Nat)
  BY OutputsType
<1>3. Cat(Nil, Nil) = Nil
  BY NilType, CatNil
<1>4. CASE p = 0
  <2> DEFINE x == Send(1, "key", ws)
             y == Send(2, "key", ws)
  <2>1. PairMatching(p) = <<x, y>>
    BY <1>4 DEF PairMatching
  <2> HIDE DEF ws
  <2>2. /\ x \in OtherSteps(0) /\ x \in AnyStep /\ F[x] = (IF 1 = q THEN t ELSE Nil) /\ G[x] = Nil
        /\ t \in Seq(AnyTag)
    <3>1. 1 \in Party /\ Net!Connected(0, 1) /\ 0 \in Party
      BY <1>1, SPConnected
    <3> QED
      BY <1>2, <3>1, SendStep
  <2>3. /\ y \in OtherSteps(0) /\ y \in AnyStep /\ F[y] = (IF 2 = q THEN t ELSE Nil) /\ G[y] = Nil
    <3>1. 2 \in Party /\ Net!Connected(0, 2) /\ 0 \in Party
      BY <1>1, SPConnected
    <3> QED
      BY <1>2, <3>1, SendStep
  <2> HIDE DEF x, y, F, G, t
  <2>4. F[x] \in Seq(AnyTag) /\ F[y] \in Seq(AnyTag) /\ G[x] \in Seq(AnyTag) /\ G[y] \in Seq(AnyTag)
    BY <2>2, <2>3, NilType
  <2>5. Each(<<x, y>>, F) = Cat(F[x], F[y])
    BY <2>4, EachTwo
  <2>6. Each(<<x, y>>, G) = Cat(G[x], G[y])
    BY <2>4, EachTwo
  <2>7. Cat(Nil, t) = t /\ Cat(t, Nil) = t
    BY <2>2, CatNil
  <2>8. Each(<<x, y>>, F) = IF q \in Peers THEN t ELSE Nil
    BY <1>1, <1>3, <2>2, <2>3, <2>5, <2>7
  <2>9. Each(<<x, y>>, G) = Nil
    BY <1>3, <2>2, <2>3, <2>6
  <2>10. <<x, y>> \in Seq(OtherSteps(0))
    BY <2>2, <2>3
  <2>11. PairMoves(p, q, k) = (IF q \in Peers THEN t ELSE Nil) /\ PairMoves(q, p, k) = Nil
    <3>1. 0 \notin Peers
      BY Roles
    <3> QED
      BY <1>4, <3>1 DEF PairMoves, t, ws
  <2> QED
    BY <1>4, <2>1, <2>8, <2>9, <2>10, <2>11 DEF F, G
<1>5. CASE p \in Peers
  <2> DEFINE x == Recv(0, "key", ws)
             y == Local("compare")
  <2>1. p \in Party /\ p # 0 /\ 0 \in Party /\ 0 \notin Peers /\ Net!Connected(p, 0)
    BY <1>5, SPConnected
  <2>2. PairMatching(p) = <<x, y>>
    BY <2>1 DEF PairMatching
  <2> HIDE DEF ws
  <2>3. /\ x \in OtherSteps(p) /\ x \in AnyStep /\ G[x] = (IF 0 = q THEN t ELSE Nil) /\ F[x] = Nil
        /\ t \in Seq(AnyTag)
    BY <1>2, <2>1, RecvStep
  <2>4. y \in OtherSteps(p) /\ y \in AnyStep /\ F[y] = Nil /\ G[y] = Nil
    BY StillStep
  <2> HIDE DEF x, y, F, G, t
  <2>5. F[x] \in Seq(AnyTag) /\ F[y] \in Seq(AnyTag) /\ G[x] \in Seq(AnyTag) /\ G[y] \in Seq(AnyTag)
    BY <2>3, <2>4, NilType
  <2>6. Each(<<x, y>>, F) = Cat(F[x], F[y])
    BY <2>5, EachTwo
  <2>7. Each(<<x, y>>, G) = Cat(G[x], G[y])
    BY <2>5, EachTwo
  <2>8. Cat(t, Nil) = t
    BY <2>3, CatNil
  <2>9. Each(<<x, y>>, F) = Nil
    BY <1>3, <2>3, <2>4, <2>6
  <2>10. Each(<<x, y>>, G) = IF 0 = q THEN t ELSE Nil
    BY <1>3, <2>3, <2>4, <2>7, <2>8
  <2>11. <<x, y>> \in Seq(OtherSteps(p))
    BY <2>3, <2>4
  <2>12. PairMoves(p, q, k) = Nil /\ PairMoves(q, p, k) = (IF 0 = q THEN t ELSE Nil)
    BY <1>5, <2>1 DEF PairMoves, t, ws
  <2> QED
    BY <2>2, <2>9, <2>10, <2>11, <2>12 DEF F, G
<1> QED
  BY <1>4, <1>5, Roles
-----------------------------------------------------------------------------
(***************************************************************************)
(* Rounds, and a script as a whole.  In it the preprocessing values are    *)
(* read right after their lengths.                                         *)
(***************************************************************************)
\* Scripts in which the preprocessing is read right after its lengths.
Preceded(s) == \A i \in 1 .. Len(s) : Wait(s[i], "preproc") => i > 1 /\ Wait(s[i - 1], "lengths")
Paired(p) == {s \in Seq(StepsOf(p)) : Preceded(s)}

\* Scripts joined.
LEMMA PairedCat ==
    ASSUME NEW p, NEW s \in Paired(p), NEW t \in Paired(p)
    PROVE  Cat(s, t) \in Paired(p)
<1> DEFINE X == StepsOf(p)
           m == Len(s)
           n == Len(t)
           u == Cat(s, t)
<1>1. s \in Seq(X) /\ t \in Seq(X) /\ Preceded(s) /\ Preceded(t)
  BY DEF Paired
<1> HIDE DEF X
<1>2. /\ m \in Nat /\ n \in Nat /\ u \in Seq(X) /\ Len(u) = m + n
      /\ \A i \in 1 .. m : u[i] = s[i]
      /\ \A i \in 1 .. n : u[m + i] = t[i]
  BY <1>1 DEF Cat
<1> HIDE DEF u, m, n
<1>3. ASSUME NEW i \in 1 .. m + n, Wait(u[i], "preproc")
      PROVE  i > 1 /\ Wait(u[i - 1], "lengths")
  <2>1. CASE i \in 1 .. m
    <3>1. i > 1 /\ Wait(s[i - 1], "lengths")
      BY <1>1, <1>2, <1>3, <2>1 DEF Preceded, m
    <3>2. i - 1 \in 1 .. m
      BY <1>2, <2>1, <3>1
    <3> QED
      BY <1>2, <3>1, <3>2
  <2>2. CASE i > m
    <3> DEFINE j == i - m
    <3>1. j \in 1 .. n /\ i = m + j
      BY <1>2, <2>2
    <3>2. u[i] = t[j]
      BY <1>2, <3>1
    <3>3. j > 1 /\ Wait(t[j - 1], "lengths")
      BY <1>1, <1>2, <1>3, <3>1, <3>2 DEF Preceded, n
    <3>4. j - 1 \in 1 .. n /\ i - 1 = m + (j - 1) /\ i > 1
      BY <1>2, <3>1, <3>3
    <3> QED
      BY <1>2, <3>3, <3>4
  <2> QED
    BY <1>2, <2>1, <2>2
<1>4. Preceded(u)
  BY <1>2, <1>3 DEF Preceded
<1> QED
  BY <1>2, <1>4 DEF Paired, X, u

\* A script that reads no preprocessing values.
LEMMA OtherPaired ==
    ASSUME NEW p, NEW s \in Seq(OtherSteps(p))
    PROVE  s \in Paired(p) /\ s \in Seq(AnyStep)
<1>1. s \in Seq(StepsOf(p)) /\ s \in Seq(AnyStep)
  BY StepsSubset, SeqMonotonic
<1>2. \A i \in 1 .. Len(s) : s[i] \in OtherSteps(p)
  BY ElementOfSeq
<1> QED
  BY <1>1, <1>2 DEF Paired, Preceded, OtherSteps

\* Their steps are steps of the party.
LEMMA PairedSteps ==
    ASSUME NEW p, NEW s \in Paired(p)
    PROVE  s \in Seq(StepsOf(p)) /\ s \in Seq(AnyStep)
BY StepsSubset, SeqMonotonic DEF Paired

\* The preprocessing steps are such: two for the driver, two for each driver at the SP.
LEMMA OfflinePaired ==
    ASSUME NEW p \in Party
    PROVE  Offline(p) \in Paired(p)
<1> DEFINE n == driver_count
           d(i) == rider_count + i
           A == [i \in 1 .. n |-> <<LengthsStep("send", d(i)), PreprocStep("send", d(i), d(i))>>]
<1>0. Lengths \in Seq(Nat) /\ Lengths = <<1, 2, 3>>
  BY DEF Lengths
<1>00. /\ "lengths" \in Whats /\ "preproc" \in Whats /\ "send" \in Ops /\ "recv" \in Ops
       /\ 0 \in Party /\ 0 \in Nat
  BY Parties DEF Whats, Ops
<1>1. CASE p = 0
  <2>1. Offline(p) = Each(UpTo(n), A)
    <3>1. 0 \notin Net!Driver
      BY Roles
    <3> QED
      BY <1>1 DEF Offline, LengthsStep, PreprocStep, Send, Lengths, PreprocWires
  <2>2. ASSUME NEW i \in 1 .. n
        PROVE  A[i] \in Seq(OtherSteps(p))
    <3> DEFINE x == LengthsStep("send", d(i))
               y == PreprocStep("send", d(i), d(i))
    <3>1. d(i) \in Net!Driver /\ d(i) \in Nat /\ d(i) \in Party /\ Net!Connected(0, d(i))
      <4>1. d(i) \in Net!Driver /\ d(i) \in Nat
        BY Parties
      <4> HIDE DEF d
      <4>2. d(i) \in Peers
        BY <4>1, Roles
      <4> QED
        BY <4>1, <4>2, SPConnected
    <3> HIDE DEF d
    <3>2. PreprocWires(d(i)) \in Seq(Nat)
      BY <3>1, PreprocWiresType
    <3>3. /\ x \in AnyStep /\ x.op = "send" /\ x.peer = d(i) /\ x.what = "lengths"
          /\ x.ws = <<1, 2, 3>>
      BY <1>0, <1>00, <3>1 DEF LengthsStep, Step, AnyStep
    <3>4. y \in AnyStep /\ y.op = "send" /\ y.peer = d(i) /\ y.what = "preproc"
      BY <1>00, <3>1, <3>2 DEF PreprocStep, Step, AnyStep
    <3> HIDE DEF x, y
    <3>5. x \in OtherSteps(p)
      BY <1>1, <3>1, <3>3 DEF OtherSteps, StepsOf, Moves, Wait
    <3>6. y \in OtherSteps(p)
      BY <1>1, <3>1, <3>4 DEF OtherSteps, StepsOf, Moves, Wait
    <3>7. A[i] = <<x, y>>
      BY DEF x, y
    <3> HIDE DEF A
    <3> QED
      BY <3>5, <3>6, <3>7
  <2>3. Each(UpTo(n), A) \in Seq(OtherSteps(p))
    <3> DEFINE I == 1 .. n
               u == UpTo(n)
    <3>1. u \in Seq(I)
      BY Parties, UpToPush
    <3>2. Table(A, I, OtherSteps(p))
      BY <2>2 DEF Table
    <3> HIDE DEF I, u, A
    <3> QED
      BY <3>1, <3>2, EachType DEF u
  <2> QED
    BY <2>1, <2>3, OtherPaired
<1>2. CASE p \in Net!Driver
  <2> DEFINE x == LengthsStep("recv", 0)
             y == PreprocStep("recv", 0, p)
             s == <<x, y>>
  <2>1. p # 0 /\ Net!Connected(p, 0)
    BY <1>2, Roles, SPConnected
  <2>2. Offline(p) = s
    BY <1>2, <2>1 DEF Offline, LengthsStep, PreprocStep, Recv, Lengths, PreprocWires
  <2>3. PreprocWires(p) \in Seq(Nat)
    BY <1>2, PreprocWiresType
  <2>4. x \in AnyStep /\ x.op = "recv" /\ x.peer = 0 /\ x.what = "lengths" /\ x.ws = <<1, 2, 3>>
    BY <1>0, <1>00 DEF LengthsStep, Step, AnyStep
  <2>5. y \in AnyStep /\ y.op = "recv" /\ y.peer = 0 /\ y.what = "preproc" /\ y.ws = PreprocWires(p)
    BY <1>00, <2>3 DEF PreprocStep, Step, AnyStep
  <2> HIDE DEF x, y
  <2>6. x \in StepsOf(p)
    BY <1>2, <1>00, <2>1, <2>4 DEF StepsOf, Moves, Wait
  <2>7. y \in StepsOf(p)
    BY <1>2, <1>00, <2>1, <2>5 DEF StepsOf, Moves, Wait, PreprocWires
  <2>8. s \in Seq(StepsOf(p)) /\ Len(s) = 2 /\ s[1] = x /\ s[2] = y
    BY <2>6, <2>7
  <2> HIDE DEF s
  <2>9. Preceded(s)
    <3>1. Wait(x, "lengths") /\ ~ Wait(x, "preproc")
      BY <2>4 DEF Wait
    <3>2. \A i \in 1 .. 2 : i = 1 \/ (i = 2 /\ i > 1 /\ i - 1 = 1)
      OBVIOUS
    <3> QED
      BY <2>8, <3>1, <3>2 DEF Preceded
  <2> QED
    BY <2>2, <2>8, <2>9 DEF Paired
<1>3. CASE p \in Net!Rider
  <2>1. Offline(p) = Nil
    <3>1. p # 0 /\ p \notin Net!Driver
      BY <1>3, Roles
    <3> QED
      BY <3>1 DEF Offline, Nil
  <2>2. Nil \in Seq(OtherSteps(p))
    BY NilType
  <2> QED
    BY <2>1, <2>2, OtherPaired
<1> QED
  BY <1>1, <1>2, <1>3, Roles
-----------------------------------------------------------------------------
EntrySteps(p) == CASE Mode = "Distance" -> GetOutputs(p)
                   [] Mode = "Matching" -> Matching(p)
                   [] Mode = "Pair"     -> PairMatching(p)
EntryMoves(p, q, k) == CASE Mode = "Distance" -> OutputMoves(p, q, k)
                         [] Mode = "Matching" -> MatchingMoves(p, q, k)
                         [] Mode = "Pair"     -> PairMoves(p, q, k)

\* The end of a round, by entry point: what p sends q is what q reads from p.
LEMMA EntryMatch ==
    ASSUME NEW p \in Party, NEW q \in Party, NEW k \in Nat
    PROVE  /\ Each(EntrySteps(p), MovedIn("send", q, k)) = EntryMoves(p, q, k)
           /\ Each(EntrySteps(p), MovedIn("recv", q, k)) = EntryMoves(q, p, k)
           /\ EntrySteps(p) \in Seq(OtherSteps(p))
<1>1. CASE Mode = "Distance"
  <2>1. /\ EntrySteps(p) = GetOutputs(p) /\ EntryMoves(p, q, k) = OutputMoves(p, q, k)
        /\ EntryMoves(q, p, k) = OutputMoves(q, p, k)
    BY <1>1 DEF EntrySteps, EntryMoves
  <2> QED
    BY <2>1, OutputsMatch
<1>2. CASE Mode = "Matching"
  <2>1. /\ EntrySteps(p) = Matching(p) /\ EntryMoves(p, q, k) = MatchingMoves(p, q, k)
        /\ EntryMoves(q, p, k) = MatchingMoves(q, p, k)
    BY <1>2 DEF EntrySteps, EntryMoves
  <2> QED
    BY <2>1, MatchingMatch
<1>3. CASE Mode = "Pair"
  <2>1. /\ EntrySteps(p) = PairMatching(p) /\ EntryMoves(p, q, k) = PairMoves(p, q, k)
        /\ EntryMoves(q, p, k) = PairMoves(q, p, k)
    BY <1>3 DEF EntrySteps, EntryMoves
  <2> QED
    BY <1>3, <2>1, PairMatch
<1> QED
  BY <1>1, <1>2, <1>3, ModeAssumption

\* A round of two parties: what one sends the other is what the other reads from it.
RoundMoves(p, q, k) ==
    Cat(Cat(Cat(Nil, OfflineMoves(p, q, k)), OnlineMoves(p, q, k)), EntryMoves(p, q, k))

\* A round: what p sends q is what q reads from p.
LEMMA RoundMatch ==
    ASSUME NEW p \in Party, NEW q \in Party, NEW k \in Nat
    PROVE  /\ Each(Round(p), MovedIn("send", q, k)) = RoundMoves(p, q, k)
           /\ Each(Round(p), MovedIn("recv", q, k)) = RoundMoves(q, p, k)
           /\ Round(p) \in Paired(p)
<1> DEFINE a == One(Local("start"))
           b == Offline(p)
           c == Online(p)
           d == EntrySteps(p)
           F == MovedIn("send", q, k)
           G == MovedIn("recv", q, k)
<1>1. Round(p) = Cat(Cat(Cat(a, b), c), d)
  BY DEF Round, EntrySteps, Cat, One
<1>2. /\ Local("start") \in OtherSteps(p) /\ Local("start") \in AnyStep
      /\ F[Local("start")] = Nil /\ G[Local("start")] = Nil
  BY StillStep
<1>3. /\ b \in Paired(p) /\ b \in Seq(AnyStep)
      /\ Each(b, F) = OfflineMoves(p, q, k) /\ Each(b, G) = OfflineMoves(q, p, k)
  BY OfflineMatch, OfflinePaired
<1>4. /\ c \in Seq(OtherSteps(p)) /\ Each(c, F) = OnlineMoves(p, q, k)
      /\ Each(c, G) = OnlineMoves(q, p, k)
  BY OnlineMatch
<1>5. /\ d \in Seq(OtherSteps(p)) /\ Each(d, F) = EntryMoves(p, q, k)
      /\ Each(d, G) = EntryMoves(q, p, k)
  BY EntryMatch
<1>6. Table(F, AnyStep, AnyTag) /\ Table(G, AnyStep, AnyTag)
  BY MovedType
<1> HIDE DEF F, G, b, c, d
<1>7. /\ a \in Seq(OtherSteps(p)) /\ a \in Seq(AnyStep) /\ Each(a, F) = Nil /\ Each(a, G) = Nil
  BY <1>2, OneMoves
<1> HIDE DEF a
<1>8. a \in Paired(p) /\ c \in Paired(p) /\ d \in Paired(p) /\ c \in Seq(AnyStep) /\ d \in Seq(AnyStep)
  BY <1>4, <1>5, <1>7, OtherPaired
<1>9. Each(Cat(Cat(Cat(a, b), c), d), F)
         = Cat(Cat(Cat(Each(a, F), Each(b, F)), Each(c, F)), Each(d, F))
  BY <1>3, <1>6, <1>7, <1>8, CatFour
<1>10. Each(Cat(Cat(Cat(a, b), c), d), G)
          = Cat(Cat(Cat(Each(a, G), Each(b, G)), Each(c, G)), Each(d, G))
  BY <1>3, <1>6, <1>7, <1>8, CatFour
<1>11. Cat(Cat(Cat(a, b), c), d) \in Paired(p)
  BY <1>3, <1>8, PairedCat
<1> QED
  BY <1>1, <1>3, <1>4, <1>5, <1>7, <1>9, <1>10, <1>11 DEF F, G, RoundMoves
-----------------------------------------------------------------------------
\* The steps of round k move what they move in round k.
LEMMA InRoundMoves ==
    ASSUME NEW p, NEW s \in Paired(p), NEW k \in Nat, NEW dir, NEW q
    PROVE  /\ InRound(s, k) \in Paired(p)
           /\ Each(InRound(s, k), Moved(dir, q)) = Each(s, MovedIn(dir, q, k))
<1> DEFINE u == InRound(s, k)
           n == Len(s)
<1>1. /\ s \in Seq(StepsOf(p)) /\ n \in Nat /\ DOMAIN s = 1 .. n
      /\ \A i \in 1 .. n : s[i] \in StepsOf(p) /\ s[i] \in AnyStep
  BY PairedSteps, LenProperties, ElementOfSeq
<1>2. \A x \in StepsOf(p) : /\ Made(x, k) \in StepsOf(p)
                            /\ \A what : Wait(Made(x, k), what) <=> Wait(x, what)
  BY DEF StepsOf, AnyStep, Made, Moves, Wait
<1>3. u = [i \in 1 .. n |-> Made(s[i], k)]
  BY <1>1 DEF InRound, Made
<1>4. u \in Seq(StepsOf(p)) /\ Len(u) = n /\ \A i \in 1 .. n : u[i] = Made(s[i], k)
  <2> DEFINE f == [i \in 1 .. n |-> Made(s[i], k)]
             X == StepsOf(p)
  <2>1. \A i \in 1 .. n : f[i] \in X /\ f[i] = Made(s[i], k)
    BY <1>1, <1>2
  <2>2. f \in [1 .. n -> X]
    BY <2>1
  <2> HIDE DEF f, X
  <2>3. f \in Seq(X) /\ Len(f) = n
    BY <1>1, <2>2, IsASeq
  <2> QED
    BY <1>3, <2>1, <2>3 DEF f, X
<1> HIDE DEF u
<1>5. Preceded(u)
  <2> SUFFICES ASSUME NEW i \in 1 .. n, Wait(u[i], "preproc")
               PROVE  i > 1 /\ Wait(u[i - 1], "lengths")
    BY <1>4 DEF Preceded
  <2>1. Wait(s[i], "preproc")
    BY <1>1, <1>2, <1>4
  <2>2. i > 1 /\ Wait(s[i - 1], "lengths")
    BY <2>1 DEF Paired, Preceded
  <2>3. i - 1 \in 1 .. n
    BY <1>1, <2>2
  <2> QED
    BY <1>1, <1>2, <1>4, <2>2, <2>3
<1>6. Each(u, Moved(dir, q)) = Each(s, MovedIn(dir, q, k))
  <2>1. DOMAIN u = 1 .. n
    BY <1>4, LenProperties
  <2>2. \A i \in 1 .. n : Moved(dir, q)[u[i]] = MovedIn(dir, q, k)[s[i]]
    BY <1>1, <1>4 DEF MovedIn
  <2>3. [i \in DOMAIN u |-> Moved(dir, q)[u[i]]] = [i \in DOMAIN s |-> MovedIn(dir, q, k)[s[i]]]
    BY <1>1, <2>1, <2>2
  <2> QED
    BY <2>3 DEF Each
<1> QED
  BY <1>4, <1>5, <1>6 DEF u, Paired

Rounds(p) == [k \in 1 .. Repeat |-> InRound(Round(p), k)]
Body(p) == Each(UpTo(Repeat), Rounds(p))
CloseStep == Step("close", 0, "", Nil)

\* A script is the rounds, of known steps, and the close.
LEMMA BodyType ==
    ASSUME NEW p \in Party
    PROVE  /\ Body(p) \in Paired(p) /\ Body(p) \in Seq(StepsOf(p)) /\ Body(p) \in Seq(AnyStep)
           /\ Script[p] = Push(Body(p), CloseStep)
<1> DEFINE I == 1 .. Repeat
           u == UpTo(Repeat)
           A == Rounds(p)
           T == Paired(p)
           X == StepsOf(p)
<1>1. \A k \in I : A[k] \in T /\ A[k] \in Seq(X)
  <2> SUFFICES ASSUME NEW k \in I PROVE A[k] \in T /\ A[k] \in Seq(X)
    OBVIOUS
  <2>1. k \in Nat /\ A[k] = InRound(Round(p), k)
    BY RepeatAssumption DEF Rounds
  <2>2. Round(p) \in T
    BY <2>1, RoundMatch
  <2>3. InRound(Round(p), k) \in T
    BY <2>1, <2>2, InRoundMoves
  <2> HIDE DEF A
  <2> QED
    BY <2>1, <2>3, PairedSteps
<1>2. Nil \in T /\ \A a, b \in Seq(X) : a \in T /\ b \in T => Cat(a, b) \in T
  <2>1. Nil \in Seq(OtherSteps(p))
    BY NilType
  <2> QED
    BY <2>1, OtherPaired, PairedCat
<1>3. Table(A, I, X)
  BY <1>1 DEF Table
<1>4. u \in Seq(I)
  BY RepeatAssumption, UpToPush
<1>5. Each(u, A) \in T
  <2> HIDE DEF I, u, A, T, X
  <2> QED
    BY <1>1, <1>2, <1>3, <1>4, EachKept
<1>6. Body(p) \in T
  BY <1>5 DEF Body
<1>7. Script[p] = Push(Body(p), CloseStep)
  <2> DEFINE b == Body(p)
             c == CloseStep
  <2>1. Script[p] = b \o <<c>>
    BY DEF Script, Body, Rounds, CloseStep, Nil
  <2>2. b \in Seq(AnyStep \cup {c}) /\ c \in AnyStep \cup {c}
    <3>1. b \in Seq(AnyStep)
      BY <1>6, PairedSteps
    <3> HIDE DEF b, c
    <3> QED
      BY <3>1, SeqMonotonic
  <2> HIDE DEF b, c
  <2>3. Append(b, c) = b \o <<c>>
    BY <2>2, AppendIsConcat
  <2> QED
    BY <2>1, <2>3 DEF Push, b, c
<1> QED
  BY <1>6, <1>7, PairedSteps

\* In all rounds together p sends q exactly what q reads from p, in the same order.
LEMMA BodiesMatch ==
    ASSUME NEW p \in Party, NEW q \in Party
    PROVE  Each(Body(p), Moved("send", q)) = Each(Body(q), Moved("recv", p))
<1> DEFINE n == Repeat
           A == Rounds(p)
           B == Rounds(q)
           F == Moved("send", q)
           G == Moved("recv", p)
           H == [k \in 1 .. n |-> RoundMoves(p, q, k)]
<1>1. n \in Nat
  BY RepeatAssumption
<1>2. \A k \in 1 .. n : k \in Nat
  OBVIOUS
<1>3. ASSUME NEW k \in 1 .. n
      PROVE  /\ A[k] \in Seq(AnyStep) /\ H[k] = Each(A[k], F)
             /\ B[k] \in Seq(AnyStep) /\ H[k] = Each(B[k], G)
  <2>1. k \in Nat
    BY <1>2
  <2>2. A[k] = InRound(Round(p), k) /\ B[k] = InRound(Round(q), k) /\ H[k] = RoundMoves(p, q, k)
    BY DEF Rounds
  <2>3. Round(p) \in Paired(p) /\ Each(Round(p), MovedIn("send", q, k)) = RoundMoves(p, q, k)
    BY <2>1, RoundMatch
  <2>4. Round(q) \in Paired(q) /\ Each(Round(q), MovedIn("recv", p, k)) = RoundMoves(p, q, k)
    BY <2>1, RoundMatch
  <2>5. InRound(Round(p), k) \in Paired(p)
        /\ Each(InRound(Round(p), k), F) = Each(Round(p), MovedIn("send", q, k))
    BY <2>1, <2>3, InRoundMoves
  <2>6. InRound(Round(q), k) \in Paired(q)
        /\ Each(InRound(Round(q), k), G) = Each(Round(q), MovedIn("recv", p, k))
    BY <2>1, <2>4, InRoundMoves
  <2> HIDE DEF A, B, F, G, H
  <2> QED
    BY <2>2, <2>3, <2>4, <2>5, <2>6, PairedSteps
<1>4. Table(F, AnyStep, AnyTag) /\ Table(G, AnyStep, AnyTag)
  BY MovedType
<1> HIDE DEF A, B, F, G, H, n
<1>5. Table(A, 1 .. n, AnyStep) /\ Table(B, 1 .. n, AnyStep)
  BY <1>3 DEF Table
<1>6. Each(Each(UpTo(n), A), F) = Each(UpTo(n), H)
  BY <1>1, <1>3, <1>4, <1>5, UpToMoves
<1>7. Each(Each(UpTo(n), B), G) = Each(UpTo(n), H)
  BY <1>1, <1>3, <1>4, <1>5, UpToMoves
<1> QED
  BY <1>6, <1>7 DEF A, B, F, G, n, Body
-----------------------------------------------------------------------------
\* The first n elements of s.
Firsts(s, n) == [i \in 1 .. n |-> s[i]]

\* One element more.
LEMMA FirstsNext ==
    ASSUME NEW X, NEW s \in Seq(X), NEW n \in Nat, n < Len(s)
    PROVE  /\ Firsts(s, n + 1) = Push(Firsts(s, n), s[n + 1])
           /\ Firsts(s, n) \in Seq(X) /\ s[n + 1] \in X
<1> DEFINE a == Firsts(s, n)
           b == Firsts(s, n + 1)
           k == n + 1
           x == s[k]
           c == Push(a, x)
<1>1. \A i \in 1 .. Len(s) : s[i] \in X
  BY ElementOfSeq
<1>2. n + 1 \in Nat /\ Len(s) \in Nat /\ n + 1 \in 1 .. Len(s)
  BY LenProperties
<1>3. ASSUME NEW m \in Nat, m <= Len(s)
      PROVE  Firsts(s, m) \in Seq(X) /\ Len(Firsts(s, m)) = m /\ \A i \in 1 .. m : Firsts(s, m)[i] = s[i]
  <2> DEFINE f == Firsts(s, m)
  <2>1. f \in [1 .. m -> X] /\ \A i \in 1 .. m : f[i] = s[i]
    BY <1>1, <1>2, <1>3 DEF Firsts
  <2> HIDE DEF f
  <2> QED
    BY <2>1, IsASeq DEF f
<1>4. a \in Seq(X) /\ Len(a) = n /\ \A i \in 1 .. n : a[i] = s[i]
  BY <1>2, <1>3
<1>5. b \in Seq(X) /\ Len(b) = n + 1 /\ \A i \in 1 .. n + 1 : b[i] = s[i]
  BY <1>2, <1>3
<1>6. x \in X
  BY <1>1, <1>2
<1> HIDE DEF a, b, x
<1>7. c \in Seq(X) /\ Len(c) = Len(a) + 1 /\ c[Len(a) + 1] = x /\ \A i \in 1 .. Len(a) : c[i] = a[i]
  <2>1. c \in Seq(X) /\ Len(c) = Len(a) + 1
    BY <1>4, <1>6, PushType
  <2>2. c[Len(a) + 1] = x
    BY <1>4, <1>6, PushType
  <2>3. Begins(a, c)
    BY <1>4, <1>6, PushKeeps
  <2> QED
    BY <2>1, <2>2, <2>3 DEF Begins
<1> HIDE DEF c
<1>8. ASSUME NEW i \in 1 .. n + 1 PROVE b[i] = c[i]
  <2>1. i \in 1 .. n \/ i = n + 1
    OBVIOUS
  <2> QED
    BY <1>4, <1>5, <1>7, <2>1 DEF x
<1>9. b = c
  BY <1>2, <1>4, <1>5, <1>7, <1>8, SeqEqual
<1> QED
  BY <1>4, <1>6, <1>9 DEF a, b, c, x

\* The first 0 elements.
LEMMA FirstsNone ==
    ASSUME NEW s
    PROVE  Firsts(s, 0) = Nil
<1> DEFINE X == {}
           f == Firsts(s, 0)
<1>1. f \in [1 .. 0 -> X]
  BY DEF Firsts
<1> HIDE DEF f
<1>2. f \in Seq(X) /\ Len(f) = 0
  <2> DEFINE n == 0
  <2>1. n \in Nat /\ f \in [1 .. n -> X]
    BY <1>1
  <2> HIDE DEF n
  <2>2. f \in Seq(X) /\ Len(f) = n
    BY <2>1, IsASeq
  <2> QED
    BY <2>2 DEF n
<1> HIDE DEF X
<1>3. f = Nil
  BY <1>2, NilType
<1> QED
  BY <1>3 DEF f

\* The first elements begin the sequence, and all are the sequence.
LEMMA FirstsSplit ==
    ASSUME NEW X, NEW s \in Seq(X), NEW n \in Nat, n <= Len(s)
    PROVE  /\ Firsts(s, n) \in Seq(X) /\ Firsts(s, Len(s)) = s
           /\ \E t \in Seq(X) : s = Cat(Firsts(s, n), t)
<1> DEFINE a == Firsts(s, n)
           m == Len(s)
<1>1. \A i \in 1 .. m : s[i] \in X /\ DOMAIN s = 1 .. m /\ m \in Nat
  BY ElementOfSeq, LenProperties
<1>2. a \in Seq(X) /\ Len(a) = n /\ \A i \in 1 .. n : a[i] = s[i]
  <2>1. a \in [1 .. n -> X] /\ \A i \in 1 .. n : a[i] = s[i]
    BY <1>1 DEF Firsts
  <2> HIDE DEF a
  <2> QED
    BY <2>1, IsASeq
<1>3. Firsts(s, m) = s
  <2> DEFINE f == Firsts(s, m)
  <2>1. m \in Nat
    BY LenProperties
  <2>2. f \in [1 .. m -> X] /\ \A i \in 1 .. m : f[i] = s[i]
    BY <1>1 DEF Firsts
  <2> HIDE DEF f, m
  <2>3. f \in Seq(X) /\ Len(f) = m
    BY <2>1, <2>2, IsASeq
  <2>4. f = s
    BY <2>2, <2>3, SeqEqual DEF m
  <2> QED
    BY <2>4 DEF f
<1>4. \E t \in Seq(X) : s = Cat(a, t)
  <2> DEFINE x == SubSeq(s, 1, n)
             y == SubSeq(s, n + 1, Len(s))
  <2>0. n \in 0 .. Len(s)
    BY LenProperties
  <2>1. x \in Seq(X) /\ y \in Seq(X) /\ x \o y = s
    BY <2>0, CutAndJoin
  <2>2. x = a
    <3>1. Len(x) = n /\ \A i \in 1 .. n : x[i] = s[i]
      BY <2>0
    <3> HIDE DEF x, a
    <3> QED
      BY <1>2, <2>1, <3>1, SeqEqual
  <2> HIDE DEF x, y, a
  <2> QED
    BY <2>1, <2>2 DEF Cat
<1> QED
  BY <1>2, <1>3, <1>4
-----------------------------------------------------------------------------
(***************************************************************************)
(* The inductive invariant.  For every pair (p, q), what p has sent q so   *)
(* far, which follows from its position in its script, is what q has read  *)
(* from p followed by the tags in the stream between them.  The positions, *)
(* the blocked reads and the lengths read are as the scripts say.          *)
(***************************************************************************)
\* What p has sent to and read from q so far, as tags; and the tags of a stream.
SentTo(p, q) == Each(Firsts(Body(p), pc[p] - 1), Moved("send", q))
ReadFrom(p, q) == Each(Firsts(Body(p), pc[p] - 1), Moved("recv", q))
TagsOf(s) == [i \in 1 .. Len(s) |-> s[i].tag]
LengthValues(d) == <<Len(SecWires[d]) + Len(ParWires[d]), Len(SecWires[d]), Len(ParWires[d])>>

\* An element for q: if it is one of the lengths, it is the right one.
Right(x, q) == /\ x.tag \in AnyTag
               /\ x.tag[1] = "lengths" => q \in Net!Driver /\ x.v = LengthValues(q)[x.tag[2]]

Stream(p, q) == Contents(wire, out, Net!SendLink(p, q))
StreamRight(p, q) ==
    /\ \A i \in 1 .. Len(Stream(p, q)) : Right(Stream(p, q)[i], q)
    /\ Cat(ReadFrom(q, p), TagsOf(Stream(p, q))) = SentTo(p, q)

Streams == /\ \E S : Buffered(Net!Link, S, wire, out)
           /\ \A p, q \in Party : Net!Connected(p, q) => StreamRight(p, q)
           /\ \A l \in Net!Link : l # Net!SendLink(l[1], l[2]) => Contents(wire, out, l) = Nil
Places == /\ pc \in [Party -> Nat]
             /\ \A p \in Party : pc[p] \in 1 .. Len(Body(p)) + 1
Reader == [src : Int, n : Nat]
Waits == /\ waiting \in [Party -> Reader] /\ open \in [Party -> BOOLEAN]
         /\ \A p \in Party :
               waiting[p] # Net!Idle =>
                    At(p).op = "recv" /\ waiting[p] = [src |-> At(p).peer, n |-> Len(At(p).ws)]
         /\ \A p \in Party : ~ open[p] => pc[p] = Len(Body(p)) + 1
LengthsRead == /\ \E V : buf \in [Party -> [Party -> V]]
               /\ \A p \in Party : Wait(At(p), "preproc") => buf[p][0] = LengthValues(p)
IInv == Streams /\ Places /\ Waits /\ LengthsRead

\* The steps of a script.
LEMMA AtCases ==
    ASSUME NEW p \in Party, NEW n \in 1 .. Len(Body(p)) + 1
    PROVE  LET s == Script[p][n]
               b == Body(p)
           IN  /\ Len(b) \in Nat /\ n - 1 \in Nat
               /\ n <= Len(b) => s = b[n] /\ s \in StepsOf(p) /\ s \in AnyStep
               /\ n = Len(b) + 1 => s = CloseStep
               /\ n <= Len(b) \/ n = Len(b) + 1
               /\ Wait(s, "preproc") => n > 1 /\ n - 1 <= Len(b) /\ n <= Len(b)
                                        /\ Wait(Script[p][n - 1], "lengths")
<1> DEFINE b == Body(p)
           c == CloseStep
           X == StepsOf(p) \cup {c}
           t == Script[p]
           m == Len(b)
<1>1. b \in Seq(StepsOf(p)) /\ b \in Paired(p) /\ t = Push(b, c)
  BY BodyType
<1> HIDE DEF b, c, t
<1>2. m \in Nat /\ b \in Seq(X) /\ c \in X
  BY <1>1, LenProperties, SeqMonotonic
<1>3. t[m + 1] = c /\ \A i \in 1 .. m : t[i] = b[i]
  <2> HIDE DEF X
  <2>1. t[Len(b) + 1] = c
    BY <1>1, <1>2, PushType
  <2>2. Begins(b, t)
    BY <1>1, <1>2, PushKeeps
  <2> QED
    BY <2>1, <2>2 DEF Begins
<1>4. \A i \in 1 .. m : b[i] \in StepsOf(p) /\ b[i] \in AnyStep
  BY <1>1, ElementOfSeq, StepsSubset
<1>5. n \in Nat /\ n - 1 \in Nat /\ (n <= m \/ n = m + 1) /\ n \in 1 .. m + 1
  BY <1>2 DEF b
<1>6. n <= m => t[n] = b[n] /\ b[n] \in StepsOf(p) /\ b[n] \in AnyStep
  BY <1>3, <1>4, <1>5
<1>7. n = m + 1 => t[n] = c
  BY <1>3
<1>8. ASSUME Wait(t[n], "preproc")
      PROVE  n > 1 /\ n - 1 <= m /\ n <= m /\ Wait(t[n - 1], "lengths")
  <2>1. ~ Wait(c, "preproc")
    BY DEF c, CloseStep, Step, Wait
  <2>2. n <= m /\ n \in 1 .. m
    BY <1>5, <1>7, <1>8, <2>1
  <2>3. n > 1 /\ Wait(b[n - 1], "lengths")
    BY <1>1, <1>6, <1>8, <2>2 DEF Paired, Preceded
  <2>4. n - 1 \in 1 .. m
    BY <1>2, <2>2, <2>3
  <2> QED
    BY <1>2, <1>3, <2>2, <2>3, <2>4
<1> QED
  BY <1>2, <1>5, <1>6, <1>7, <1>8 DEF b, c, t

\* One step on, one part more is sent and read.
LEMMA OneStepOn ==
    ASSUME NEW p \in Party, NEW n \in Nat, n < Len(Body(p)), NEW dir, NEW q
    PROVE  LET a == Each(Firsts(Body(p), n), Moved(dir, q))
               x == Body(p)[n + 1]
               y == Moved(dir, q)[x]
           IN  /\ Each(Firsts(Body(p), n + 1), Moved(dir, q)) = Cat(a, y)
               /\ a \in Seq(AnyTag) /\ y \in Seq(AnyTag)
               /\ y = IF x.op = dir /\ x.peer = q THEN Tags(x) ELSE Nil
               /\ \E t \in Seq(AnyTag) : Each(Body(p), Moved(dir, q)) = Cat(Cat(a, y), t)
<1> DEFINE s == Body(p)
           F == Moved(dir, q)
           u == Firsts(s, n)
           x == s[n + 1]
           m == n + 1
<1>1. s \in Seq(AnyStep) /\ Len(s) \in Nat
  BY BodyType, LenProperties
<1>2. Table(F, AnyStep, AnyTag)
  BY MovedType
<1> HIDE DEF s
<1>3. Firsts(s, n + 1) = Push(u, x) /\ u \in Seq(AnyStep) /\ x \in AnyStep
  BY <1>1, FirstsNext DEF s
<1>4. F[x] = IF x.op = dir /\ x.peer = q THEN Tags(x) ELSE Nil
  BY <1>3 DEF Moved
<1> HIDE DEF F, u, x
<1>5. Each(Push(u, x), F) = Cat(Each(u, F), F[x]) /\ Each(u, F) \in Seq(AnyTag) /\ F[x] \in Seq(AnyTag)
  BY <1>2, <1>3, EachPush
<1>6. PICK t \in Seq(AnyStep) : s = Cat(Firsts(s, n + 1), t)
  <2>1. m \in Nat /\ m <= Len(s)
    BY <1>1 DEF s
  <2> HIDE DEF m
  <2>2. \E t \in Seq(AnyStep) : s = Cat(Firsts(s, m), t)
    BY <1>1, <2>1, FirstsSplit
  <2> QED
    BY <2>2 DEF m
<1>7. Push(u, x) \in Seq(AnyStep)
  BY <1>3, PushType
<1>8. Each(Cat(Push(u, x), t), F) = Cat(Each(Push(u, x), F), Each(t, F)) /\ Each(t, F) \in Seq(AnyTag)
  BY <1>2, <1>7, EachCat, EachType
<1>9. Each(s, F) = Cat(Cat(Each(u, F), F[x]), Each(t, F))
  BY <1>3, <1>5, <1>6, <1>8
<1> QED
  BY <1>3, <1>4, <1>5, <1>8, <1>9 DEF s, F, u, x

\* What is sent or read in the first n steps begins what is in all.
LEMMA SoFar ==
    ASSUME NEW p \in Party, NEW n \in Nat, n <= Len(Body(p)), NEW dir, NEW q
    PROVE  LET a == Each(Firsts(Body(p), n), Moved(dir, q))
           IN  /\ a \in Seq(AnyTag)
               /\ \E t \in Seq(AnyTag) : Each(Body(p), Moved(dir, q)) = Cat(a, t)
               /\ n = Len(Body(p)) => Each(Body(p), Moved(dir, q)) = a
               /\ n = 0 => a = Nil
<1> DEFINE s == Body(p)
           F == Moved(dir, q)
<1>1. s \in Seq(AnyStep) /\ Len(s) \in Nat
  BY BodyType, LenProperties
<1>2. Table(F, AnyStep, AnyTag)
  BY MovedType
<1> HIDE DEF s, F
<1>3. /\ Firsts(s, n) \in Seq(AnyStep) /\ Firsts(s, Len(s)) = s
      /\ \E t \in Seq(AnyStep) : s = Cat(Firsts(s, n), t)
  BY <1>1, FirstsSplit DEF s
<1>4. PICK t \in Seq(AnyStep) : s = Cat(Firsts(s, n), t)
  BY <1>3
<1>5. Each(Firsts(s, n), F) \in Seq(AnyTag) /\ Each(t, F) \in Seq(AnyTag)
  BY <1>2, <1>3, EachType
<1>6. Each(Cat(Firsts(s, n), t), F) = Cat(Each(Firsts(s, n), F), Each(t, F))
  BY <1>2, <1>3, EachCat
<1>7. n = 0 => Each(Firsts(s, n), F) = Nil
  BY FirstsNone, EachNil
<1> QED
  BY <1>3, <1>4, <1>5, <1>6, <1>7 DEF s, F
-----------------------------------------------------------------------------
(***************************************************************************)
(* What a step changes of it.                                              *)
(***************************************************************************)
\* The tags of a stream: type, length and elements.
LEMMA TagsOfType ==
    ASSUME NEW S, NEW s \in Seq(S), \A i \in 1 .. Len(s) : s[i].tag \in AnyTag
    PROVE  /\ TagsOf(s) \in Seq(AnyTag) /\ Len(TagsOf(s)) = Len(s)
           /\ \A i \in 1 .. Len(s) : TagsOf(s)[i] = s[i].tag
<1> DEFINE n == Len(s)
           f == TagsOf(s)
<1>1. n \in Nat
  BY LenProperties
<1>2. f \in [1 .. n -> AnyTag] /\ \A i \in 1 .. n : f[i] = s[i].tag
  BY DEF TagsOf
<1> HIDE DEF f, n
<1> QED
  BY <1>1, <1>2, IsASeq DEF f, n

\* The tags of joined streams.
LEMMA TagsOfCat ==
    ASSUME NEW S, NEW s \in Seq(S), \A i \in 1 .. Len(s) : s[i].tag \in AnyTag,
           NEW t \in Seq(S), \A i \in 1 .. Len(t) : t[i].tag \in AnyTag
    PROVE  TagsOf(s \o t) = Cat(TagsOf(s), TagsOf(t))
<1> DEFINE m == Len(s)
           n == Len(t)
           r == s \o t
           a == TagsOf(s)
           b == TagsOf(t)
           c == Cat(a, b)
           d == TagsOf(r)
<1>1. /\ m \in Nat /\ n \in Nat /\ r \in Seq(S) /\ Len(r) = m + n
      /\ \A i \in 1 .. m : r[i] = s[i]
      /\ \A i \in m + 1 .. m + n : r[i] = t[i - m]
  OBVIOUS
<1>2. a \in Seq(AnyTag) /\ Len(a) = m /\ \A i \in 1 .. m : a[i] = s[i].tag
  BY TagsOfType
<1>3. b \in Seq(AnyTag) /\ Len(b) = n /\ \A i \in 1 .. n : b[i] = t[i].tag
  BY TagsOfType
<1> HIDE DEF a, b, r
<1>4. /\ c \in Seq(AnyTag) /\ Len(c) = m + n
      /\ \A i \in 1 .. m : c[i] = a[i]
      /\ \A i \in m + 1 .. m + n : c[i] = b[i - m]
  <2>1. c \in Seq(AnyTag) /\ Len(c) = Len(a) + Len(b)
    BY <1>2, <1>3, CatType
  <2>2. /\ \A i \in 1 .. Len(a) : c[i] = a[i]
        /\ \A i \in Len(a) + 1 .. Len(a) + Len(b) : c[i] = b[i - Len(a)]
    <3> HIDE DEF m, n
    <3> QED
      BY <1>2, <1>3 DEF Cat
  <2> HIDE DEF c
  <2> QED
    BY <1>2, <1>3, <2>1, <2>2
<1> HIDE DEF c, m, n
<1>5. \A i \in m + 1 .. m + n : i - m \in 1 .. n
  BY <1>1
<1>6. \A i \in 1 .. m + n : i \in 1 .. m \/ i \in m + 1 .. m + n
  BY <1>1
<1>7. \A i \in 1 .. m + n : r[i].tag = c[i] /\ r[i].tag \in AnyTag
  <2>1. \A i \in 1 .. m : r[i].tag = c[i] /\ r[i].tag \in AnyTag
    BY <1>1, <1>2, <1>4 DEF m
  <2>2. \A i \in m + 1 .. m + n : r[i].tag = c[i] /\ r[i].tag \in AnyTag
    BY <1>1, <1>3, <1>4, <1>5 DEF n
  <2> QED
    BY <1>6, <2>1, <2>2
<1>8. d \in Seq(AnyTag) /\ Len(d) = m + n /\ \A i \in 1 .. m + n : d[i] = r[i].tag
  <2>1. r \in Seq(S) /\ \A i \in 1 .. Len(r) : r[i].tag \in AnyTag
    BY <1>1, <1>7
  <2> QED
    BY <1>1, <2>1, TagsOfType
<1> HIDE DEF d
<1>9. d = c
  BY <1>1, <1>4, <1>7, <1>8, SeqEqual
<1> QED
  BY <1>9 DEF c, d, a, b, r

\* What p sends q and what q reads from p is one link, and that of no other pair.
LEMMA FlowLink ==
    ASSUME NEW p \in Party, NEW q \in Party, Net!Connected(p, q)
    PROVE  /\ Net!SendLink(p, q) \in Net!Link /\ Net!RecvLink(q, p) = Net!SendLink(p, q)
           /\ \A x, y : Net!SendLink(x, y) = Net!SendLink(p, q) => x = p /\ y = q
<1>1. p \in Int /\ q \in Int /\ p # q
  BY Parties, Connections
<1>2. Net!SendChannel(p, q) \in Net!Conn /\ Net!RecvChannel(q, p) = Net!SendChannel(p, q)
  BY <1>1 DEF Net!SendChannel, Net!RecvChannel, Net!Conn
<1> QED
  BY <1>1, <1>2 DEF Net!SendLink, Net!RecvLink, Net!Link, Party

\* A step is at its place in the script.
LEMMA AtFacts ==
    ASSUME Places, NEW p \in Party
    PROVE  /\ pc[p] \in 1 .. Len(Body(p)) + 1 /\ pc[p] \in Nat /\ pc[p] - 1 \in Nat
           /\ Len(Body(p)) \in Nat
           /\ pc[p] <= Len(Body(p)) => /\ At(p) = Body(p)[pc[p]]
                                       /\ At(p) \in StepsOf(p) /\ At(p) \in AnyStep
           /\ ~ pc[p] <= Len(Body(p)) => At(p) = CloseStep /\ pc[p] = Len(Body(p)) + 1
           /\ Wait(At(p), "preproc") => /\ pc[p] <= Len(Body(p)) /\ pc[p] > 1
                                        /\ Wait(Script[p][pc[p] - 1], "lengths")
<1>1. pc[p] \in 1 .. Len(Body(p)) + 1 /\ pc[p] \in Nat
  BY DEF Places
<1> QED
  BY <1>1, AtCases DEF At

\* The last step is no send and no recv.
LEMMA CloseFacts ==
    /\ CloseStep.op = "close" /\ CloseStep.what = ""
    /\ CloseStep.op # "recv" /\ CloseStep.op # "send"
BY DEF CloseStep, Step

\* What p advances by.
LEMMA CountsAfter ==
    ASSUME Places, NEW p \in Party, pc[p] <= Len(Body(p)), pc' = [pc EXCEPT ![p] = @ + 1],
           NEW x \in Party, NEW y \in Party
    PROVE  /\ SentTo(x, y)' = IF x = p /\ At(p).op = "send" /\ At(p).peer = y
                              THEN Cat(SentTo(x, y), Tags(At(p))) ELSE SentTo(x, y)
           /\ ReadFrom(x, y)' = IF x = p /\ At(p).op = "recv" /\ At(p).peer = y
                                THEN Cat(ReadFrom(x, y), Tags(At(p))) ELSE ReadFrom(x, y)
<1>0. pc \in [Party -> Nat]
  BY DEF Places
<1>1. CASE x # p
  <2>1. pc'[x] = pc[x]
    BY <1>0, <1>1
  <2> QED
    BY <1>1, <2>1 DEF SentTo, ReadFrom
<1>2. CASE x = p
  <2> DEFINE n == pc[p] - 1
             z == At(p)
  <2>1. /\ n \in Nat /\ n < Len(Body(p)) /\ z = Body(p)[n + 1] /\ pc'[p] - 1 = n + 1
        /\ pc[p] = n + 1 /\ z \in AnyStep
    <3>1. pc[p] \in Nat /\ n \in Nat /\ Len(Body(p)) \in Nat /\ pc'[p] = pc[p] + 1
      BY <1>0, AtFacts
    <3>2. z = Body(p)[pc[p]] /\ z \in AnyStep
      BY AtFacts
    <3>3. pc[p] = n + 1 /\ n < Len(Body(p)) /\ pc'[p] - 1 = n + 1
      BY <3>1
    <3> HIDE DEF n, z
    <3> QED
      BY <3>1, <3>2, <3>3
  <2>2. ASSUME NEW dir
        PROVE  LET a == Each(Firsts(Body(p), n), Moved(dir, y))
               IN  Each(Firsts(Body(p), n + 1), Moved(dir, y))
                      = IF z.op = dir /\ z.peer = y THEN Cat(a, Tags(z)) ELSE a
    <3> DEFINE a == Each(Firsts(Body(p), n), Moved(dir, y))
               m == Moved(dir, y)[z]
    <3>1. /\ Each(Firsts(Body(p), n + 1), Moved(dir, y)) = Cat(a, m) /\ a \in Seq(AnyTag)
          /\ m = IF z.op = dir /\ z.peer = y THEN Tags(z) ELSE Nil
      <4>1. n \in Nat /\ n < Len(Body(p)) /\ z = Body(p)[n + 1]
        BY <2>1
      <4> HIDE DEF n, z
      <4> QED
        BY <4>1, OneStepOn
    <3> HIDE DEF a, m, n, z
    <3>2. Cat(a, Nil) = a
      BY <3>1, CatNil
    <3> QED
      BY <3>1, <3>2 DEF a
  <2>3. /\ SentTo(p, y) = Each(Firsts(Body(p), n), Moved("send", y))
        /\ ReadFrom(p, y) = Each(Firsts(Body(p), n), Moved("recv", y))
    BY DEF SentTo, ReadFrom
  <2>4. /\ SentTo(p, y)' = Each(Firsts(Body(p), n + 1), Moved("send", y))
        /\ ReadFrom(p, y)' = Each(Firsts(Body(p), n + 1), Moved("recv", y))
    <3> HIDE DEF n
    <3> QED
      BY <2>1 DEF SentTo, ReadFrom
  <2> HIDE DEF n, z
  <2>5. SentTo(p, y)' = IF z.op = "send" /\ z.peer = y THEN Cat(SentTo(p, y), Tags(z)) ELSE SentTo(p, y)
    BY <2>2, <2>3, <2>4
  <2>6. ReadFrom(p, y)' = IF z.op = "recv" /\ z.peer = y THEN Cat(ReadFrom(p, y), Tags(z)) ELSE ReadFrom(p, y)
    BY <2>2, <2>3, <2>4
  <2> QED
    BY <1>2, <2>5, <2>6 DEF z
<1> QED
  BY <1>1, <1>2

\* Who stays where they are have sent and read the same.
LEMMA CountsKept ==
    ASSUME pc' = pc, NEW x, NEW y
    PROVE  SentTo(x, y)' = SentTo(x, y) /\ ReadFrom(x, y)' = ReadFrom(x, y)
BY DEF SentTo, ReadFrom

\* What is in a stream, if its reader is at a read from it: the beginning of what it reads.
LEMMA AwaitedTags ==
    ASSUME Streams, Places, NEW p \in Party, At(p).op = "recv"
    PROVE  LET x == At(p)
               q == x.peer
               s == Stream(q, p)
           IN  /\ q \in Party /\ Net!Connected(q, p) /\ Net!Connected(p, q)
               /\ x \in StepsOf(p) /\ x \in AnyStep /\ pc[p] <= Len(Body(p))
               /\ ReadFrom(p, q) \in Seq(AnyTag) /\ Tags(x) \in Seq(AnyTag)
               /\ Len(Tags(x)) = Len(x.ws) /\ Len(x.ws) \in Nat
               /\ \A i \in 1 .. Len(x.ws) : Tags(x)[i] = Tag(x, i)
               /\ TagsOf(s) \in Seq(AnyTag) /\ Len(TagsOf(s)) = Len(s) /\ Len(s) \in Nat
               /\ \A i \in 1 .. Len(s) : s[i].tag = TagsOf(s)[i] /\ s[i].tag \in AnyTag
               /\ \E t, u \in Seq(AnyTag) : Cat(TagsOf(s), t) = Cat(Tags(x), u)
<1> DEFINE x == At(p)
           q == x.peer
           s == Stream(q, p)
           n == pc[p] - 1
           read == ReadFrom(p, q)
           done == SentTo(q, p)
<1>1. pc[p] <= Len(Body(p)) /\ x \in StepsOf(p) /\ x \in AnyStep /\ x = Body(p)[n + 1]
      /\ n \in Nat /\ n < Len(Body(p))
  <2>1. x.op = "recv" /\ CloseStep.op # "recv"
    BY CloseFacts
  <2>2. x # CloseStep
    BY <2>1
  <2> HIDE DEF x
  <2>3. pc[p] <= Len(Body(p))
    BY <2>2, AtFacts DEF x
  <2>4. x \in StepsOf(p) /\ x \in AnyStep /\ x = Body(p)[pc[p]]
    BY <2>3, AtFacts DEF x
  <2>5. pc[p] \in Nat /\ Len(Body(p)) \in Nat /\ n \in Nat
    BY AtFacts
  <2>6. pc[p] = n + 1
    BY <2>5
  <2> HIDE DEF n
  <2> QED
    BY <2>3, <2>4, <2>5, <2>6
<1>2. q \in Party /\ Net!Connected(p, q) /\ x.peer = q
  BY <1>1 DEF StepsOf, Moves
<1>3. Net!Connected(q, p)
  BY <1>2, Connections
<1>4. /\ Tags(x) \in Seq(AnyTag) /\ Len(Tags(x)) = Len(x.ws) /\ Len(x.ws) \in Nat
      /\ \A i \in 1 .. Len(x.ws) : Tags(x)[i] = Tag(x, i)
  <2>1. x.what \in Whats /\ x.ws \in Seq(Nat) /\ x.round \in Nat
    BY <1>1 DEF AnyStep
  <2> HIDE DEF x
  <2>2. Len(x.ws) \in Nat
    BY <2>1, LenProperties
  <2> QED
    BY <2>1, <2>2, TagSeqType DEF Tags, Tag
<1>5. PICK S : Buffered(Net!Link, S, wire, out)
  BY DEF Streams
<1>6. s \in Seq(S)
  <2>1. Net!SendLink(q, p) \in Net!Link
    BY <1>2, <1>3, FlowLink
  <2> HIDE DEF q
  <2> QED
    BY <1>5, <2>1, ConcatProperties DEF Buffered, Stream, Contents
<1>7. /\ \A i \in 1 .. Len(s) : s[i].tag \in AnyTag
      /\ Cat(read, TagsOf(s)) = done
  BY <1>2, <1>3 DEF Streams, StreamRight, Right
<1> HIDE DEF s
<1>8. /\ TagsOf(s) \in Seq(AnyTag) /\ Len(TagsOf(s)) = Len(s) /\ Len(s) \in Nat
      /\ \A i \in 1 .. Len(s) : s[i].tag = TagsOf(s)[i]
  BY <1>6, <1>7, TagsOfType, LenProperties
<1>9. PICK u \in Seq(AnyTag) :
         /\ read \in Seq(AnyTag)
         /\ Each(Body(p), Moved("recv", q)) = Cat(Cat(read, Tags(x)), u)
  <2> DEFINE a == Each(Firsts(Body(p), n), Moved("recv", q))
             y == Moved("recv", q)[x]
  <2>1. /\ a \in Seq(AnyTag) /\ \E t \in Seq(AnyTag) : Each(Body(p), Moved("recv", q)) = Cat(Cat(a, y), t)
        /\ y = IF x.op = "recv" /\ x.peer = q THEN Tags(x) ELSE Nil
    <3>1. n \in Nat /\ n < Len(Body(p)) /\ x = Body(p)[n + 1]
      BY <1>1
    <3> HIDE DEF n, q, x
    <3> QED
      BY <3>1, OneStepOn
  <2>2. a = read
    BY DEF ReadFrom
  <2>3. y = Tags(x)
    BY <1>2, <2>1
  <2> HIDE DEF a, y, read, n, q, x
  <2> QED
    BY <2>1, <2>2, <2>3
<1>10. PICK t \in Seq(AnyTag) : Each(Body(q), Moved("send", p)) = Cat(done, t)
  <2> DEFINE k == pc[q] - 1
  <2>1. k \in Nat /\ k <= Len(Body(q)) /\ done = Each(Firsts(Body(q), k), Moved("send", p))
    BY <1>2, AtFacts DEF SentTo
  <2> HIDE DEF k, q, done
  <2> QED
    BY <1>2, <2>1, SoFar
<1>11. Each(Body(q), Moved("send", p)) = Each(Body(p), Moved("recv", q))
  BY <1>2, BodiesMatch
<1> HIDE DEF x, q, read, done
<1>12. Cat(Cat(read, TagsOf(s)), t) = Cat(Cat(read, Tags(x)), u)
  BY <1>7, <1>9, <1>10, <1>11
<1>13. /\ Cat(Cat(read, TagsOf(s)), t) = Cat(read, Cat(TagsOf(s), t))
       /\ Cat(Cat(read, Tags(x)), u) = Cat(read, Cat(Tags(x), u))
  BY <1>4, <1>8, <1>9, CatAssociative
<1>14. Cat(TagsOf(s), t) \in Seq(AnyTag) /\ Cat(Tags(x), u) \in Seq(AnyTag)
  BY <1>4, <1>8, CatType
<1>15. Cat(TagsOf(s), t) = Cat(Tags(x), u)
  BY <1>9, <1>12, <1>13, <1>14, CatCancel
<1>16. \E v, w \in Seq(AnyTag) : Cat(TagsOf(s), v) = Cat(Tags(x), w)
  BY <1>15
<1> QED
  BY <1>1, <1>2, <1>3, <1>4, <1>7, <1>8, <1>9, <1>16 DEF x, q, s, read
-----------------------------------------------------------------------------
(***************************************************************************)
(* The steps, one by one.                                                  *)
(***************************************************************************)
\* The parts of the invariant that a step leaves alone.
LEMMA StreamsKept ==
    ASSUME Streams, NEW S, Buffered(Net!Link, S, wire', out'),
           \A l \in Net!Link : Contents(wire', out', l) = Contents(wire, out, l),
           \A x, y \in Party : SentTo(x, y)' = SentTo(x, y) /\ ReadFrom(x, y)' = ReadFrom(x, y)
    PROVE  Streams'
<1>1. ASSUME NEW p \in Party, NEW q \in Party, Net!Connected(p, q)
      PROVE  StreamRight(p, q)'
  <2>1. StreamRight(p, q)
    BY <1>1 DEF Streams
  <2>2. Stream(p, q)' = Stream(p, q)
    BY <1>1, FlowLink DEF Stream
  <2> QED
    BY <2>1, <2>2 DEF StreamRight
<1>2. \A l \in Net!Link : l # Net!SendLink(l[1], l[2]) => Contents(wire', out', l) = Nil
  BY DEF Streams
<1> QED
  BY <1>1, <1>2 DEF Streams

\* A flush changes no stream.
LEMMA FlushStreams ==
    ASSUME Streams, NEW L, Net!FlushLinks(L),
           \A x, y \in Party : SentTo(x, y)' = SentTo(x, y) /\ ReadFrom(x, y)' = ReadFrom(x, y)
    PROVE  Streams'
<1>1. PICK S : Buffered(Net!Link, S, wire, out)
  BY DEF Streams
<1>2. Flushed(Net!Link, wire, out, L, wire', out')
  BY DEF Net!FlushLinks, Flushed
<1>3. /\ Buffered(Net!Link, S, wire', out')
      /\ \A m \in Net!Link : Contents(wire', out', m) = Contents(wire, out, m)
  BY ONLY <1>1, <1>2, StreamFlush
<1> QED
  BY <1>3, StreamsKept

\* Nor does a step that leaves the network alone.
LEMMA SameStreams ==
    ASSUME Streams, wire' = wire, out' = out,
           \A x, y \in Party : SentTo(x, y)' = SentTo(x, y) /\ ReadFrom(x, y)' = ReadFrom(x, y)
    PROVE  Streams'
<1>1. PICK S : Buffered(Net!Link, S, wire, out)
  BY DEF Streams
<1>2. Buffered(Net!Link, S, wire', out')
  BY <1>1
<1> QED
  BY <1>2, StreamsKept

\* A step that sends and reads nothing.
LEMMA QuietCounts ==
    ASSUME Places, NEW p \in Party, pc[p] <= Len(Body(p)), pc' = [pc EXCEPT ![p] = @ + 1],
           At(p).op # "send", At(p).op # "recv"
    PROVE  \A x, y \in Party : SentTo(x, y)' = SentTo(x, y) /\ ReadFrom(x, y)' = ReadFrom(x, y)
BY CountsAfter

\* The positions after p moved on.
LEMMA PlacesAfter ==
    ASSUME Places, NEW p \in Party, pc[p] <= Len(Body(p)), pc' = [pc EXCEPT ![p] = @ + 1]
    PROVE  Places' /\ \A x \in Party : x # p => At(x)' = At(x)
<1>1. \A x \in Party : pc'[x] = IF x = p THEN pc[p] + 1 ELSE pc[x]
  BY DEF Places
<1>2. pc' \in [Party -> Nat]
  BY DEF Places
<1>3. ASSUME NEW x \in Party PROVE pc'[x] \in 1 .. Len(Body(x)) + 1
  <2>1. pc[x] \in 1 .. Len(Body(x)) + 1 /\ pc[x] \in Nat /\ Len(Body(x)) \in Nat
    BY AtFacts
  <2> QED
    BY <1>1, <2>1
<1>4. \A x \in Party : x # p => At(x)' = At(x)
  BY <1>1 DEF At
<1> QED
  BY <1>2, <1>3, <1>4 DEF Places

\* The positions if nobody moved.
LEMMA PlacesKept ==
    ASSUME Places, pc' = pc
    PROVE  Places' /\ \A x \in Party : At(x)' = At(x)
BY DEF Places, At

\* p moves on, and is not reading.
LEMMA WaitsAfter ==
    ASSUME Places, Waits, NEW p \in Party, pc[p] <= Len(Body(p)),
           pc' = [pc EXCEPT ![p] = @ + 1], open' = open,
           waiting' \in [Party -> Reader], waiting'[p] = Net!Idle,
           \A x \in Party : x # p => waiting'[x] = waiting[x]
    PROVE  Waits'
<1>1. \A x \in Party : x # p => At(x)' = At(x)
  BY PlacesAfter
<1>2. \A x \in Party : x # p => pc'[x] = pc[x]
  BY DEF Places
<1>3. open[p]
  <2>1. pc[p] \in Nat /\ Len(Body(p)) \in Nat /\ pc[p] # Len(Body(p)) + 1
    BY AtFacts
  <2> QED
    BY <2>1 DEF Waits
<1>4. \A x \in Party : waiting'[x] # Net!Idle =>
         At(x)'.op = "recv" /\ waiting'[x] = [src |-> At(x)'.peer, n |-> Len(At(x)'.ws)]
  BY <1>1 DEF Waits
<1>5. \A x \in Party : ~ open'[x] => pc'[x] = Len(Body(x)) + 1
  BY <1>2, <1>3 DEF Waits
<1> QED
  BY <1>4, <1>5 DEF Waits

\* Who is not at a recv is not blocked.
LEMMA StillNotReading ==
    ASSUME Waits, NEW p \in Party, At(p).op # "recv"
    PROVE  waiting[p] = Net!Idle
BY DEF Waits

\* p moves on from a step other than a read of lengths.
LEMMA LengthsAfter ==
    ASSUME Places, LengthsRead, NEW p \in Party, pc[p] <= Len(Body(p)),
           pc' = [pc EXCEPT ![p] = @ + 1],
           NEW V, buf' \in [Party -> [Party -> V]],
           \A x \in Party : x # p => buf'[x] = buf[x],
           Wait(At(p), "lengths") => buf'[p][0] = LengthValues(p)
    PROVE  LengthsRead'
<1>1. Places' /\ \A x \in Party : x # p => At(x)' = At(x)
  BY PlacesAfter
<1>2. ASSUME NEW x \in Party, Wait(At(x)', "preproc")
      PROVE  buf'[x][0] = LengthValues(x)
  <2>1. CASE x # p
    BY <1>1, <1>2, <2>1 DEF LengthsRead
  <2>2. CASE x = p
    <3>1. pc'[p] = pc[p] + 1 /\ pc[p] \in Nat
      BY DEF Places
    <3>2. pc'[p] \in 1 .. Len(Body(p)) + 1
      BY <1>1 DEF Places
    <3>3. At(p)' = Script[p][pc'[p]]
      BY DEF At
    <3>4. Wait(Script[p][pc'[p]], "preproc")
      BY <1>2, <2>2, <3>3
    <3>5. Wait(Script[p][pc'[p] - 1], "lengths")
      <4> DEFINE n == pc'[p]
      <4>1. n \in 1 .. Len(Body(p)) + 1 /\ Wait(Script[p][n], "preproc")
        BY <3>2, <3>4
      <4> HIDE DEF n
      <4>2. Wait(Script[p][n - 1], "lengths")
        BY <4>1, AtCases
      <4> QED
        BY <4>2 DEF n
    <3>6. pc'[p] - 1 = pc[p]
      BY <3>1
    <3>7. Wait(At(p), "lengths")
      BY <3>5, <3>6 DEF At
    <3> QED
      BY <2>2, <3>7
  <2> QED
    BY <2>1, <2>2
<1> QED
  BY <1>2 DEF LengthsRead

\* The lengths read if nobody moved.
LEMMA LengthsKept ==
    ASSUME LengthsRead, pc' = pc, buf' = buf
    PROVE  LengthsRead'
BY DEF LengthsRead, At

\* The type of the arrays read, unchanged.
LEMMA SameBuf ==
    ASSUME LengthsRead, buf' = buf
    PROVE  \E V : buf' \in [Party -> [Party -> V]]
BY DEF LengthsRead

\* A local step or a flush: nothing is sent or read.
LEMMA QuietStep ==
    ASSUME IInv, NEW p \in Party, pc[p] <= Len(Body(p)), At(p).op # "send", At(p).op # "recv",
           pc' = [pc EXCEPT ![p] = @ + 1], Streams', waiting' = waiting, open' = open,
           NEW V, buf' \in [Party -> [Party -> V]],
           \A x \in Party : x # p => buf'[x] = buf[x]
    PROVE  IInv'
<1>1. Places'
  BY PlacesAfter DEF IInv
<1>2. Waits'
  <2>1. waiting \in [Party -> Reader] /\ waiting[p] = Net!Idle
    BY StillNotReading DEF IInv, Waits
  <2>2. waiting' \in [Party -> Reader] /\ waiting'[p] = Net!Idle
    BY <2>1
  <2> QED
    BY <2>2, WaitsAfter DEF IInv
<1>3. LengthsRead'
  <2>1. ~ Wait(At(p), "lengths")
    BY DEF Wait
  <2> QED
    BY <2>1, LengthsAfter DEF IInv
<1> QED
  BY <1>1, <1>2, <1>3 DEF IInv

\* A local step preserves the invariant.
LEMMA LocalStep ==
    ASSUME IInv, NEW p \in Party, pc[p] <= Len(Body(p)), At(p).op # "send", At(p).op # "recv",
           Advance(p), UNCHANGED netVars,
           NEW V, buf' \in [Party -> [Party -> V]],
           \A x \in Party : x # p => buf'[x] = buf[x]
    PROVE  IInv'
<1>1. pc' = [pc EXCEPT ![p] = @ + 1]
  BY DEF Advance
<1>2. wire' = wire /\ out' = out /\ waiting' = waiting /\ open' = open
  BY DEF netVars
<1>3. \A x, y \in Party : SentTo(x, y)' = SentTo(x, y) /\ ReadFrom(x, y)' = ReadFrom(x, y)
  BY <1>1, QuietCounts DEF IInv
<1>4. Streams'
  BY <1>2, <1>3, SameStreams DEF IInv
<1> QED
  BY <1>1, <1>2, <1>4, QuietStep

\* Which steps the local actions are for.
LEMMA LocalFacts ==
    ASSUME Places, NEW p \in Party,
           \/ At(p).what = "start"
           \/ At(p).what \in {"match", "compare"}
           \/ At(p).op = "local"
           \/ At(p).op = "flush"
    PROVE  pc[p] <= Len(Body(p)) /\ At(p).op # "send" /\ At(p).op # "recv"
<1>1. At(p) # CloseStep
  BY CloseFacts
<1>2. pc[p] <= Len(Body(p)) /\ At(p) \in StepsOf(p)
  BY <1>1, AtFacts
<1>3. At(p).op # "send" /\ At(p).op # "recv"
  BY <1>2 DEF StepsOf, Moves
<1> QED
  BY <1>2, <1>3

\* The start of a round preserves the invariant.
LEMMA StartStep ==
    ASSUME IInv, NEW p \in Party, Start(p)
    PROVE  IInv'
<1>1. At(p).what = "start" /\ Advance(p) /\ UNCHANGED netVars
      /\ buf' = [buf EXCEPT ![p] = [q \in Party |-> <<>>]]
  BY DEF Start
<1>2. PICK V : buf \in [Party -> [Party -> V]]
  BY DEF IInv, LengthsRead
<1>3. /\ buf' \in [Party -> [Party -> V \cup {<<>>}]]
      /\ \A x \in Party : x # p => buf'[x] = buf[x]
  BY <1>1, <1>2
<1> QED
  BY <1>1, <1>3, LocalFacts, LocalStep DEF IInv

\* So does the end of a level,
LEMMA EndLevelStep ==
    ASSUME IInv, NEW p \in Party, EndLevel(p)
    PROVE  IInv'
<1>1. At(p).op = "local" /\ Advance(p) /\ UNCHANGED netVars /\ buf' = buf
  BY DEF EndLevel
<1>2. PICK V : buf' \in [Party -> [Party -> V]]
  BY <1>1, SameBuf DEF IInv
<1> QED
  BY <1>1, <1>2, LocalFacts, LocalStep DEF IInv

\* so does the reconstruction of the answers,
LEMMA ConcludeStep ==
    ASSUME IInv, NEW p \in Party, Conclude(p)
    PROVE  IInv'
<1>1. At(p).what \in {"match", "compare"} /\ Advance(p) /\ UNCHANGED netVars /\ buf' = buf
  BY DEF Conclude
<1>2. PICK V : buf' \in [Party -> [Party -> V]]
  BY <1>1, SameBuf DEF IInv
<1> QED
  BY <1>1, <1>2, LocalFacts, LocalStep DEF IInv

\* so does a flush of all channels,
LEMMA FlushStepKeeps ==
    ASSUME IInv, NEW p \in Party, DoFlush(p)
    PROVE  IInv'
<1> DEFINE L == {l \in Net!Link : l[1] = p}
<1>1. At(p).op = "flush" /\ Net!FlushAll(p) /\ Advance(p) /\ buf' = buf
  BY DEF DoFlush
<1>2. Net!FlushLinks(L) /\ waiting' = waiting /\ open' = open
  BY <1>1 DEF Net!FlushAll
<1>3. pc' = [pc EXCEPT ![p] = @ + 1]
  BY <1>1 DEF Advance
<1>4. pc[p] <= Len(Body(p)) /\ At(p).op # "send" /\ At(p).op # "recv"
  BY <1>1, LocalFacts DEF IInv
<1>5. \A x, y \in Party : SentTo(x, y)' = SentTo(x, y) /\ ReadFrom(x, y)' = ReadFrom(x, y)
  BY <1>3, <1>4, QuietCounts DEF IInv
<1> HIDE DEF L
<1>6. Streams'
  BY <1>2, <1>5, FlushStreams DEF IInv
<1>7. PICK V : buf' \in [Party -> [Party -> V]]
  BY <1>1, SameBuf DEF IInv
<1>8. \A x \in Party : x # p => buf'[x] = buf[x]
  BY <1>1
<1> QED
  BY <1>2, <1>3, <1>4, <1>6, <1>7, <1>8, QuietStep

\* so does the call of recv: it asks for the length of its step, for preprocessing values
\* because the lengths were read,
LEMMA CallStep ==
    ASSUME IInv, NEW p \in Party, CallRecv(p)
    PROVE  IInv'
<1> DEFINE s == At(p)
           L == IF sent[<<p, s.peer>>] THEN {Net!SendLink(p, s.peer)} ELSE {}
<1>1. /\ s.op = "recv" /\ Net!RecvCall(p, s.peer, Wanted(p, s)) /\ pc' = pc /\ buf' = buf
  BY DEF CallRecv
<1>2. /\ Net!FlushLinks(L) /\ open' = open
      /\ waiting' = [waiting EXCEPT ![p] = [src |-> s.peer, n |-> Wanted(p, s)]]
  BY <1>1 DEF Net!RecvCall
<1>3. \A x, y \in Party : SentTo(x, y)' = SentTo(x, y) /\ ReadFrom(x, y)' = ReadFrom(x, y)
  BY <1>1, CountsKept
<1> HIDE DEF L
<1>4. Streams'
  BY <1>2, <1>3, FlushStreams DEF IInv
<1>5. Places' /\ \A x \in Party : At(x)' = At(x)
  BY <1>1, PlacesKept DEF IInv
<1>6. LengthsRead'
  BY <1>1, LengthsKept DEF IInv
<1>7. s \in StepsOf(p) /\ s.peer \in Nat /\ Len(s.ws) \in Nat
  <2>1. s \in StepsOf(p) /\ s \in AnyStep
    BY <1>1, AwaitedTags DEF IInv
  <2> QED
    BY <2>1, LenProperties DEF AnyStep
<1>8. Wanted(p, s) = Len(s.ws)
  <2>1. CASE s.what = "preproc"
    <3>1. Wait(s, "preproc")
      BY <1>1, <2>1 DEF Wait
    <3>2. p \in Net!Driver /\ s.ws = PreprocWires(p)
      BY <1>7, <3>1 DEF StepsOf, PreprocWires
    <3>3. Len(s.ws) = Len(SecWires[p]) + Len(ParWires[p])
      BY <3>2, PreprocWiresType
    <3>4. buf[p][0] = LengthValues(p)
      BY <3>1 DEF IInv, LengthsRead
    <3> QED
      BY <2>1, <3>3, <3>4 DEF Wanted, LengthValues
  <2>2. CASE s.what # "preproc"
    BY <2>2 DEF Wanted
  <2> QED
    BY <2>1, <2>2
<1> HIDE DEF s
<1>9. Waits'
  <2>1. /\ waiting \in [Party -> Reader] /\ open \in [Party -> BOOLEAN]
        /\ \A x \in Party : waiting[x] # Net!Idle =>
              At(x).op = "recv" /\ waiting[x] = [src |-> At(x).peer, n |-> Len(At(x).ws)]
        /\ \A x \in Party : ~ open[x] => pc[x] = Len(Body(x)) + 1
    BY DEF IInv, Waits
  <2>2. [src |-> s.peer, n |-> Len(s.ws)] \in Reader
    BY <1>7 DEF Reader
  <2>3. /\ waiting' \in [Party -> Reader]
        /\ \A x \in Party : waiting'[x] = IF x = p THEN [src |-> s.peer, n |-> Len(s.ws)] ELSE waiting[x]
    BY <1>2, <1>8, <2>1, <2>2
  <2>4. \A x \in Party : waiting'[x] # Net!Idle =>
              At(x)'.op = "recv" /\ waiting'[x] = [src |-> At(x)'.peer, n |-> Len(At(x)'.ws)]
    BY <1>1, <1>5, <2>1, <2>3 DEF s
  <2> QED
    BY <1>1, <1>2, <2>1, <2>3, <2>4 DEF Waits
<1> QED
  BY <1>4, <1>5, <1>6, <1>9 DEF IInv

\* and so does the destructor, which is reached at the end of the script only.
LEMMA CloseStepKeeps ==
    ASSUME IInv, NEW p \in Party, Close(p)
    PROVE  IInv'
<1> DEFINE L == {l \in Net!Link : l[1] = p}
<1>1. At(p).op = "close" /\ Net!Close(p) /\ pc' = pc /\ buf' = buf
  BY DEF Close
<1>2. Net!FlushLinks(L) /\ waiting' = waiting /\ open' = [open EXCEPT ![p] = FALSE]
  BY <1>1 DEF Net!Close
<1>3. \A x, y \in Party : SentTo(x, y)' = SentTo(x, y) /\ ReadFrom(x, y)' = ReadFrom(x, y)
  BY <1>1, CountsKept
<1> HIDE DEF L
<1>4. Streams'
  BY <1>2, <1>3, FlushStreams DEF IInv
<1>5. Places' /\ \A x \in Party : At(x)' = At(x)
  BY <1>1, PlacesKept DEF IInv
<1>6. LengthsRead'
  BY <1>1, LengthsKept DEF IInv
<1>7. pc[p] = Len(Body(p)) + 1
  <2>1. pc[p] <= Len(Body(p)) => At(p) \in StepsOf(p)
    BY AtFacts DEF IInv
  <2>2. pc[p] <= Len(Body(p)) => At(p).op # "close"
    BY <2>1 DEF StepsOf
  <2> QED
    BY <1>1, <2>2, AtFacts DEF IInv
<1>8. Waits'
  BY <1>1, <1>2, <1>5, <1>7 DEF IInv, Waits
<1> QED
  BY <1>4, <1>5, <1>6, <1>8 DEF IInv

\* The array p sends in step s: its tags are those of s, and lengths are right.
LEMMA SentArray ==
    ASSUME NEW p \in Party, NEW s \in StepsOf(p), s.op = "send"
    PROVE  LET data == Items(p, s)
               X == {data[i] : i \in 1 .. Len(s.ws)}
           IN  /\ data \in Seq(X) /\ Len(data) = Len(s.ws) /\ Len(s.ws) \in Nat
               /\ \A i \in 1 .. Len(data) : Right(data[i], s.peer)
               /\ TagsOf(data) = Tags(s)
<1> DEFINE data == Items(p, s)
           n == Len(s.ws)
           X == {data[i] : i \in 1 .. n}
<1>1. s \in AnyStep /\ s.what \in Whats /\ s.ws \in Seq(Nat) /\ s.round \in Nat /\ n \in Nat
      /\ DOMAIN s.ws = 1 .. n
  <2>1. s \in AnyStep
    BY StepsSubset
  <2>2. s.what \in Whats /\ s.ws \in Seq(Nat) /\ s.round \in Nat
    BY <2>1 DEF AnyStep
  <2> QED
    BY <2>1, <2>2, LenProperties
<1>2. /\ Tags(s) \in Seq(AnyTag) /\ Len(Tags(s)) = n
      /\ \A i \in 1 .. n : Tags(s)[i] = Tag(s, i) /\ Tags(s)[i] \in AnyTag
  <2>1. /\ Tags(s) \in Seq(AnyTag) /\ Len(Tags(s)) = n
        /\ \A i \in 1 .. n : Tags(s)[i] = Tag(s, i)
    BY <1>1, TagSeqType DEF Tags, Tag
  <2> QED
    BY <2>1, ElementOfSeq
<1>3. \A i \in 1 .. n : data[i].tag = Tag(s, i) /\ data[i].v = Value(p, s, i)
  BY <1>1 DEF Items
<1>4. data \in Seq(X) /\ Len(data) = n
  <2>1. data = [i \in 1 .. n |-> data[i]]
    BY <1>1 DEF Items
  <2> HIDE DEF data
  <2>2. data \in [1 .. n -> X]
    BY <2>1
  <2> HIDE DEF X, n
  <2> QED
    BY <1>1, <2>2, IsASeq DEF n
<1>5. ASSUME NEW i \in 1 .. n
      PROVE  Right(data[i], s.peer)
  <2>1. data[i].tag \in AnyTag /\ data[i].tag = Tag(s, i)
    BY <1>2, <1>3
  <2>2. ASSUME data[i].tag[1] = "lengths"
        PROVE  s.peer \in Net!Driver /\ data[i].v = LengthValues(s.peer)[data[i].tag[2]]
    <3>1. s.what = "lengths" /\ data[i].tag[2] = s.ws[i]
      BY <2>1, <2>2 DEF Tag
    <3>2. s.ws = <<1, 2, 3>> /\ s.peer \in Net!Driver
      BY <3>1 DEF StepsOf, Moves
    <3>3. n = 3 /\ s.ws[i] = i
      BY <3>2
    <3>4. data[i].v = LengthValues(s.peer)[i]
      BY <1>3, <3>1 DEF Value, LengthValues
    <3> QED
      BY <3>1, <3>2, <3>3, <3>4
  <2> QED
    BY <2>1, <2>2 DEF Right
<1> HIDE DEF data, X
<1>6. TagsOf(data) = Tags(s)
  <2> DEFINE a == TagsOf(data)
             b == Tags(s)
  <2>1. \A i \in 1 .. Len(data) : data[i].tag \in AnyTag
    BY <1>2, <1>3, <1>4
  <2>2. a \in Seq(AnyTag) /\ Len(a) = n /\ \A i \in 1 .. n : a[i] = data[i].tag
    BY <1>4, <2>1, TagsOfType
  <2>3. b \in Seq(AnyTag) /\ Len(b) = n /\ \A i \in 1 .. n : b[i] = Tag(s, i)
    BY <1>2
  <2> HIDE DEF a, b, n
  <2>4. \A i \in 1 .. n : a[i] = b[i]
    BY <1>3, <2>2, <2>3
  <2>5. a = b
    BY <1>1, <2>2, <2>3, <2>4, SeqEqual
  <2> QED
    BY <2>5 DEF a, b
<1> QED
  BY <1>1, <1>4, <1>5, <1>6 DEF data, X

\* A stream to which right elements are appended, and their tags to what was sent.
LEMMA AppendedRight ==
    ASSUME NEW S, NEW s \in Seq(S), NEW data \in Seq(S), NEW q,
           \A i \in 1 .. Len(s) : Right(s[i], q), \A i \in 1 .. Len(data) : Right(data[i], q),
           NEW read \in Seq(AnyTag)
    PROVE  /\ \A i \in 1 .. Len(s \o data) : Right((s \o data)[i], q)
           /\ Cat(read, TagsOf(s \o data)) = Cat(Cat(read, TagsOf(s)), TagsOf(data))
<1>1. /\ \A i \in 1 .. Len(s) : s[i].tag \in AnyTag
      /\ \A i \in 1 .. Len(data) : data[i].tag \in AnyTag
  BY DEF Right
<1>2. TagsOf(s \o data) = Cat(TagsOf(s), TagsOf(data))
  BY <1>1, TagsOfCat
<1>3. TagsOf(s) \in Seq(AnyTag) /\ TagsOf(data) \in Seq(AnyTag)
  BY <1>1, TagsOfType
<1>4. Cat(read, Cat(TagsOf(s), TagsOf(data))) = Cat(Cat(read, TagsOf(s)), TagsOf(data))
  BY <1>3, CatAssociative
<1>5. /\ Len(s) \in Nat /\ Len(data) \in Nat /\ Len(s \o data) = Len(s) + Len(data)
      /\ \A i \in 1 .. Len(s) : (s \o data)[i] = s[i]
      /\ \A i \in Len(s) + 1 .. Len(s) + Len(data) :
            (s \o data)[i] = data[i - Len(s)] /\ i - Len(s) \in 1 .. Len(data)
  OBVIOUS
<1>6. \A i \in 1 .. Len(s \o data) : i \in 1 .. Len(s) \/ i \in Len(s) + 1 .. Len(s) + Len(data)
  BY <1>5
<1> QED
  BY <1>2, <1>4, <1>5, <1>6

\* A send preserves the invariant: the stream grows by what the sender's position does.
LEMMA SendStepKeeps ==
    ASSUME IInv, NEW p \in Party, DoSend(p)
    PROVE  IInv'
<1> DEFINE s == At(p)
           data == Items(p, s)
           X == {data[i] : i \in 1 .. Len(s.ws)}
<1>0. /\ s.op = "send" /\ Net!Send(p, s.peer, data) /\ Advance(p) /\ buf' = buf
  BY DEF DoSend
<1>2. pc[p] <= Len(Body(p)) /\ s \in StepsOf(p)
  <2>1. s # CloseStep
    BY <1>0, CloseFacts
  <2> QED
    BY <2>1, AtFacts DEF IInv
<1>3. PICK q \in Party : q = s.peer /\ Net!Connected(p, q)
  BY <1>0, <1>2 DEF StepsOf, Moves
<1> DEFINE l == Net!SendLink(p, q)
<1>1. /\ s.op = "send" /\ Net!Send(p, q, data) /\ Advance(p) /\ buf' = buf
  BY <1>0, <1>3
<1>4. /\ data \in Seq(X) /\ \A i \in 1 .. Len(data) : Right(data[i], q)
      /\ TagsOf(data) = Tags(s)
  BY <1>1, <1>2, <1>3, SentArray
<1>5. pc' = [pc EXCEPT ![p] = @ + 1]
  BY <1>1 DEF Advance
<1>6. waiting' = waiting /\ open' = open /\ waiting[p] = Net!Idle
  BY <1>1 DEF Net!Send, Net!Running
<1>7. l \in Net!Link /\ \A x, y : Net!SendLink(x, y) = l => x = p /\ y = q
  BY <1>3, FlowLink
<1>8. PICK S0 : Buffered(Net!Link, S0, wire, out)
  BY DEF IInv, Streams
<1> DEFINE S == S0 \cup X
<1> HIDE DEF data, X
<1>9. Buffered(Net!Link, S, wire, out) /\ data \in Seq(S)
  <2>1. Seq(S0) \subseteq Seq(S) /\ Seq(X) \subseteq Seq(S)
    BY SeqMonotonic
  <2> HIDE DEF S
  <2> QED
    BY <1>4, <1>8, <2>1 DEF Buffered
<1> HIDE DEF S
<1>10. /\ Buffered(Net!Link, S, wire', out')
       /\ Contents(wire', out', l) = Contents(wire, out, l) \o data
       /\ \A m \in Net!Link : m # l => Contents(wire', out', m) = Contents(wire, out, m)
  <2> HIDE DEF l
  <2>1. PICK n \in Net!Written(out[l] \o data) :
              /\ wire' = [wire EXCEPT ![l] = @ \o SubSeq(out[l] \o data, 1, n)]
              /\ out' = [out EXCEPT ![l] = SubSeq(out[l] \o data, n + 1, Len(out[l] \o data))]
    BY <1>1 DEF Net!Send, l
  <2>2. out[l] \o data \in Seq(S)
    BY <1>7, <1>9, ConcatProperties DEF Buffered
  <2>3. n \in 0 .. Len(out[l] \o data)
    <3>1. Len(out[l] \o data) \in Nat
      BY <2>2
    <3> QED
      BY <3>1, NetAssumption DEF Net!Written
  <2>4. Appended(wire, out, l, data, n, wire', out')
    BY <2>1 DEF Appended
  <2> QED
    BY ONLY <1>7, <1>9, <2>3, <2>4, StreamAppend
<1>11. \A x, y \in Party :
          /\ ReadFrom(x, y)' = ReadFrom(x, y)
          /\ SentTo(x, y)' = IF x = p /\ y = q THEN Cat(SentTo(x, y), Tags(s)) ELSE SentTo(x, y)
  BY <1>1, <1>2, <1>3, <1>5, CountsAfter DEF IInv
<1>12. ASSUME NEW x \in Party, NEW y \in Party, Net!Connected(x, y)
       PROVE  StreamRight(x, y)'
  <2>1. StreamRight(x, y)
    BY <1>12 DEF IInv, Streams
  <2>2. CASE x = p /\ y = q
    <3> DEFINE r == Stream(p, q)
    <3>1. Stream(p, q)' = r \o data
      BY <1>10 DEF Stream, l
    <3>2. r \in Seq(S)
      <4> HIDE DEF l
      <4>1. wire[l] \o out[l] \in Seq(S)
        BY <1>7, <1>9, ConcatProperties DEF Buffered
      <4> QED
        BY <4>1 DEF Stream, Contents, l
    <3>3. ReadFrom(q, p) \in Seq(AnyTag)
      <4> DEFINE k == pc[q] - 1
      <4>1. k \in Nat /\ k <= Len(Body(q)) /\ ReadFrom(q, p) = Each(Firsts(Body(q), k), Moved("recv", p))
        BY <1>3, AtFacts DEF ReadFrom, IInv
      <4> HIDE DEF k
      <4> QED
        BY <1>3, <4>1, SoFar
    <3>4. /\ \A i \in 1 .. Len(r) : Right(r[i], q)
          /\ Cat(ReadFrom(q, p), TagsOf(r)) = SentTo(p, q)
      BY <2>1, <2>2 DEF StreamRight
    <3> HIDE DEF r
    <3>5. /\ \A i \in 1 .. Len(r \o data) : Right((r \o data)[i], q)
          /\ Cat(ReadFrom(q, p), TagsOf(r \o data)) = Cat(SentTo(p, q), TagsOf(data))
      <4> DEFINE read == ReadFrom(q, p)
                 done == SentTo(p, q)
      <4>1. data \in Seq(S) /\ \A i \in 1 .. Len(data) : Right(data[i], q)
        BY <1>4, <1>9
      <4>2. /\ r \in Seq(S) /\ read \in Seq(AnyTag)
            /\ \A i \in 1 .. Len(r) : Right(r[i], q)
            /\ Cat(read, TagsOf(r)) = done
        BY <3>2, <3>3, <3>4
      <4> HIDE DEF read, done
      <4>3. \A i \in 1 .. Len(r \o data) : Right((r \o data)[i], q)
        BY ONLY <4>1, <4>2, AppendedRight
      <4>4. Cat(read, TagsOf(r \o data)) = Cat(Cat(read, TagsOf(r)), TagsOf(data))
        BY ONLY <4>1, <4>2, AppendedRight
      <4> QED
        BY <4>2, <4>3, <4>4 DEF read, done
    <3>6. ReadFrom(q, p)' = ReadFrom(q, p) /\ SentTo(p, q)' = Cat(SentTo(p, q), TagsOf(data))
      BY <1>3, <1>4, <1>11
    <3> QED
      BY <2>2, <3>1, <3>5, <3>6 DEF StreamRight
  <2>3. CASE ~ (x = p /\ y = q)
    <3>1. Net!SendLink(x, y) \in Net!Link /\ Net!SendLink(x, y) # l
      BY <1>7, <1>12, <2>3, FlowLink
    <3>2. Stream(x, y)' = Stream(x, y)
      BY <1>10, <3>1 DEF Stream
    <3>3. SentTo(x, y)' = SentTo(x, y) /\ ReadFrom(y, x)' = ReadFrom(y, x)
      BY <1>11, <2>3
    <3> QED
      BY <2>1, <3>2, <3>3 DEF StreamRight
  <2> QED
    BY <2>2, <2>3
<1>13. \A m \in Net!Link : m # Net!SendLink(m[1], m[2]) => Contents(wire', out', m) = Nil
  <2>1. l = Net!SendLink(l[1], l[2])
    BY DEF Net!SendLink
  <2>2. \A m \in Net!Link : m # Net!SendLink(m[1], m[2]) => m # l /\ Contents(wire, out, m) = Nil
    BY <2>1 DEF IInv, Streams
  <2> QED
    BY <1>10, <2>2
<1>14. Streams'
  BY <1>10, <1>12, <1>13 DEF Streams
<1>15. Places'
  BY <1>2, <1>5, PlacesAfter DEF IInv
<1>16. Waits'
  <2>1. waiting' \in [Party -> Reader]
    BY <1>6 DEF IInv, Waits
  <2> QED
    BY <1>2, <1>5, <1>6, <2>1, WaitsAfter DEF IInv
<1>17. LengthsRead'
  <2>1. PICK V : buf' \in [Party -> [Party -> V]]
    BY <1>1, SameBuf DEF IInv
  <2>2. ~ Wait(s, "lengths")
    BY <1>1 DEF Wait
  <2> QED
    BY <1>1, <1>2, <1>5, <2>1, <2>2, LengthsAfter DEF IInv
<1> QED
  BY <1>14, <1>15, <1>16, <1>17 DEF IInv

\* Sequences that begin the same sequence have the same elements as far as both go.
LEMMA SameBeginning ==
    ASSUME NEW X, NEW a \in Seq(X), NEW b \in Seq(X), NEW t \in Seq(X), NEW u \in Seq(X),
           Cat(a, t) = Cat(b, u)
    PROVE  /\ \A i \in 1 .. Len(a) : i <= Len(b) => a[i] = b[i]
           /\ Len(a) = Len(b) => a = b
<1> DEFINE c == Cat(a, t)
<1>1. Len(a) \in Nat /\ Len(b) \in Nat
  BY LenProperties
<1>2. \A i \in 1 .. Len(a) : c[i] = a[i]
  BY DEF Cat
<1>3. c = Cat(b, u)
  OBVIOUS
<1> HIDE DEF c
<1>4. \A i \in 1 .. Len(b) : c[i] = b[i]
  <2> DEFINE d == Cat(b, u)
  <2>1. \A i \in 1 .. Len(b) : d[i] = b[i]
    BY DEF Cat
  <2> HIDE DEF d
  <2>2. c = d
    BY <1>3 DEF d
  <2> QED
    BY <2>1, <2>2
<1>5. \A i \in 1 .. Len(a) : i <= Len(b) => a[i] = b[i]
  BY <1>1, <1>2, <1>4
<1>6. ASSUME Len(a) = Len(b) PROVE a = b
  <2>1. \A i \in 1 .. Len(a) : a[i] = b[i]
    BY <1>1, <1>5, <1>6
  <2> QED
    BY <1>6, <2>1, SeqEqual
<1> QED
  BY <1>5, <1>6

AllRight(s, q) == \A i \in 1 .. Len(s) : Right(s[i], q)
TagsAre(s, T) == \A i \in 1 .. Len(s) : s[i].tag = T[i]

\* Reading the first elements of a stream s for q that begins with the tags T.
ReadHow(S, s, q, T, t, u, front, back, read) ==
    /\ s \in Seq(S) /\ AllRight(s, q)
    /\ T \in Seq(AnyTag) /\ Len(T) <= Len(s) /\ t \in Seq(AnyTag) /\ u \in Seq(AnyTag)
    /\ Cat(TagsOf(s), t) = Cat(T, u)
    /\ front = SubSeq(s, 1, Len(T)) /\ back = SubSeq(s, Len(T) + 1, Len(s))
    /\ read \in Seq(AnyTag)
ReadWhat(S, s, q, T, front, back, read) ==
    /\ front \in Seq(S) /\ Len(front) = Len(T)
    /\ TagsAre(front, T) /\ AllRight(front, q) /\ AllRight(back, q)
    /\ Cat(Cat(read, T), TagsOf(back)) = Cat(read, TagsOf(s))

\* It returns elements with these tags, and the rest of the stream is right.
LEMMA ReadRight ==
    ASSUME NEW S, NEW s, NEW q, NEW T, NEW t, NEW u, NEW front, NEW back, NEW read,
           ReadHow(S, s, q, T, t, u, front, back, read)
    PROVE  ReadWhat(S, s, q, T, front, back, read)
<1>a. /\ s \in Seq(S) /\ AllRight(s, q)
      /\ T \in Seq(AnyTag) /\ Len(T) <= Len(s) /\ t \in Seq(AnyTag) /\ u \in Seq(AnyTag)
      /\ Cat(TagsOf(s), t) = Cat(T, u)
      /\ front = SubSeq(s, 1, Len(T)) /\ back = SubSeq(s, Len(T) + 1, Len(s))
      /\ read \in Seq(AnyTag)
  BY DEF ReadHow
<1> DEFINE n == Len(T)
<1>0. n \in Nat /\ n <= Len(s) /\ front = SubSeq(s, 1, n) /\ back = SubSeq(s, n + 1, Len(s))
  BY <1>a, LenProperties
<1> HIDE DEF n
<1>1. front \in Seq(S) /\ back \in Seq(S) /\ front \o back = s
  <2>1. n \in 0 .. Len(s)
    BY <1>a, <1>0, LenProperties
  <2> QED
    BY <1>a, <1>0, <2>1, CutAndJoin
<1>2. /\ Len(front) = n
      /\ \A i \in 1 .. n : front[i] = s[i] /\ i \in 1 .. Len(s)
  BY <1>a, <1>0, LenProperties
<1>3. \A i \in 1 .. Len(back) : back[i] = s[n + i] /\ n + i \in 1 .. Len(s)
  <2>1. Len(s) \in Nat
    BY <1>a, LenProperties
  <2> QED
    BY <1>a, <1>0, <2>1
<1>4. \A i \in 1 .. n : Right(front[i], q)
  BY <1>a, <1>2 DEF AllRight
<1>5. \A i \in 1 .. Len(back) : Right(back[i], q)
  BY <1>a, <1>3 DEF AllRight
<1>6. /\ \A i \in 1 .. Len(front) : front[i].tag \in AnyTag
      /\ \A i \in 1 .. Len(back) : back[i].tag \in AnyTag
  BY <1>a, <1>2, <1>4, <1>5 DEF Right
<1> DEFINE a == TagsOf(front)
           b == TagsOf(back)
<1>7. a \in Seq(AnyTag) /\ Len(a) = n /\ \A i \in 1 .. n : a[i] = front[i].tag
  BY <1>a, <1>1, <1>2, <1>6, TagsOfType
<1>8. b \in Seq(AnyTag)
  BY <1>a, <1>1, <1>6, TagsOfType
<1>9. TagsOf(s) = Cat(a, b)
  <2>1. TagsOf(front \o back) = Cat(TagsOf(front), TagsOf(back))
    BY <1>a, <1>1, <1>6, TagsOfCat
  <2> QED
    BY <1>a, <1>1, <2>1
<1> HIDE DEF a, b
<1>10. Cat(a, Cat(b, t)) = Cat(T, u) /\ Cat(b, t) \in Seq(AnyTag)
  <2>1. Cat(Cat(a, b), t) = Cat(a, Cat(b, t))
    BY <1>a, <1>7, <1>8, CatAssociative
  <2>2. Cat(b, t) \in Seq(AnyTag)
    BY <1>a, <1>8, CatType
  <2> QED
    BY <1>a, <1>9, <2>1, <2>2
<1>11. a = T
  <2>1. Len(T) = n
    BY DEF n
  <2> QED
    BY <1>a, <2>1, <1>7, <1>10, SameBeginning
<1>12. Cat(Cat(read, T), b) = Cat(read, Cat(T, b))
  BY <1>a, <1>8, CatAssociative
<1> QED
  BY <1>a, <1>1, <1>2, <1>4, <1>5, <1>7, <1>9, <1>11, <1>12 DEF b, n, TagsAre, AllRight, ReadWhat

\* The return of recv preserves the invariant: the stream shrinks by what the reader's
\* position grows by, and the lengths it returns are the right ones.
LEMMA EndStepKeeps ==
    ASSUME IInv, NEW p \in Party, EndRecv(p)
    PROVE  IInv'
<1> DEFINE s == At(p)
           n == Len(s.ws)
           T == Tags(s)
<1>0. /\ s.op = "recv" /\ Net!RecvReturn(p, s.peer) /\ Advance(p)
      /\ buf' = [buf EXCEPT ![p][s.peer] = [i \in DOMAIN Net!Received(p, s.peer) |->
                                               Net!Received(p, s.peer)[i].v]]
  BY DEF EndRecv
<1>1. PICK q \in Party : q = s.peer /\ Net!Connected(q, p) /\ Net!Connected(p, q)
  BY <1>0, AwaitedTags DEF IInv
<1> DEFINE l == Net!SendLink(q, p)
           r == Stream(q, p)
           read == ReadFrom(p, q)
           front == SubSeq(r, 1, n)
           back == SubSeq(r, n + 1, Len(r))
           got == Net!Received(p, q)
           arr == [i \in DOMAIN got |-> got[i].v]
<1>2. /\ s.op = "recv" /\ Net!RecvReturn(p, q) /\ Advance(p)
      /\ buf' = [buf EXCEPT ![p][q] = arr]
  BY <1>0, <1>1
<1>3. PICK t \in Seq(AnyTag), u \in Seq(AnyTag) :
         /\ s \in StepsOf(p) /\ pc[p] <= Len(Body(p))
         /\ read \in Seq(AnyTag) /\ T \in Seq(AnyTag) /\ Len(T) = n /\ n \in Nat
         /\ \A i \in 1 .. n : T[i] = Tag(s, i)
         /\ Cat(TagsOf(r), t) = Cat(T, u)
  BY <1>1, <1>2, AwaitedTags DEF IInv
<1>4. waiting[p] = [src |-> q, n |-> n]
  <2>1. waiting[p].src = q /\ q # -1
    BY <1>2, Parties DEF Net!RecvReturn
  <2>2. waiting[p] # Net!Idle
    BY <2>1 DEF Net!Idle
  <2> QED
    BY <1>1, <2>2 DEF IInv, Waits
<1>5. l \in Net!Link /\ Net!RecvLink(p, q) = l /\ \A x, y : Net!SendLink(x, y) = l => x = q /\ y = p
  BY <1>1, FlowLink
<1>6. pc' = [pc EXCEPT ![p] = @ + 1]
  BY <1>2 DEF Advance
<1>7. ReadOff(wire, l, n, wire') /\ out' = out /\ open' = open
      /\ waiting' = [waiting EXCEPT ![p] = Net!Idle]
  BY <1>2, <1>4, <1>5 DEF Net!RecvReturn, ReadOff
<1>8. PICK S : Buffered(Net!Link, S, wire, out)
  BY DEF IInv, Streams
<1>9. /\ Buffered(Net!Link, S, wire', out)
      /\ Contents(wire', out, l) = back
      /\ \A m \in Net!Link : m # l => Contents(wire', out, m) = Contents(wire, out, m)
      /\ r \in Seq(S) /\ n <= Len(r) /\ SubSeq(wire[l], 1, n) = front
  <2> DEFINE c == Contents(wire, out, l)
  <2>1. /\ Buffered(Net!Link, S, wire', out)
        /\ Contents(wire', out, l) = SubSeq(c, n + 1, Len(c))
        /\ \A m \in Net!Link : m # l => Contents(wire', out, m) = Contents(wire, out, m)
        /\ c \in Seq(S) /\ n <= Len(c) /\ SubSeq(wire[l], 1, n) = SubSeq(c, 1, n)
    <3> HIDE DEF l, n
    <3> QED
      BY ONLY <1>3, <1>5, <1>7, <1>8, StreamRead
  <2>2. c = r
    BY DEF Stream, l
  <2> HIDE DEF c, l, n
  <2> QED
    BY <2>1, <2>2
<1>10. /\ \A i \in 1 .. Len(r) : Right(r[i], p)
       /\ Cat(read, TagsOf(r)) = SentTo(q, p)
  BY <1>1 DEF IInv, Streams, StreamRight
<1>11. /\ front \in Seq(S) /\ Len(front) = n
       /\ \A i \in 1 .. n : front[i].tag = T[i] /\ Right(front[i], p)
       /\ \A i \in 1 .. Len(back) : Right(back[i], p)
       /\ Cat(Cat(read, T), TagsOf(back)) = Cat(read, TagsOf(r))
  <2>1. ReadHow(S, r, p, T, t, u, front, back, read)
    <3>1. front = SubSeq(r, 1, Len(T)) /\ back = SubSeq(r, Len(T) + 1, Len(r)) /\ Len(T) <= Len(r)
      BY <1>3, <1>9
    <3> HIDE DEF r, n, T, read, front, back
    <3> QED
      BY <1>3, <1>9, <1>10, <3>1 DEF AllRight, ReadHow
  <2> HIDE DEF r, n, T, read, front, back
  <2>2. ReadWhat(S, r, p, T, front, back, read)
    BY ONLY <2>1, ReadRight
  <2> QED
    BY <1>3, <2>2 DEF TagsAre, AllRight, ReadWhat
<1> HIDE DEF front, back
<1>12. got = front
  BY <1>4, <1>5, <1>9 DEF Net!Received
<1>13. \A x, y \in Party :
          /\ SentTo(x, y)' = SentTo(x, y)
          /\ ReadFrom(x, y)' = IF x = p /\ y = q THEN Cat(ReadFrom(x, y), T) ELSE ReadFrom(x, y)
  BY <1>1, <1>2, <1>3, <1>6, CountsAfter DEF IInv
<1>14. ASSUME NEW x \in Party, NEW y \in Party, Net!Connected(x, y)
       PROVE  StreamRight(x, y)'
  <2>1. StreamRight(x, y)
    BY <1>14 DEF IInv, Streams
  <2>2. CASE x = q /\ y = p
    <3>1. Stream(q, p)' = back
      BY <1>7, <1>9 DEF Stream, l
    <3>2. ReadFrom(p, q)' = Cat(read, T) /\ SentTo(q, p)' = SentTo(q, p)
      BY <1>1, <1>13
    <3>3. Cat(Cat(read, T), TagsOf(back)) = SentTo(q, p)
      BY <1>10, <1>11
    <3> QED
      BY <1>11, <2>2, <3>1, <3>2, <3>3 DEF StreamRight
  <2>3. CASE ~ (x = q /\ y = p)
    <3>1. Net!SendLink(x, y) \in Net!Link /\ Net!SendLink(x, y) # l
      BY <1>5, <1>14, <2>3, FlowLink
    <3>2. Stream(x, y)' = Stream(x, y)
      BY <1>7, <1>9, <3>1 DEF Stream
    <3>3. SentTo(x, y)' = SentTo(x, y) /\ ReadFrom(y, x)' = ReadFrom(y, x)
      BY <1>13, <2>3
    <3> QED
      BY <2>1, <3>2, <3>3 DEF StreamRight
  <2> QED
    BY <2>2, <2>3
<1>15. \A m \in Net!Link : m # Net!SendLink(m[1], m[2]) => Contents(wire', out', m) = Nil
  <2>1. l = Net!SendLink(l[1], l[2])
    BY DEF Net!SendLink
  <2>2. \A m \in Net!Link : m # Net!SendLink(m[1], m[2]) => m # l /\ Contents(wire, out, m) = Nil
    BY <2>1 DEF IInv, Streams
  <2> QED
    BY <1>7, <1>9, <2>2
<1>16. Streams'
  <2>1. Buffered(Net!Link, S, wire', out')
    BY <1>7, <1>9
  <2> QED
    BY <1>14, <1>15, <2>1 DEF Streams
<1>17. Places'
  BY <1>3, <1>6, PlacesAfter DEF IInv
<1>18. Waits'
  <2>1. waiting \in [Party -> Reader] /\ Net!Idle \in Reader
    BY DEF IInv, Waits, Net!Idle, Reader
  <2>2. /\ waiting' \in [Party -> Reader] /\ waiting'[p] = Net!Idle
        /\ \A x \in Party : x # p => waiting'[x] = waiting[x]
    BY <1>7, <2>1
  <2> QED
    BY <1>3, <1>6, <1>7, <2>2, WaitsAfter DEF IInv
<1>19. LengthsRead'
  <2>1. PICK V : buf \in [Party -> [Party -> V]]
    BY DEF IInv, LengthsRead
  <2> HIDE DEF arr
  <2>2. /\ buf' \in [Party -> [Party -> V \cup {arr}]] /\ buf'[p][q] = arr
        /\ \A x \in Party : x # p => buf'[x] = buf[x]
    BY <1>2, <2>1
  <2>3. ASSUME Wait(s, "lengths") PROVE buf'[p][0] = LengthValues(p)
    <3>1. s.what = "lengths" /\ s.op = "recv"
      BY <2>3 DEF Wait
    <3>2. s.ws = <<1, 2, 3>> /\ p \in Net!Driver /\ s.peer = 0
      BY <1>3, <3>1 DEF StepsOf, Moves
    <3>3. n = 3 /\ q = 0
      BY <1>1, <3>2
    <3>4. ASSUME NEW i \in 1 .. 3 PROVE front[i].v = LengthValues(p)[i]
      <4>1. front[i].tag = Tag(s, i) /\ Right(front[i], p)
        BY <1>3, <1>11, <3>3
      <4>2. front[i].tag[1] = "lengths" /\ front[i].tag[2] = i
        BY <3>1, <3>2, <4>1 DEF Tag
      <4> QED
        BY <4>1, <4>2 DEF Right
    <3>5. arr = [i \in 1 .. 3 |-> LengthValues(p)[i]]
      <4>1. DOMAIN front = 1 .. 3
        BY <1>11, <3>3, LenProperties
      <4>2. DOMAIN got = 1 .. 3 /\ \A i \in 1 .. 3 : got[i].v = LengthValues(p)[i]
        BY <1>12, <3>4, <4>1
      <4> HIDE DEF got
      <4> QED
        BY <4>2 DEF arr
    <3>6. LengthValues(p) = [i \in 1 .. 3 |-> LengthValues(p)[i]]
      BY DEF LengthValues
    <3> QED
      BY <2>2, <3>3, <3>5, <3>6
  <2> QED
    BY <1>3, <1>6, <2>2, <2>3, LengthsAfter DEF IInv
<1> QED
  BY <1>16, <1>17, <1>18, <1>19 DEF IInv
-----------------------------------------------------------------------------
(***************************************************************************)
(* The theorems.                                                           *)
(***************************************************************************)
\* An empty stream has no tags.
LEMMA TagsOfNil == TagsOf(Nil) = Nil
<1> DEFINE f == TagsOf(Nil)
<1>1. Nil \in Seq({}) /\ Len(Nil) = 0
  BY NilType
<1>2. f \in Seq(AnyTag) /\ Len(f) = 0
  <2>1. \A i \in 1 .. Len(Nil) : Nil[i].tag \in AnyTag
    BY <1>1
  <2> QED
    BY <1>1, <2>1, TagsOfType
<1> HIDE DEF f
<1>3. f = Nil
  BY <1>2, NilType
<1> QED
  BY <1>3 DEF f

\* Nothing is sent, read or under way initially.
LEMMA Initially ==
    Init => IInv
<1> SUFFICES ASSUME Init PROVE IInv
  OBVIOUS
<1>1. /\ out = [l \in Net!Link |-> Nil] /\ wire = [l \in Net!Link |-> Nil]
      /\ waiting = [p \in Party |-> Net!Idle] /\ open = [p \in Party |-> TRUE]
      /\ pc = [p \in Party |-> 1] /\ buf = [p \in Party |-> [q \in Party |-> <<>>]]
  BY DEF Init, Net!Init, Nil, Party
<1>2. \A l \in Net!Link : Contents(wire, out, l) = Nil
  <2>1. Nil \in Seq({})
    BY NilType
  <2>2. Cat(Nil, Nil) = Nil
    BY <2>1, CatNil
  <2> QED
    BY <1>1, <2>2 DEF Contents, Cat
<1>3. \E S : Buffered(Net!Link, S, wire, out)
  <2>1. Nil \in Seq({})
    BY NilType
  <2>2. Buffered(Net!Link, {}, wire, out)
    BY <1>1, <2>1 DEF Buffered
  <2> QED
    BY <2>2
<1>4. \A p \in Party : pc[p] = 1 /\ 1 \in 1 .. Len(Body(p)) + 1
  <2>1. \A p \in Party : Len(Body(p)) \in Nat
    BY BodyType, LenProperties
  <2> QED
    BY <1>1, <2>1
<1>5. \A p, q \in Party : SentTo(p, q) = Nil /\ ReadFrom(p, q) = Nil
  <2>1. \A p \in Party : pc[p] - 1 = 0 /\ Firsts(Body(p), 0) = Nil
    BY <1>4, FirstsNone
  <2>2. \A p, q \in Party : Each(Nil, Moved("send", q)) = Nil /\ Each(Nil, Moved("recv", q)) = Nil
    BY EachNil
  <2> QED
    BY <2>1, <2>2 DEF SentTo, ReadFrom
<1>6. Streams
  <2>1. ASSUME NEW p \in Party, NEW q \in Party, Net!Connected(p, q)
        PROVE  StreamRight(p, q)
    <3>1. Stream(p, q) = Nil
      BY <1>2, <2>1, FlowLink DEF Stream
    <3>2. Len(Nil) = 0 /\ Cat(Nil, Nil) = Nil
      <4>1. Nil \in Seq({}) /\ Len(Nil) = 0
        BY NilType
      <4> QED
        BY <4>1, CatNil
    <3> QED
      BY <1>5, <3>1, <3>2, TagsOfNil DEF StreamRight
  <2> QED
    BY <1>2, <1>3, <2>1 DEF Streams
<1>7. Places
  BY <1>1, <1>4 DEF Places
<1>8. Waits
  BY <1>1 DEF Waits, Reader, Net!Idle
<1>9. LengthsRead
  <2>1. buf \in [Party -> [Party -> {<<>>}]]
    BY <1>1
  <2>2. ASSUME NEW p \in Party PROVE ~ Wait(At(p), "preproc")
    BY <1>4, <1>7, AtFacts
  <2> QED
    BY <2>1, <2>2 DEF LengthsRead
<1> QED
  BY <1>6, <1>7, <1>8, <1>9 DEF IInv

\* No step of any party disturbs the invariant.
LEMMA Inductive ==
    IInv /\ [Next]_vars => IInv'
<1> SUFFICES ASSUME IInv, [Next]_vars PROVE IInv'
  OBVIOUS
<1>1. CASE UNCHANGED vars
  <2>1. wire' = wire /\ out' = out /\ waiting' = waiting /\ open' = open /\ pc' = pc /\ buf' = buf
    BY <1>1 DEF vars
  <2>2. \A x, y \in Party : SentTo(x, y)' = SentTo(x, y) /\ ReadFrom(x, y)' = ReadFrom(x, y)
    BY <2>1, CountsKept
  <2>3. Streams'
    BY <2>1, <2>2, SameStreams DEF IInv
  <2>4. Places' /\ \A x \in Party : At(x)' = At(x)
    BY <2>1, PlacesKept DEF IInv
  <2>5. Waits'
    BY <2>1, <2>4 DEF IInv, Waits
  <2>6. LengthsRead'
    BY <2>1, LengthsKept DEF IInv
  <2> QED
    BY <2>3, <2>4, <2>5, <2>6 DEF IInv
<1>2. ASSUME NEW p \in Party, PartyNext(p)
      PROVE  IInv'
  <2>1. CASE Start(p)
    BY <2>1, StartStep
  <2>2. CASE DoSend(p)
    BY <2>2, SendStepKeeps
  <2>3. CASE DoFlush(p)
    BY <2>3, FlushStepKeeps
  <2>4. CASE CallRecv(p)
    BY <2>4, CallStep
  <2>5. CASE EndRecv(p)
    BY <2>5, EndStepKeeps
  <2>6. CASE EndLevel(p)
    BY <2>6, EndLevelStep
  <2>7. CASE Conclude(p)
    BY <2>7, ConcludeStep
  <2>8. CASE Close(p)
    BY <2>8, CloseStepKeeps
  <2> QED
    BY <1>2, <2>1, <2>2, <2>3, <2>4, <2>5, <2>6, <2>7, <2>8 DEF PartyNext
<1> QED
  BY <1>1, <1>2 DEF Next

\* The invariant holds in every reachable state, for every circuit, number of parties and
\* rounds, buffer size and entry point.
THEOREM Invariant == Spec => []IInv
BY Initially, Inductive, PTL DEF Spec

\* Whatever is queued for a blocked reader is what it waits for, element by element and of
\* the same round: both ends of every connection walk the circuit alike.
THEOREM LockstepHolds == Spec => []Lockstep
<1>1. IInv => Lockstep
  <2> SUFFICES ASSUME IInv, NEW p \in Party, waiting[p] # Net!Idle
               PROVE  InStep(p, At(p), Net!Queue(waiting[p].src, p))
    BY DEF Lockstep
  <2> DEFINE x == At(p)
             q == x.peer
             s == Stream(q, p)
             T == Tags(x)
  <2>1. x.op = "recv" /\ waiting[p] = [src |-> q, n |-> Len(x.ws)]
    BY DEF IInv, Waits
  <2>2. PICK t \in Seq(AnyTag), u \in Seq(AnyTag) :
           /\ T \in Seq(AnyTag) /\ Len(T) = Len(x.ws) /\ Len(x.ws) \in Nat
           /\ \A i \in 1 .. Len(x.ws) : T[i] = Tag(x, i)
           /\ TagsOf(s) \in Seq(AnyTag) /\ Len(TagsOf(s)) = Len(s) /\ Len(s) \in Nat
           /\ \A i \in 1 .. Len(s) : s[i].tag = TagsOf(s)[i]
           /\ Cat(TagsOf(s), t) = Cat(T, u)
    BY <2>1, AwaitedTags DEF IInv
  <2>3. \A i \in 1 .. Len(s) : i <= Len(x.ws) => TagsOf(s)[i] = T[i]
    <3> DEFINE a == TagsOf(s)
    <3>1. /\ a \in Seq(AnyTag) /\ T \in Seq(AnyTag) /\ Cat(a, t) = Cat(T, u)
          /\ Len(a) = Len(s) /\ Len(T) = Len(x.ws)
      BY <2>2
    <3> HIDE DEF a, T
    <3>2. \A i \in 1 .. Len(a) : i <= Len(T) => a[i] = T[i]
      BY ONLY <3>1, t \in Seq(AnyTag), u \in Seq(AnyTag), SameBeginning
    <3> QED
      BY <3>1, <3>2 DEF a
  <2>4. Net!Queue(waiting[p].src, p) = s
    <3>1. waiting[p].src = q
      BY <2>1
    <3> HIDE DEF q
    <3> QED
      BY <3>1 DEF Net!Queue, Stream, Contents
  <2>5. DOMAIN s = 1 .. Len(s)
    <3>1. \E S : s \in Seq(S)
      <4> DEFINE l == Net!SendLink(q, p)
      <4>1. l \in Net!Link
        BY <2>1, AwaitedTags, FlowLink DEF IInv
      <4>2. PICK S : Buffered(Net!Link, S, wire, out)
        BY DEF IInv, Streams
      <4> HIDE DEF l
      <4>3. wire[l] \o out[l] \in Seq(S)
        BY <4>1, <4>2, ConcatProperties DEF Buffered
      <4> QED
        BY <4>3 DEF Stream, Contents, l
    <3> HIDE DEF s
    <3> QED
      BY <3>1, LenProperties
  <2> HIDE DEF s
  <2>6. \A i \in DOMAIN s : i <= Len(x.ws) => s[i].tag = Tag(x, i)
    <3> SUFFICES ASSUME NEW i \in 1 .. Len(s), i <= Len(x.ws) PROVE s[i].tag = Tag(x, i)
      BY <2>5
    <3>1. i \in 1 .. Len(x.ws)
      BY <2>2
    <3> QED
      BY <2>2, <2>3, <3>1
  <2> QED
    BY <2>1, <2>4, <2>6 DEF InStep
<1> QED
  BY <1>1, Invariant, PTL

\* When all network objects are destroyed nothing is left unread in any buffer or socket.
THEOREM NothingLeftHolds == Spec => []NothingLeft
<1>1. IInv => NothingLeft
  <2> SUFFICES ASSUME IInv, AllClosed, NEW l \in Net!Link
               PROVE  out[l] = <<>> /\ wire[l] = <<>>
    BY DEF NothingLeft
  <2>1. PICK S : wire \in [Net!Link -> Seq(S)] /\ out \in [Net!Link -> Seq(S)]
    BY DEF IInv, Streams, Buffered
  <2>2. Contents(wire, out, l) = Nil
    <3>1. CASE l # Net!SendLink(l[1], l[2])
      BY <3>1 DEF IInv, Streams
    <3>2. CASE l = Net!SendLink(l[1], l[2])
      <4> DEFINE p == l[1]
                 q == l[2]
                 s == Stream(p, q)
      <4>1. p \in Party /\ q \in Party /\ Net!Connected(p, q)
        BY DEF Net!Link, Party
      <4>2. \A x \in Party : pc[x] - 1 = Len(Body(x)) /\ Len(Body(x)) \in Nat
        <5>1. \A x \in Party : pc[x] = Len(Body(x)) + 1
          BY DEF IInv, Waits, AllClosed
        <5>2. \A x \in Party : Len(Body(x)) \in Nat
          BY BodyType, LenProperties
        <5> QED
          BY <5>1, <5>2
      <4>3. SentTo(p, q) = Each(Body(p), Moved("send", q))
        <5> DEFINE n == pc[p] - 1
        <5>1. n \in Nat /\ n <= Len(Body(p)) /\ n = Len(Body(p)) /\ p \in Party
          BY <4>1, <4>2
        <5> HIDE DEF n, p, q
        <5>2. Each(Firsts(Body(p), n), Moved("send", q)) = Each(Body(p), Moved("send", q))
          BY <5>1, SoFar
        <5> QED
          BY <5>2 DEF SentTo, n
      <4>4. ReadFrom(q, p) = Each(Body(q), Moved("recv", p)) /\ ReadFrom(q, p) \in Seq(AnyTag)
        <5> DEFINE n == pc[q] - 1
        <5>1. n \in Nat /\ n <= Len(Body(q)) /\ n = Len(Body(q)) /\ q \in Party
          BY <4>1, <4>2
        <5> HIDE DEF n, p, q
        <5>2. /\ Each(Firsts(Body(q), n), Moved("recv", p)) = Each(Body(q), Moved("recv", p))
              /\ Each(Firsts(Body(q), n), Moved("recv", p)) \in Seq(AnyTag)
          BY <5>1, SoFar
        <5> QED
          BY <5>2 DEF ReadFrom, n
      <4>5. SentTo(p, q) = ReadFrom(q, p)
        BY <4>1, <4>3, <4>4, BodiesMatch
      <4>6. /\ \A i \in 1 .. Len(s) : Right(s[i], q)
            /\ Cat(ReadFrom(q, p), TagsOf(s)) = ReadFrom(q, p)
        BY <4>1, <4>5 DEF IInv, Streams, StreamRight
      <4>7. s = Contents(wire, out, l)
        BY <3>2 DEF Stream
      <4>8. s \in Seq(S)
        BY <2>1, <4>7, ConcatProperties DEF Contents
      <4> HIDE DEF s
      <4>9. TagsOf(s) \in Seq(AnyTag) /\ Len(TagsOf(s)) = Len(s)
        BY <4>6, <4>8, TagsOfType DEF Right
      <4>10. TagsOf(s) = Nil
        <5> DEFINE a == ReadFrom(q, p)
                   b == TagsOf(s)
        <5>1. a \in Seq(AnyTag) /\ b \in Seq(AnyTag) /\ Cat(a, b) = a
          BY <4>4, <4>6, <4>9
        <5> HIDE DEF a, b
        <5>2. Cat(a, Nil) = a /\ Nil \in Seq(AnyTag)
          BY <5>1, CatNil, NilType
        <5>3. Cat(a, b) = Cat(a, Nil)
          BY <5>1, <5>2
        <5>4. b = Nil
          BY <5>1, <5>2, <5>3, CatCancel
        <5> QED
          BY <5>4 DEF b
      <4>11. Len(s) = 0
        BY <4>9, <4>10, NilType
      <4> QED
        BY <4>7, <4>8, <4>11, NilType
    <3> QED
      BY <3>1, <3>2
  <2>3. Len(wire[l]) = 0 /\ Len(out[l]) = 0
    <3>1. wire[l] \in Seq(S) /\ out[l] \in Seq(S)
      BY <2>1
    <3>2. Len(wire[l] \o out[l]) = Len(wire[l]) + Len(out[l])
          /\ Len(wire[l]) \in Nat /\ Len(out[l]) \in Nat
      BY <3>1, ConcatProperties, LenProperties
    <3>3. Len(wire[l] \o out[l]) = 0
      BY <2>2, NilType DEF Contents
    <3> DEFINE m == Len(wire[l])
               n == Len(out[l])
    <3>4. m \in Nat /\ n \in Nat /\ m + n = 0
      BY <3>2, <3>3
    <3> HIDE DEF m, n
    <3>5. m = 0 /\ n = 0
      BY <3>4
    <3> QED
      BY <3>5 DEF m, n
  <2> QED
    BY <2>1, <2>3, NilType DEF Nil
<1> QED
  BY <1>1, Invariant, PTL
=============================================================================
