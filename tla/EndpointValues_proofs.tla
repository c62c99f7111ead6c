---------------------- MODULE EndpointValues_proofs -----------------------
(***************************************************************************)
(* For every circuit, number of parties and rounds, buffer size and entry  *)
(* point: the values.  The inputs, the tape all PRGs yield, the round and  *)
(* the comparison masks (Context) fix what every mask, masked wire, array  *)
(* and result has to be.  How much of it party p has by then follows from  *)
(* p's place in its script alone (Trace, Ghost), and what the stream from  *)
(* p to q holds is what q reads next, since the two keep in step (IInv of  *)
(* EndpointMatching_proofs).  That the state agrees with both (ValuesRight)*)
(* is inductive given IInv; TypeOK, MasksAgree, WiresMasked,               *)
(* DistancesCorrect and MatchesCorrect follow.                             *)
(***************************************************************************)
EXTENDS EndpointMatching_proofs

\* Induction over a set of numbers, each from those below it.
LEMMA StrongInduction ==
    ASSUME NEW W \in SUBSET Nat, NEW T, \A w \in W : (\A v \in W : v < w => v \in T) => w \in T
    PROVE  W \subseteq T
<1> DEFINE U == {n \in Nat : \A w \in W : w <= n => w \in T}
<1>1. 0 \in U
  OBVIOUS
<1>2. ASSUME NEW n \in Nat, n \in U
      PROVE  n + 1 \in U
  <2> SUFFICES ASSUME NEW w \in W, w <= n + 1
               PROVE  w \in T
    OBVIOUS
  <2>1. \A v \in W : v < w => v \in T
    BY <1>2
  <2> QED
    BY <2>1
<1> HIDE DEF U
<1>3. Nat \subseteq U
  BY <1>1, <1>2, SetInduction
<1> QED
  BY <1>3 DEF U

\* Each value depends on those of lower wires alone; a solution of the recursion.
FromBelow(W, V, G) ==
    /\ G \in [W -> [[W -> V] -> V]]
    /\ \A w \in W : \A f, h \in [W -> V] :
          (\A v \in W : v < w => f[v] = h[v]) => G[w][f] = G[w][h]
\* f solves the recursion f[w] = G[w][f].
Solved(W, V, G, f) == f \in [W -> V] /\ f = [w \in W |-> G[w][f]]

\* A definition by recursion on the wires has a solution if each value depends on those of
\* lower wires alone.
LEMMA SolveBelow ==
    ASSUME NEW N \in Nat, NEW W \in SUBSET (1 .. N), NEW V, NEW a \in V,
           NEW G, FromBelow(W, V, G)
    PROVE  \E f : Solved(W, V, G, f)
<1>0. /\ G \in [W -> [[W -> V] -> V]]
      /\ \A w \in W : \A f, h \in [W -> V] :
            (\A v \in W : v < w => f[v] = h[v]) => G[w][f] = G[w][h]
  BY DEF FromBelow
<1> DEFINE F == [W -> V]
           Sofar(n, f) == \A w \in W : w <= n => f[w] = G[w][f]
           T == {n \in Nat : \E f \in F : Sofar(n, f)}
<1>1. 0 \in T
  <2>1. [w \in W |-> a] \in F
    OBVIOUS
  <2>2. \A w \in W : ~ w <= 0
    OBVIOUS
  <2> QED
    BY <2>1, <2>2
<1>2. ASSUME NEW n \in Nat, n \in T
      PROVE  n + 1 \in T
  <2>1. PICK f \in F : Sofar(n, f)
    BY <1>2
  <2>2. CASE n + 1 \in W
    <3> DEFINE h == [w \in W |-> IF w = n + 1 THEN G[n + 1][f] ELSE f[w]]
    <3>1. h \in F
      BY <1>0, <2>1, <2>2
    <3>2. \A w \in W : w <= n + 1 => G[w][h] = G[w][f]
      <4> SUFFICES ASSUME NEW w \in W, w <= n + 1
                   PROVE  G[w][h] = G[w][f]
        OBVIOUS
      <4>1. \A v \in W : v < w => h[v] = f[v]
        OBVIOUS
      <4> HIDE DEF h
      <4> QED
        BY <1>0, <2>1, <3>1, <4>1
    <3>3. \A w \in W : w <= n + 1 => h[w] = G[w][f]
      BY <2>1
    <3> HIDE DEF h
    <3>4. Sofar(n + 1, h)
      BY <3>2, <3>3
    <3>5. n + 1 \in Nat
      OBVIOUS
    <3> HIDE DEF F, Sofar
    <3> QED
      BY ONLY <3>1, <3>4, <3>5
  <2>3. CASE n + 1 \notin W
    <3>1. \A w \in W : w <= n + 1 => w <= n
      BY <2>3
    <3>2. Sofar(n + 1, f)
      BY <2>1, <3>1
    <3>3. n + 1 \in Nat /\ f \in F
      BY <2>1
    <3> HIDE DEF F, Sofar
    <3> QED
      BY ONLY <3>2, <3>3
  <2> QED
    BY <2>2, <2>3
<1> HIDE DEF T
<1>3. Nat \subseteq T
  BY <1>1, <1>2, SetInduction
<1>4. PICK f \in F : Sofar(N, f)
  BY <1>3 DEF T
<1>5. \A w \in W : f[w] = G[w][f]
  <2>1. \A w \in W : w <= N
    OBVIOUS
  <2> HIDE DEF F
  <2> QED
    BY <1>4, <2>1
<1>6. f = [w \in W |-> f[w]]
  OBVIOUS
<1> HIDE DEF F
<1>7. f = [w \in W |-> G[w][f]]
  BY <1>5, <1>6
<1> QED
  BY <1>4, <1>7 DEF Solved, F
-----------------------------------------------------------------------------
\* The values on wires; sets of wires closed under reading operands.
Field == 0 .. Modulus - 1
Closed(ws) == ws \subseteq Wires /\ \A w \in ws : Reads(Gate(w)) \subseteq ws
\* The wires whose mask is drawn or sent, not computed.
Basic(w) == Gate(w).type = "kInp" \/ w \in Products
\* s on the wires ws: b where Basic, else computed from the operands (LinearMask).
IsShares(ws, b, s) ==
    s = [w \in ws |-> IF Gate(w).type = "kInp" \/ w \in Products THEN b[w] ELSE LinearMask(Gate(w), s)]

\* A residue.
LEMMA Residue ==
    ASSUME NEW a \in Int
    PROVE  a % Modulus \in Field /\ 0 \in Field /\ Field \subseteq Int
BY ModulusAssumption, ModRange DEF Field

\* The gates that are not basic are linear, with their operands among the lower wires.
LEMMA LinearGate ==
    ASSUME NEW ws, Closed(ws), NEW w \in ws, ~ Basic(w)
    PROVE  /\ LinearOn(Gate(w), ws) /\ Gate(w).type \in LinearTypes
           /\ LinearOn(Gate(w), {v \in ws : v < w})
<1> DEFINE g == Gate(w)
<1>1. w \in Wires /\ HasOperands(g) /\ g.cval \in Int /\ Reads(g) \subseteq 1 .. w - 1
      /\ Reads(g) \subseteq ws
  BY CircuitAssumption, OperandAssumption DEF Closed
<1>2. g.type \in GateTypes /\ g.type # "kInp" /\ g.type \notin Communicating
  BY <1>1 DEF HasOperands, Basic, Products
<1>3. g.type \in LinearTypes
  BY <1>2 DEF GateTypes, FIn2Types, ConstOpTypes, Communicating, LinearTypes
<1>4. /\ Len(g.in1) = 1 /\ g.in1 \in Seq(Nat) /\ g.in2 \in Seq(Nat)
      /\ g.type \in {"kAdd", "kSub"} => Len(g.in2) = 1
  BY <1>1, <1>3 DEF HasOperands, FIn2Types, ConstOpTypes, LinearTypes
<1>5. g.in1[1] \in Reads(g) /\ (g.type \in {"kAdd", "kSub"} => g.in2[1] \in Reads(g))
  BY <1>4 DEF Reads, Range
<1>6. w \in Nat /\ \A v \in Reads(g) : v < w
  BY <1>1, TheCircuit
<1> HIDE DEF g
<1>7. LinearOn(g, ws) /\ LinearOn(g, {v \in ws : v < w})
  BY <1>1, <1>3, <1>5, <1>6 DEF LinearOn
<1> QED
  BY <1>3, <1>7 DEF g

\* The mask of a linear gate depends on its operands' alone and is a residue.
LEMMA LinearMaskOf ==
    ASSUME NEW g, NEW W, LinearOn(g, W), NEW a, NEW b, \A k \in W : a[k] \in Int /\ a[k] = b[k]
    PROVE  /\ LinearMask(g, a) = LinearMask(g, b) /\ LinearMask(g, a) \in Field
           /\ LinearForm(g, a) = LinearForm(g, b) /\ LinearForm(g, a) \in Int
<1>1. /\ g.type \in LinearTypes /\ g.cval \in Int /\ g.in1[1] \in W
      /\ g.type \in {"kAdd", "kSub"} => g.in2[1] \in W
  BY DEF LinearOn
<1>2. LinearForm(g, a) = LinearForm(g, b)
  BY <1>1 DEF LinearForm, LinearTypes
<1>3. LinearForm(g, a) \in Int
  BY <1>1 DEF LinearForm, LinearTypes
<1>4. LinearMask(g, a) = LinearForm(g, a) % Modulus /\ LinearMask(g, b) = LinearForm(g, b) % Modulus
  BY <1>1, LinearUnfold
<1> QED
  BY <1>2, <1>3, <1>4, Residue

\* The recursion of Shares has a solution,
LEMMA SharesExist ==
    ASSUME NEW ws, Closed(ws), NEW b, \A w \in ws : Basic(w) => b[w] \in Field
    PROVE  \E s : IsShares(ws, b, s)
<1> DEFINE F == [ws -> Field]
           Of(w, s) == IF Basic(w) THEN b[w] ELSE LinearMask(Gate(w), s)
           G == [w \in ws |-> [s \in F |-> Of(w, s)]]
           N == Len(circ.gates)
<1>1. N \in Nat /\ ws \in SUBSET (1 .. N)
  BY TheCircuit DEF Closed, Acyclic
<1>2. ASSUME NEW w \in ws, NEW s \in F
      PROVE  Of(w, s) \in Field
  <2>1. \A v \in ws : s[v] \in Int
    BY Residue
  <2>2. CASE ~ Basic(w)
    <3>1. LinearMask(Gate(w), s) \in Field
      BY <2>1, <2>2, LinearGate, LinearMaskOf
    <3> QED
      BY <2>2, <3>1
  <2> QED
    BY <2>2
<1>3. ASSUME NEW w \in ws, NEW s \in F, NEW t \in F, \A v \in ws : v < w => s[v] = t[v]
      PROVE  Of(w, s) = Of(w, t)
  <2> DEFINE L == {v \in ws : v < w}
  <2>1. \A v \in L : s[v] \in Int /\ s[v] = t[v]
    BY <1>3, Residue
  <2>2. CASE ~ Basic(w)
    <3>1. LinearOn(Gate(w), L)
      BY <2>2, LinearGate
    <3> HIDE DEF L
    <3>2. LinearMask(Gate(w), s) = LinearMask(Gate(w), t)
      BY <2>1, <3>1, LinearMaskOf
    <3> QED
      BY <2>2, <3>2
  <2> QED
    BY <2>2
<1> HIDE DEF Of, N
<1>4. G \in [ws -> [F -> Field]]
  BY <1>2
<1>5. \A w \in ws : \A s \in F : G[w][s] = Of(w, s)
  OBVIOUS
<1>6. \A w \in ws : \A s, t \in F : (\A v \in ws : v < w => s[v] = t[v]) => G[w][s] = G[w][t]
  BY <1>3, <1>5
<1>7. 0 \in Field
  BY Residue
<1> HIDE DEF G
<1>8. PICK s : Solved(ws, Field, G, s)
  <2>1. FromBelow(ws, Field, G)
    BY <1>4, <1>6 DEF FromBelow
  <2> QED
    BY <1>1, <1>7, <2>1, SolveBelow
<1>9. s = [w \in ws |-> Of(w, s)]
  BY <1>5, <1>8 DEF Solved
<1> QED
  BY <1>9 DEF IsShares, Of, Basic

\* in residues,
LEMMA SharesIn ==
    ASSUME NEW ws, Closed(ws), NEW b, \A w \in ws : Basic(w) => b[w] \in Field,
           NEW s, IsShares(ws, b, s)
    PROVE  s \in [ws -> Field]
<1> DEFINE T == {w \in ws : s[w] \in Field}
<1>1. ws \in SUBSET Nat
  BY TheCircuit DEF Closed
<1>2. ASSUME NEW w \in ws, \A v \in ws : v < w => v \in T
      PROVE  w \in T
  <2> DEFINE L == {v \in ws : v < w}
  <2>1. s[w] = IF Basic(w) THEN b[w] ELSE LinearMask(Gate(w), s)
    BY DEF IsShares, Basic
  <2>2. \A v \in L : s[v] \in Int /\ s[v] = s[v]
    BY <1>2, Residue
  <2>3. CASE ~ Basic(w)
    <3>1. LinearOn(Gate(w), L)
      BY <2>3, LinearGate
    <3> HIDE DEF L
    <3>2. LinearMask(Gate(w), s) \in Field
      BY <2>2, <3>1, LinearMaskOf
    <3> QED
      BY <2>1, <2>3, <3>2
  <2> QED
    BY <2>1, <2>3
<1> HIDE DEF T
<1>3. ws \subseteq T
  BY <1>1, <1>2, StrongInduction
<1>4. \A w \in ws : s[w] \in Field
  BY <1>3 DEF T
<1>5. s = [w \in ws |-> s[w]]
  BY DEF IsShares
<1> QED
  BY <1>4, <1>5

\* and the same over fewer wires.
LEMMA SharesSame ==
    ASSUME NEW ws, Closed(ws), NEW b, \A w \in ws : Basic(w) => b[w] \in Field,
           NEW s, IsShares(ws, b, s),
           NEW xs, ws \subseteq xs, NEW c, NEW t, IsShares(xs, c, t),
           \A w \in ws : Basic(w) => b[w] = c[w]
    PROVE  \A w \in ws : s[w] = t[w]
<1> DEFINE T == {w \in ws : s[w] = t[w]}
<1>1. ws \in SUBSET Nat
  BY TheCircuit DEF Closed
<1>2. ASSUME NEW w \in ws, \A v \in ws : v < w => v \in T
      PROVE  w \in T
  <2> DEFINE L == {v \in ws : v < w}
  <2>1. s[w] = IF Basic(w) THEN b[w] ELSE LinearMask(Gate(w), s)
    BY DEF IsShares, Basic
  <2>2. t[w] = IF Basic(w) THEN c[w] ELSE LinearMask(Gate(w), t)
    BY DEF IsShares, Basic
  <2>3. \A v \in L : s[v] \in Int /\ s[v] = t[v]
    BY <1>2, Residue, SharesIn
  <2>4. CASE ~ Basic(w)
    <3>1. LinearOn(Gate(w), L)
      BY <2>4, LinearGate
    <3> HIDE DEF L
    <3>2. LinearMask(Gate(w), s) = LinearMask(Gate(w), t)
      BY <2>3, <3>1, LinearMaskOf
    <3> QED
      BY <2>1, <2>2, <2>4, <3>2
  <2> QED
    BY <2>1, <2>2, <2>4
<1> HIDE DEF T
<1>3. ws \subseteq T
  BY <1>1, <1>2, StrongInduction
<1> QED
  BY <1>3 DEF T
-----------------------------------------------------------------------------
\* What the SP draws for wire w from the generator it shares with k.
Draws(k, w) ==
    CASE Gate(w).type = "kInp" ->
            When(input_pid[w] = k, <<w, "mask">>) \o When(Gate(w).rider_id = k, <<w, "share">>)
      [] Gate(w).type \in Communicating ->
            When(Mine(k, w), <<w, "share">>) \o When(Gate(w).rider_id = k, <<w, "prod">>)
      [] OTHER -> <<>>
\* What a wire can have drawn for it.
DrawNames == Wires \X {"mask", "share", "prod"}

\* The draws of one wire, and what is among them.
LEMMA DrawsOf ==
    ASSUME NEW k, NEW w \in Wires
    PROVE  /\ Draws(k, w) \in Seq(DrawNames)
           /\ Gate(w).type = "kInp" => /\ input_pid[w] = k => <<w, "mask">> \in Elements(Draws(k, w))
                                       /\ Gate(w).rider_id = k => <<w, "share">> \in Elements(Draws(k, w))
           /\ w \in Products => /\ Mine(k, w) => <<w, "share">> \in Elements(Draws(k, w))
                                /\ Gate(w).rider_id = k => <<w, "prod">> \in Elements(Draws(k, w))
           /\ w \notin OwnWires[k] /\ k \in Peers => Draws(k, w) = <<>>
<1> DEFINE m == <<w, "mask">>
           s == <<w, "share">>
           p == <<w, "prod">>
<1>1. m \in DrawNames /\ s \in DrawNames /\ p \in DrawNames
  BY DEF DrawNames
<1>2. Gate(w).type = "kInp" => ~ Gate(w).type \in Communicating
  BY DEF Communicating
<1>3. w \in Products <=> Gate(w).type \in Communicating
  BY DEF Products
<1>4. Gate(w).type = "kInp" => input_pid[w] \in {Gate(w).rider_id, Gate(w).driver_id}
  BY InputAssumption
<1>5. k \in Peers => (w \in OwnWires[k] <=> Mine(k, w))
  BY DEF OwnWires
<1> HIDE DEF m, s, p
<1> DEFINE D == Draws(k, w)
<1>6. CASE Gate(w).type = "kInp"
  <2>1. D = When(input_pid[w] = k, m) \o When(Gate(w).rider_id = k, s)
    BY <1>2, <1>6 DEF Draws, m, s
  <2>2. D \in Seq(DrawNames)
    BY <1>1, <2>1 DEF When
  <2>3. input_pid[w] = k => D[1] = m /\ Len(D) \in Nat /\ Len(D) >= 1
    BY <2>1 DEF When
  <2>4. Gate(w).rider_id = k => D[Len(D)] = s /\ Len(D) \in Nat /\ Len(D) >= 1
    BY <2>1 DEF When
  <2>5. ~ Mine(k, w) => D = <<>>
    BY <1>4, <1>6, <2>1 DEF When, Mine
  <2> HIDE DEF D
  <2> QED
    BY <1>2, <1>3, <1>5, <1>6, <2>2, <2>3, <2>4, <2>5 DEF Elements, D, m, s
<1>7. CASE Gate(w).type \in Communicating
  <2>1. D = When(Mine(k, w), s) \o When(Gate(w).rider_id = k, p)
    BY <1>2, <1>7 DEF Draws, s, p
  <2>2. D \in Seq(DrawNames)
    BY <1>1, <2>1 DEF When
  <2>3. Mine(k, w) => D[1] = s /\ Len(D) \in Nat /\ Len(D) >= 1
    BY <2>1 DEF When
  <2>4. Gate(w).rider_id = k => D[Len(D)] = p /\ Len(D) \in Nat /\ Len(D) >= 1
    BY <2>1 DEF When
  <2>5. ~ Mine(k, w) => D = <<>>
    BY <2>1 DEF When, Mine
  <2> HIDE DEF D
  <2> QED
    BY <1>2, <1>3, <1>5, <1>7, <2>2, <2>3, <2>4, <2>5 DEF Elements, D, p, s
<1>8. CASE Gate(w).type # "kInp" /\ Gate(w).type \notin Communicating
  <2>1. D = <<>>
    BY <1>8 DEF Draws
  <2> QED
    BY <1>3, <1>8, <2>1
<1> QED
  BY <1>6, <1>7, <1>8

\* What a loop yields are the elements of its parts.
LEMMA EachElements ==
    ASSUME NEW X, NEW U, NEW F, Table(F, X, U), NEW s \in Seq(X)
    PROVE  /\ Each(s, F) \in Seq(U)
           /\ \A x \in Elements(s) : Elements(F[x]) \subseteq Elements(Each(s, F))
<1> DEFINE P == Parts(s, F)
<1>1. P \in Seq(Seq(U)) /\ Len(P) = Len(s) /\ \A i \in 1 .. Len(s) : P[i] = F[s[i]]
  BY PartsOf
<1>2. Each(s, F) = FlattenSeq(P)
  BY EachParts
<1> HIDE DEF P
<1>3. FlattenSeq(P) \in Seq(U)
      /\ Elements(FlattenSeq(P)) = UNION {Elements(P[n]) : n \in 1 .. Len(P)}
  BY <1>1, FlattenProperties
<1>4. ASSUME NEW x \in Elements(s)
      PROVE  Elements(F[x]) \subseteq Elements(Each(s, F))
  <2>1. PICK i \in 1 .. Len(s) : s[i] = x
    BY DEF Elements
  <2>2. Elements(F[x]) = Elements(P[i]) /\ i \in 1 .. Len(P)
    BY <1>1, <2>1
  <2>3. Elements(P[i]) \subseteq UNION {Elements(P[n]) : n \in 1 .. Len(P)}
    BY <2>2
  <2> QED
    BY <1>2, <1>3, <2>2, <2>3
<1> QED
  BY <1>2, <1>3, <1>4

\* Every wire is in the order.
LEMMA OrderElements ==
    Order \in Seq(Wires) /\ Elements(Order) = Wires
<1>1. Acyclic(circ.gates) /\ Wires = 1 .. Len(circ.gates)
  BY TheCircuit
<1> QED
  BY <1>1, OrderOfGates DEF Order, Levels

\* What is drawn from k's generator, by wire.
DrawTable(k) == [w \in Wires |-> Draws(k, w)]

\* The SP and party k draw for the same, in the same order: party k for its own wires alone,
\* for which alone the SP draws from the generator it shares with k.
LEMMA DrawsAgree ==
    ASSUME NEW k \in Peers
    PROVE  /\ SPDraws[k] = Each(Order, DrawTable(k))
           /\ PartyDraws[k] = SPDraws[k] /\ PartyDrawAt[k] = SPDrawAt[k]
           /\ Table(DrawTable(k), Wires, DrawNames)
<1>1. SPDraws[k] = Each(Order, DrawTable(k))
  BY DEF SPDraws, DrawTable, Draws
<1>2. Table(DrawTable(k), Wires, DrawNames)
  BY DrawsOf DEF Table, DrawTable
<1> DEFINE S == OwnWires[k]
           F == [w \in Wires |->
                    CASE Gate(w).type = "kInp" ->
                            When(k = input_pid[w], <<w, "mask">>)
                            \o When(k = Gate(w).rider_id, <<w, "share">>)
                      [] Gate(w).type \in Communicating ->
                            <<<<w, "share">>>> \o When(k = Gate(w).rider_id, <<w, "prod">>)
                      [] OTHER -> <<>>]
<1>3. PartyDraws[k] = Each(Pick(Order, S), F)
  BY DEF PartyDraws
<1>4. \A w \in Wires : DrawTable(k)[w] = Draws(k, w)
  BY DEF DrawTable
<1>5. ASSUME NEW w \in Wires, w \in S
      PROVE  F[w] = Draws(k, w)
  <2>1. Mine(k, w)
    BY <1>5 DEF OwnWires
  <2>2. Gate(w).type = "kInp" => ~ Gate(w).type \in Communicating
    BY DEF Communicating
  <2> DEFINE m == <<w, "mask">>
             s == <<w, "share">>
             p == <<w, "prod">>
  <2>3. When(Mine(k, w), s) = <<s>>
    BY <2>1 DEF When
  <2>4. /\ When(k = input_pid[w], m) = When(input_pid[w] = k, m)
        /\ When(k = Gate(w).rider_id, s) = When(Gate(w).rider_id = k, s)
        /\ When(k = Gate(w).rider_id, p) = When(Gate(w).rider_id = k, p)
    BY DEF When
  <2>5. F[w] = CASE Gate(w).type = "kInp" ->
                            When(k = input_pid[w], m) \o When(k = Gate(w).rider_id, s)
                      [] Gate(w).type \in Communicating ->
                            <<s>> \o When(k = Gate(w).rider_id, p)
                      [] OTHER -> <<>>
    OBVIOUS
  <2>6. Draws(k, w) = CASE Gate(w).type = "kInp" ->
                            When(input_pid[w] = k, m) \o When(Gate(w).rider_id = k, s)
                      [] Gate(w).type \in Communicating ->
                            When(Mine(k, w), s) \o When(Gate(w).rider_id = k, p)
                      [] OTHER -> <<>>
    BY DEF Draws
  <2> HIDE DEF F, m, s, p
  <2>7. CASE Gate(w).type = "kInp"
    BY <2>2, <2>4, <2>5, <2>6, <2>7
  <2>8. CASE Gate(w).type \in Communicating
    BY <2>2, <2>3, <2>4, <2>5, <2>6, <2>8
  <2>9. CASE Gate(w).type # "kInp" /\ ~ Gate(w).type \in Communicating
    BY <2>5, <2>6, <2>9
  <2> QED
    BY <2>7, <2>8, <2>9
<1> HIDE DEF F
<1>6. \A w \in Wires : DrawTable(k)[w] = IF w \in S THEN F[w] ELSE Nil
  <2> SUFFICES ASSUME NEW w \in Wires
               PROVE  DrawTable(k)[w] = IF w \in S THEN F[w] ELSE Nil
    OBVIOUS
  <2>1. CASE w \in S
    BY <1>4, <1>5, <2>1
  <2>2. CASE w \notin S
    <3>1. Draws(k, w) = <<>>
      BY <2>2, DrawsOf
    <3> QED
      BY <1>4, <2>2, <3>1 DEF Nil
  <2> QED
    BY <2>1, <2>2
<1>7. Table(F, Wires \cap S, DrawNames)
  <2> SUFFICES ASSUME NEW w \in Wires \cap S
               PROVE  F[w] \in Seq(DrawNames)
    BY DEF Table
  <2>1. F[w] = Draws(k, w)
    BY <1>5
  <2>2. Draws(k, w) \in Seq(DrawNames)
    BY DrawsOf
  <2> QED
    BY <2>1, <2>2
<1> HIDE DEF S
<1>8. Each(Pick(Order, S), F) = Each(Order, DrawTable(k))
  BY <1>6, <1>7, OrderElements, EachPick
<1>9. PartyDraws[k] = SPDraws[k]
  BY <1>1, <1>3, <1>8
<1>10. PartyDrawAt[k] = SPDrawAt[k]
  BY <1>9 DEF PartyDrawAt, SPDrawAt
<1> QED
  BY <1>1, <1>2, <1>9, <1>10

\* What is drawn is on the tape, and is a residue.
LEMMA DrawnField ==
    ASSUME NEW t \in Tapes, NEW k \in Peers, NEW w \in Wires, NEW x,
           <<w, x>> \in Elements(Draws(k, w))
    PROVE  SPDrawn(t, k, w, x) \in Field
<1> DEFINE s == SPDraws[k]
           e == <<w, x>>
<1>1. s = Each(Order, DrawTable(k)) /\ Table(DrawTable(k), Wires, DrawNames)
  BY DrawsAgree
<1>2. Elements(DrawTable(k)[w]) \subseteq Elements(s) /\ s \in Seq(DrawNames)
  <2>1. w \in Elements(Order) /\ Order \in Seq(Wires)
    BY OrderElements
  <2> HIDE DEF s
  <2> QED
    BY <1>1, <2>1, EachElements
<1>3. e \in Elements(s)
  BY <1>2 DEF DrawTable
<1>4. DOMAIN s = 1 .. Len(s) /\ Len(s) \in Nat
  BY <1>2
<1>5. Len(s) <= Len(t) /\ t \in Seq(Field)
  BY TapeAssumption DEF Field
<1>6. SPDrawAt[k][e] = Position(s, e)
  <2>1. SPDrawAt[k] = Positions(s)
    BY DEF SPDrawAt
  <2>2. e \in Range(s)
    BY <1>3, <1>4 DEF Elements, Range
  <2> HIDE DEF s, e
  <2> QED
    BY <2>1, <2>2 DEF Positions
<1> HIDE DEF s
<1>7. Position(s, e) \in 1 .. Len(s)
  BY <1>3, <1>4 DEF Position, Elements
<1>8. Position(s, e) \in 1 .. Len(t)
  BY <1>4, <1>5, <1>7
<1>9. t[Position(s, e)] \in Field
  <2>1. \A n \in 1 .. Len(t) : t[n] \in Field
    BY <1>5
  <2> QED
    BY <1>8, <2>1
<1> QED
  BY <1>6, <1>9 DEF SPDrawn

\* What the SP's shares of the masks start from.
RiderBase(t) == [w \in Wires |-> SPDrawn(t, Gate(w).rider_id, w, "share")]
DriverBase(t) ==
    [w \in Wires |-> IF w \in Products THEN SPDrawn(t, Gate(w).driver_id, w, "share")
                     ELSE (SPDrawn(t, input_pid[w], w, "mask") - SPShare1[t][w]) % Modulus]

\* The wires of the circuit are closed under reading operands.
LEMMA WiresClosed == Closed(Wires)
<1>1. \A w \in Wires : Reads(Gate(w)) \subseteq 1 .. w - 1
  BY CircuitAssumption
<1>2. Wires = 1 .. Len(circ.gates) /\ Len(circ.gates) \in Nat
  BY TheCircuit DEF Acyclic
<1>3. \A w \in Wires : 1 .. w - 1 \subseteq Wires
  BY <1>2
<1> QED
  BY <1>1, <1>3 DEF Closed

\* The values drawn for a basic wire.
LEMMA BasicDraws ==
    ASSUME NEW t \in Tapes, NEW w \in Wires, Basic(w)
    PROVE  LET r == Gate(w).rider_id
               d == Gate(w).driver_id
           IN  /\ SPDrawn(t, r, w, "share") \in Field
               /\ w \in Products => /\ SPDrawn(t, d, w, "share") \in Field
                                    /\ SPDrawn(t, r, w, "prod") \in Field
               /\ w \notin Products => SPDrawn(t, input_pid[w], w, "mask") \in Field
<1> DEFINE r == Gate(w).rider_id
           d == Gate(w).driver_id
<1>1. r \in Peers /\ d \in Peers /\ Mine(r, w) /\ Mine(d, w)
  BY Owners DEF Mine
<1>2. w \in Products => Gate(w).type # "kInp"
  BY DEF Products, Communicating
<1>3. CASE w \in Products
  <2>1. <<w, "share">> \in Elements(Draws(r, w)) /\ <<w, "prod">> \in Elements(Draws(r, w))
    BY <1>1, <1>3, DrawsOf
  <2>2. <<w, "share">> \in Elements(Draws(d, w))
    BY <1>1, <1>3, DrawsOf
  <2>3. SPDrawn(t, r, w, "share") \in Field
    BY <1>1, <2>1, DrawnField
  <2>4. SPDrawn(t, r, w, "prod") \in Field
    BY <1>1, <2>1, DrawnField
  <2>5. SPDrawn(t, d, w, "share") \in Field
    BY <1>1, <2>2, DrawnField
  <2> QED
    BY <1>3, <2>3, <2>4, <2>5
<1>4. CASE w \notin Products
  <2>1. Gate(w).type = "kInp"
    BY <1>4 DEF Basic
  <2>2. input_pid[w] \in Peers
    BY <1>1, <2>1, InputAssumption
  <2>3. <<w, "share">> \in Elements(Draws(r, w))
    BY <1>1, <2>1, DrawsOf
  <2>4. <<w, "mask">> \in Elements(Draws(input_pid[w], w))
    BY <2>1, <2>2, DrawsOf
  <2>5. SPDrawn(t, r, w, "share") \in Field
    BY <1>1, <2>3, DrawnField
  <2>6. SPDrawn(t, input_pid[w], w, "mask") \in Field
    BY <2>2, <2>4, DrawnField
  <2> QED
    BY <1>4, <2>5, <2>6
<1> QED
  BY <1>3, <1>4

\* The riders' shares of the masks, at the SP.
LEMMA SPShare1Solves ==
    ASSUME NEW t \in Tapes
    PROVE  /\ IsShares(Wires, RiderBase(t), SPShare1[t])
           /\ \A w \in Wires : Basic(w) => RiderBase(t)[w] \in Field
           /\ SPShare1[t] \in [Wires -> Field]
<1> DEFINE b == RiderBase(t)
           P(s) == s = [w \in Wires |->
                          IF Gate(w).type = "kInp" \/ w \in Products
                          THEN SPDrawn(t, Gate(w).rider_id, w, "share") ELSE LinearMask(Gate(w), s)]
           S == CHOOSE s : P(s)
<1>1. \A w \in Wires : b[w] = SPDrawn(t, Gate(w).rider_id, w, "share")
  BY DEF RiderBase
<1>2. \A w \in Wires : Basic(w) => b[w] \in Field
  BY <1>1, BasicDraws
<1> HIDE DEF b
<1>3. \E s : IsShares(Wires, b, s)
  BY <1>2, WiresClosed, SharesExist
<1>4. \A s : IsShares(Wires, b, s) <=> P(s)
  BY <1>1 DEF IsShares
<1>5. SPShare1[t] = [w \in Wires |-> S[w]]
  BY DEF SPShare1, Shares
<1> HIDE DEF P
<1>6. P(S)
  BY <1>3, <1>4, Zenon
<1> HIDE DEF S
<1>7. S = [w \in Wires |-> S[w]]
  BY <1>6 DEF P
<1>8. IsShares(Wires, b, SPShare1[t])
  BY <1>4, <1>5, <1>6, <1>7
<1>9. SPShare1[t] \in [Wires -> Field]
  BY <1>2, <1>8, WiresClosed, SharesIn
<1> QED
  BY <1>2, <1>8, <1>9 DEF b

\* The drivers' shares, at the SP.
LEMMA SPShare2Solves ==
    ASSUME NEW t \in Tapes
    PROVE  /\ IsShares(Wires, DriverBase(t), SPShare2[t])
           /\ \A w \in Wires : Basic(w) => DriverBase(t)[w] \in Field
           /\ SPShare2[t] \in [Wires -> Field]
<1> DEFINE b == DriverBase(t)
           P(s) == s = [w \in Wires |->
                          IF Gate(w).type = "kInp" \/ w \in Products
                          THEN IF w \in Products THEN SPDrawn(t, Gate(w).driver_id, w, "share")
                               ELSE (SPDrawn(t, input_pid[w], w, "mask") - SPShare1[t][w]) % Modulus
                          ELSE LinearMask(Gate(w), s)]
           S == CHOOSE s : P(s)
<1>1. \A w \in Wires : b[w] = IF w \in Products THEN SPDrawn(t, Gate(w).driver_id, w, "share")
                       ELSE (SPDrawn(t, input_pid[w], w, "mask") - SPShare1[t][w]) % Modulus
  BY DEF DriverBase
<1>2. \A w \in Wires : Basic(w) => b[w] \in Field
  <2> SUFFICES ASSUME NEW w \in Wires, Basic(w)
               PROVE  b[w] \in Field
    OBVIOUS
  <2>1. CASE w \in Products
    BY <1>1, <2>1, BasicDraws
  <2>2. CASE w \notin Products
    <3>1. SPDrawn(t, input_pid[w], w, "mask") \in Field
      BY <2>2, BasicDraws
    <3>2. SPShare1[t][w] \in Field
      BY SPShare1Solves
    <3>3. SPDrawn(t, input_pid[w], w, "mask") - SPShare1[t][w] \in Int
      BY <3>1, <3>2, ModulusAssumption DEF Field
    <3>4. (SPDrawn(t, input_pid[w], w, "mask") - SPShare1[t][w]) % Modulus \in Field
      BY <3>3, Residue
    <3> QED
      BY <1>1, <2>2, <3>4
  <2> QED
    BY <2>1, <2>2
<1> HIDE DEF b
<1>3. \E s : IsShares(Wires, b, s)
  BY <1>2, WiresClosed, SharesExist
<1>4. \A s : IsShares(Wires, b, s) <=> P(s)
  BY <1>1 DEF IsShares
<1>5. SPShare2[t] = [w \in Wires |-> S[w]]
  BY DEF SPShare2, Shares
<1> HIDE DEF P
<1>6. P(S)
  BY <1>3, <1>4, Zenon
<1> HIDE DEF S
<1>7. S = [w \in Wires |-> S[w]]
  BY <1>6 DEF P
<1>8. IsShares(Wires, b, SPShare2[t])
  BY <1>4, <1>5, <1>6, <1>7
<1>9. SPShare2[t] \in [Wires -> Field]
  BY <1>2, <1>8, WiresClosed, SharesIn
<1> QED
  BY <1>2, <1>8, <1>9 DEF b

\* Where an element of a sequence is.
LEMMA PositionOf ==
    ASSUME NEW U, NEW s \in Seq(U), NEW x \in Elements(s)
    PROVE  Position(s, x) \in 1 .. Len(s) /\ s[Position(s, x)] = x
<1>1. \E i \in DOMAIN s : s[i] = x
  BY DEF Elements
<1>2. DOMAIN s = 1 .. Len(s)
  OBVIOUS
<1> QED
  BY <1>1, <1>2 DEF Position

\* A sequence of which all elements are in W.
LEMMA SeqInto ==
    ASSUME NEW X, NEW s \in Seq(X), NEW W, \A i \in 1 .. Len(s) : s[i] \in W
    PROVE  s \in Seq(W)
<1>1. Len(s) \in Nat /\ s \in [1 .. Len(s) -> W]
  OBVIOUS
<1> QED
  BY <1>1

\* The operands of a multiplication or dot product are among the wires it reads.
LEMMA ProductGate ==
    ASSUME NEW ws, Closed(ws), NEW w \in ws, w \in Products
    PROVE  /\ Operands(Gate(w), Reads(Gate(w))) /\ Reads(Gate(w)) \subseteq ws
           /\ HasOperands(Gate(w)) /\ Gate(w).type \in Communicating
<1> DEFINE g == Gate(w)
<1>1. w \in Wires /\ HasOperands(g) /\ Reads(g) \subseteq ws
  BY CircuitAssumption DEF Closed
<1>2. g.type \in Communicating
  BY DEF Products
<1> HIDE DEF g
<1>3. g.type \in FIn2Types \cup {"kDotprod"}
  BY <1>2 DEF Communicating, FIn2Types
<1>4. g.in1 \in Seq(Nat) /\ g.in2 \in Seq(Nat) /\ Len(g.in2) = Len(g.in1)
  BY <1>1, <1>3 DEF HasOperands
<1>5. Operands(g, Reads(g))
  <2>1. DOMAIN g.in1 = 1 .. Len(g.in1) /\ DOMAIN g.in2 = 1 .. Len(g.in2)
    BY <1>4
  <2>2. \A i \in 1 .. Len(g.in1) : g.in1[i] \in Reads(g)
    BY <2>1 DEF Reads, Range
  <2>3. \A i \in 1 .. Len(g.in2) : g.in2[i] \in Reads(g)
    BY <2>1 DEF Reads, Range
  <2>4. g.in1 \in Seq(Reads(g))
    BY <1>4, <2>2, SeqInto
  <2>5. g.in2 \in Seq(Reads(g))
    BY <1>4, <2>3, SeqInto
  <2> QED
    BY <1>4, <2>4, <2>5 DEF Operands
<1> QED
  BY <1>1, <1>2, <1>5 DEF g

\* A basic wire is either an input or a product.
LEMMA BasicCases ==
    ASSUME NEW w, w \notin Products, Basic(w)
    PROVE  Gate(w).type = "kInp"
BY DEF Basic

\* The masks at the SP: residues, the drawn value for an input, and what the masks of the
\* operands make it for a linear gate.
LEMMA SPMaskOf ==
    ASSUME NEW t \in Tapes
    PROVE  /\ SPMask[t] \in [Wires -> Field]
           /\ \A w \in Wires :
                 /\ SPMask[t][w] = (SPShare1[t][w] + SPShare2[t][w]) % Modulus
                 /\ w \notin Products /\ Basic(w) => SPMask[t][w] = SPDrawn(t, input_pid[w], w, "mask")
                 /\ ~ Basic(w) => SPMask[t][w] = LinearMask(Gate(w), SPMask[t])
<1> DEFINE S1 == SPShare1[t]
           S2 == SPShare2[t]
           M == SPMask[t]
<1>1. M = [w \in Wires |-> (S1[w] + S2[w]) % Modulus]
  BY DEF SPMask
<1>2. \A w \in Wires : S1[w] \in Field /\ S2[w] \in Field
  BY SPShare1Solves, SPShare2Solves
<1>3. IsShares(Wires, RiderBase(t), S1) /\ IsShares(Wires, DriverBase(t), S2)
  BY SPShare1Solves, SPShare2Solves
<1> HIDE DEF S1, S2, M
<1>4. \A w \in Wires : S1[w] \in Int /\ S2[w] \in Int /\ S1[w] + S2[w] \in Int
  BY <1>2, ModulusAssumption DEF Field
<1>5. \A w \in Wires : M[w] \in Field
  BY <1>1, <1>4, Residue
<1>6. ASSUME NEW w \in Wires, w \notin Products, Basic(w)
      PROVE  M[w] = SPDrawn(t, input_pid[w], w, "mask")
  <2> DEFINE x == SPDrawn(t, input_pid[w], w, "mask")
             a == S1[w]
  <2>1. S2[w] = DriverBase(t)[w]
    BY <1>3, <1>6 DEF IsShares, Basic
  <2>2. DriverBase(t)[w] = (x - a) % Modulus
    BY <1>6 DEF DriverBase, S1
  <2>3. x \in Field
    BY <1>6, BasicDraws
  <2>4. a \in Int /\ M[w] = (a + S2[w]) % Modulus
    BY <1>1, <1>4
  <2> HIDE DEF x, a
  <2> DEFINE r == (x - a) % Modulus
  <2>5. M[w] = (a + r) % Modulus
    BY <2>1, <2>2, <2>4
  <2>6. x \in Int /\ x - a \in Int /\ (x - a) + a = x
    BY <2>3, <2>4, Residue
  <2>7. (r + a) % Modulus = ((x - a) + a) % Modulus
    BY <2>4, <2>6, ModulusAssumption, ModAbsorbs
  <2>8. r \in Int
    BY <2>6, Residue
  <2> HIDE DEF r
  <2>11. a + r = r + a
    BY <2>4, <2>8
  <2>9. x % Modulus = x
    BY <2>3, ModulusAssumption, ModSmall DEF Field
  <2>10. M[w] = x
    BY <2>5, <2>6, <2>7, <2>9, <2>11
  <2> QED
    BY <2>10 DEF x
<1>7. ASSUME NEW w \in Wires, ~ Basic(w)
      PROVE  M[w] = LinearMask(Gate(w), M)
  <2> DEFINE g == Gate(w)
  <2>1. LinearOn(g, Wires)
    BY <1>7, WiresClosed, LinearGate
  <2>2. S1[w] = LinearMask(g, S1) /\ S2[w] = LinearMask(g, S2)
    BY <1>3, <1>7 DEF IsShares, Basic
  <2>3. \A k \in Wires : /\ M[k] \in Int /\ S1[k] \in Int /\ S2[k] \in Int
                         /\ Cong(Modulus, S1[k] + S2[k], M[k])
    <3> SUFFICES ASSUME NEW k \in Wires
                 PROVE  /\ M[k] \in Int /\ S1[k] \in Int /\ S2[k] \in Int
                        /\ Cong(Modulus, S1[k] + S2[k], M[k])
      OBVIOUS
    <3>1. S1[k] + S2[k] \in Int /\ M[k] = (S1[k] + S2[k]) % Modulus
      BY <1>1, <1>4
    <3>2. Cong(Modulus, S1[k] + S2[k], (S1[k] + S2[k]) % Modulus)
      BY <3>1, ModulusAssumption, ModRange
    <3>3. M[k] \in Int
      BY <1>5, Residue
    <3> QED
      BY <1>4, <3>1, <3>2, <3>3
  <2> HIDE DEF g
  <2>4. (LinearMask(g, S1) + LinearMask(g, S2)) % Modulus = LinearMask(g, M)
    BY <2>1, <2>3, SharesOfLinear
  <2>5. M[w] = LinearMask(g, M)
    BY <1>1, <2>2, <2>4
  <2> QED
    BY <2>5 DEF g
<1>8. M \in [Wires -> Field]
  BY <1>1, <1>5
<1> QED
  BY <1>1, <1>6, <1>7, <1>8 DEF M, S1, S2

\* The shares of a product of masks: the rider's is drawn, the driver's completes it.
LEMMA SPProductShares ==
    ASSUME NEW t \in Tapes, NEW w \in Products
    PROVE  LET a == SPDrawn(t, Gate(w).rider_id, w, "prod")
           IN  /\ a \in Field /\ SPProd2[t][w] \in Field
               /\ Dot(Gate(w), SPMask[t], SPMask[t]) \in Int
               /\ Cong(Modulus, a + SPProd2[t][w], Dot(Gate(w), SPMask[t], SPMask[t]))
<1> DEFINE g == Gate(w)
           a == SPDrawn(t, g.rider_id, w, "prod")
           M == SPMask[t]
           D == Dot(g, M, M)
<1>1. w \in Wires /\ Basic(w)
  BY DEF Products, Basic
<1>2. a \in Field
  BY <1>1, BasicDraws
<1>3. Operands(g, Reads(g)) /\ Reads(g) \subseteq Wires
  BY <1>1, WiresClosed, ProductGate
<1>4. \A k \in Reads(g) : M[k] \in Int
  BY <1>3, SPMaskOf, Residue
<1>5. D \in Int
  <2> HIDE DEF g, M
  <2>1. \A i \in 0 .. Len(g.in1) : DotSums(g, M, M)[i] \in Int
    BY <1>3, <1>4, DotTypes
  <2>2. Len(g.in1) \in Nat
    BY <1>3, OperandPairs
  <2>3. Len(g.in1) \in 0 .. Len(g.in1)
    BY <2>2
  <2> QED
    BY <2>1, <2>3 DEF Dot
<1>6. SPProd2[t][w] = (D - a) % Modulus
  BY DEF SPProd2
<1> HIDE DEF a, D
<1>7. a \in Int /\ D - a \in Int
  BY <1>2, <1>5, ModulusAssumption DEF Field
<1> DEFINE r == (D - a) % Modulus
<1>8. r \in Field /\ Cong(Modulus, r, D - a) /\ r \in Int
  BY <1>7, ModulusAssumption, ModRange, Residue
<1> HIDE DEF r
<1>9. (a + r) - D = r - (D - a)
  BY <1>5, <1>7, <1>8
<1>10. Cong(Modulus, a + r, D)
  BY <1>8, <1>9 DEF Cong
<1> QED
  BY <1>2, <1>5, <1>6, <1>8, <1>10 DEF a, D, r

\* p's preprocessing is what the SP's says it should be.
MasksRight(p, t, m) ==
    /\ DOMAIN m.mask = OwnWires[p]
    /\ \A w \in OwnWires[p] :
          /\ m.mask[w] = IF p = Gate(w).rider_id THEN SPShare1[t][w] ELSE SPShare2[t][w]
          /\ w \in Products =>
                m.prod[w] = IF p = Gate(w).rider_id THEN SPDrawn(t, p, w, "prod") ELSE SPProd2[t][w]
          /\ Gate(w).type = "kInp" /\ input_pid[w] = p => m.secret[w] = SPMask[t][w]

\* The values a driver is sent.
Corrections(p, t, sec, par) ==
    p \in Net!Driver =>
        /\ \A i \in 1 .. Len(SecWires[p]) : sec[i] = SPProd2[t][SecWires[p][i]]
        /\ \A i \in 1 .. Len(ParWires[p]) : par[i] = SPShare2[t][ParWires[p][i]]

\* A party's own wires.
LEMMA OwnWiresOf ==
    ASSUME NEW p \in Peers
    PROVE  /\ Closed(OwnWires[p]) /\ OwnWires[p] \subseteq Wires
           /\ \A w \in OwnWires[p] : /\ p = Gate(w).rider_id \/ p = Gate(w).driver_id
                                     /\ p = Gate(w).rider_id => p \notin Net!Driver
                                     /\ p = Gate(w).driver_id => p \in Net!Driver
<1>1. OwnWires[p] = {w \in Wires : Mine(p, w)}
  BY DEF OwnWires
<1>2. ASSUME NEW w \in OwnWires[p], NEW v \in Reads(Gate(w))
      PROVE  v \in OwnWires[p]
  <2>1. w \in Wires /\ Mine(p, w)
    BY <1>1
  <2>2. v \in Wires
    BY <2>1, WiresClosed DEF Closed
  <2>3. Gate(v).rider_id = Gate(w).rider_id /\ Gate(v).driver_id = Gate(w).driver_id
    BY <2>1, OperandAssumption
  <2> QED
    BY <1>1, <2>1, <2>2, <2>3 DEF Mine
<1>3. Closed(OwnWires[p])
  BY <1>1, <1>2 DEF Closed
<1>4. ASSUME NEW w \in OwnWires[p]
      PROVE  /\ p = Gate(w).rider_id \/ p = Gate(w).driver_id
             /\ p = Gate(w).rider_id => p \notin Net!Driver
             /\ p = Gate(w).driver_id => p \in Net!Driver
  <2>1. w \in Wires /\ Mine(p, w)
    BY <1>1
  <2>2. Gate(w).rider_id \in Net!Rider /\ Gate(w).driver_id \in Net!Driver
    BY <2>1, Owners
  <2>3. \A r \in Net!Rider : r \notin Net!Driver
    BY Roles
  <2> QED
    BY <2>1, <2>2, <2>3 DEF Mine
<1> QED
  BY <1>1, <1>3, <1>4

\* The wires whose corrections a driver is sent.
LEMMA CorrectedWires ==
    ASSUME NEW d \in Net!Driver
    PROVE  /\ SecWires[d] \in Seq(Wires)
           /\ Elements(SecWires[d]) = {w \in Wires : Gate(w).driver_id = d /\ w \in Products}
           /\ ParWires[d] \in Seq(Wires)
           /\ Elements(ParWires[d]) = {w \in Wires : Gate(w).driver_id = d /\ Gate(w).type = "kInp"}
<1> DEFINE S == {w \in Wires : Gate(w).driver_id = d /\ Gate(w).type \in Communicating}
           P == {w \in Wires : Gate(w).driver_id = d /\ Gate(w).type = "kInp"}
<1>1. SecWires[d] = Pick(Order, S) /\ ParWires[d] = Pick(Order, P)
  BY DEF SecWires, ParWires
<1>2. S = {w \in Wires : Gate(w).driver_id = d /\ w \in Products}
  BY DEF Products
<1> HIDE DEF S, P
<1>3. Pick(Order, S) \in Seq(Wires) /\ Elements(Pick(Order, S)) = Wires \cap S
  BY OrderElements, PickProperties
<1>4. Pick(Order, P) \in Seq(Wires) /\ Elements(Pick(Order, P)) = Wires \cap P
  BY OrderElements, PickProperties
<1> QED
  BY <1>1, <1>2, <1>3, <1>4 DEF S, P

\* p's value drawn for wire w, at p and at the SP.
LEMMA SameDraw ==
    ASSUME NEW t, NEW p \in Peers, NEW w, NEW x
    PROVE  t[PartyDrawAt[p][<<w, x>>]] = SPDrawn(t, p, w, x)
BY DrawsAgree DEF SPDrawn

\* setWireMasksParty at rider or driver p gives it, for its own gates, the SP's shares.
LEMMA PartyMasksRight ==
    ASSUME NEW p \in Peers, NEW t \in Tapes, NEW sec, NEW par, Corrections(p, t, sec, par)
    PROVE  MasksRight(p, t, PartyMasks(p, t, sec, par))
<1> DEFINE ws == OwnWires[p]
           rider(w) == p = Gate(w).rider_id
           base(w) == IF rider(w) \/ w \in Products THEN t[PartyDrawAt[p][<<w, "share">>]]
                      ELSE par[Position(ParWires[p], w)]
           b == [w \in ws |-> base(w)]
           P(s) == s = [w \in ws |-> IF Gate(w).type = "kInp" \/ w \in Products
                                     THEN base(w) ELSE LinearMask(Gate(w), s)]
           S == CHOOSE s : P(s)
           m == PartyMasks(p, t, sec, par)
           secret == [w \in {v \in DOMAIN input_pid : input_pid[v] = p} |->
                          t[PartyDrawAt[p][<<w, "mask">>]]]
           prod == [w \in ws \cap Products |->
                       IF rider(w) THEN t[PartyDrawAt[p][<<w, "prod">>]]
                       ELSE sec[Position(SecWires[p], w)]]
<1>1. m.mask = [w \in ws |-> S[w]] /\ m.secret = secret /\ m.prod = prod
  BY DEF PartyMasks, Shares
<1>2. /\ Closed(ws) /\ ws \subseteq Wires
      /\ \A w \in ws : /\ rider(w) \/ p = Gate(w).driver_id
                       /\ p = Gate(w).driver_id => ~ rider(w) /\ p \in Net!Driver
  BY OwnWiresOf
<1>3. ASSUME NEW w \in ws, rider(w), Basic(w)
      PROVE  base(w) = RiderBase(t)[w]
  BY <1>2, <1>3, SameDraw DEF RiderBase
<1>4. ASSUME NEW w \in ws, ~ rider(w), Basic(w)
      PROVE  base(w) = DriverBase(t)[w]
  <2>1. w \in Wires /\ p = Gate(w).driver_id /\ p \in Net!Driver
    BY <1>2, <1>4
  <2>2. CASE w \in Products
    <3>1. base(w) = SPDrawn(t, p, w, "share")
      BY <2>2, SameDraw
    <3>2. DriverBase(t)[w] = SPDrawn(t, p, w, "share")
      BY <2>1, <2>2 DEF DriverBase
    <3> QED
      BY <3>1, <3>2
  <2>3. CASE w \notin Products
    <3>1. w \in Elements(ParWires[p]) /\ ParWires[p] \in Seq(Wires)
      BY <1>4, <2>1, <2>3, BasicCases, CorrectedWires
    <3> DEFINE j == Position(ParWires[p], w)
    <3>2. j \in 1 .. Len(ParWires[p]) /\ ParWires[p][j] = w
      BY <3>1, PositionOf
    <3>3. base(w) = par[j]
      BY <1>4, <2>3
    <3> HIDE DEF j
    <3>4. par[j] = SPShare2[t][w]
      BY <2>1, <3>2 DEF Corrections
    <3>5. SPShare2[t][w] = DriverBase(t)[w]
      BY <1>4, <2>1, SPShare2Solves DEF IsShares, Basic
    <3> QED
      BY <3>3, <3>4, <3>5
  <2> QED
    BY <2>2, <2>3
<1>5. \A w \in ws : b[w] = base(w)
  OBVIOUS
<1>6. \A w \in ws : Basic(w) => b[w] \in Field
  BY <1>2, <1>3, <1>4, <1>5, SPShare1Solves, SPShare2Solves
<1> HIDE DEF b
<1>7. \E s : IsShares(ws, b, s)
  BY <1>2, <1>6, SharesExist
<1>8. \A s : IsShares(ws, b, s) <=> P(s)
  BY <1>5 DEF IsShares
<1> HIDE DEF P
<1>9. P(S)
  BY <1>7, <1>8, Zenon
<1> HIDE DEF S
<1>10. IsShares(ws, b, S) /\ S = [w \in ws |-> S[w]]
  <2>1. IsShares(ws, b, S)
    BY <1>8, <1>9
  <2> QED
    BY <2>1 DEF IsShares
<1>11. \A w \in ws : S[w] = IF rider(w) THEN SPShare1[t][w] ELSE SPShare2[t][w]
  <2>1. CASE \A w \in ws : rider(w)
    <3>1. \A w \in ws : Basic(w) => b[w] = RiderBase(t)[w]
      BY <1>3, <1>5, <2>1
    <3>2. IsShares(Wires, RiderBase(t), SPShare1[t])
      BY SPShare1Solves
    <3> DEFINE c == RiderBase(t)
               u == SPShare1[t]
    <3>3. IsShares(Wires, c, u) /\ \A w \in ws : Basic(w) => b[w] = c[w]
      BY <3>1, <3>2
    <3>4. Closed(ws) /\ ws \subseteq Wires /\ IsShares(ws, b, S)
      BY <1>2, <1>10
    <3> HIDE DEF ws, c, u
    <3>5. \A w \in ws : S[w] = u[w]
      BY ONLY <1>6, <3>3, <3>4, SharesSame
    <3>6. \A w \in ws : S[w] = SPShare1[t][w]
      BY <3>5 DEF u
    <3> QED
      BY <2>1, <3>6
  <2>2. CASE \A w \in ws : ~ rider(w)
    <3>1. \A w \in ws : Basic(w) => b[w] = DriverBase(t)[w]
      BY <1>4, <1>5, <2>2
    <3>2. IsShares(Wires, DriverBase(t), SPShare2[t])
      BY SPShare2Solves
    <3> DEFINE c == DriverBase(t)
               u == SPShare2[t]
    <3>3. IsShares(Wires, c, u) /\ \A w \in ws : Basic(w) => b[w] = c[w]
      BY <3>1, <3>2
    <3>4. Closed(ws) /\ ws \subseteq Wires /\ IsShares(ws, b, S)
      BY <1>2, <1>10
    <3> HIDE DEF ws, c, u
    <3>5. \A w \in ws : S[w] = u[w]
      BY ONLY <1>6, <3>3, <3>4, SharesSame
    <3>6. \A w \in ws : S[w] = SPShare2[t][w]
      BY <3>5 DEF u
    <3> QED
      BY <2>2, <3>6
  <2>3. (\A w \in ws : rider(w)) \/ (\A w \in ws : ~ rider(w))
    BY OwnWiresOf
  <2> QED
    BY <2>1, <2>2, <2>3
<1>12. DOMAIN m.mask = ws /\ \A w \in ws : m.mask[w] = S[w]
  BY <1>1
<1>13. ASSUME NEW w \in ws, w \in Products
       PROVE  m.prod[w] = IF rider(w) THEN SPDrawn(t, p, w, "prod") ELSE SPProd2[t][w]
  <2>1. m.prod[w] = IF rider(w) THEN SPDrawn(t, p, w, "prod") ELSE sec[Position(SecWires[p], w)]
    BY <1>1, <1>13, SameDraw
  <2>2. CASE ~ rider(w)
    <3>1. w \in Wires /\ p = Gate(w).driver_id /\ p \in Net!Driver
      BY <1>2, <2>2
    <3>2. w \in Elements(SecWires[p]) /\ SecWires[p] \in Seq(Wires)
      BY <1>13, <3>1, CorrectedWires
    <3> DEFINE j == Position(SecWires[p], w)
    <3>3. j \in 1 .. Len(SecWires[p]) /\ SecWires[p][j] = w
      BY <3>2, PositionOf
    <3> HIDE DEF j
    <3>4. sec[j] = SPProd2[t][w]
      BY <3>1, <3>3 DEF Corrections
    <3> QED
      BY <2>1, <2>2, <3>4 DEF j
  <2> QED
    BY <2>1, <2>2
<1>14. ASSUME NEW w \in ws, Gate(w).type = "kInp", input_pid[w] = p
       PROVE  m.secret[w] = SPMask[t][w]
  <2>1. w \in Wires /\ w \in DOMAIN input_pid
    BY <1>2, <1>14, InputAssumption
  <2>2. m.secret[w] = SPDrawn(t, p, w, "mask")
    BY <1>1, <1>14, <2>1, SameDraw
  <2>3. w \notin Products /\ Basic(w)
    BY <1>14 DEF Products, Communicating, Basic
  <2> QED
    BY <1>14, <2>1, <2>2, <2>3, SPMaskOf
<1> HIDE DEF m
<1> QED
  BY <1>11, <1>12, <1>13, <1>14 DEF MasksRight, m

\* A dot product depends on the operands' values alone and is a number if they are.
LEMMA DotSame ==
    ASSUME NEW g, NEW W, Operands(g, W), NEW a, NEW b, NEW c, NEW d,
           \A k \in W : /\ a[k] \in Int /\ b[k] \in Int /\ c[k] = a[k] /\ d[k] = b[k]
    PROVE  Dot(g, a, b) \in Int /\ Dot(g, a, b) = Dot(g, c, d)
<1> DEFINE n == Len(g.in1)
           D == DotSums(g, a, b)
           E == DotSums(g, c, d)
           T == {i \in Nat : i <= n => D[i] = E[i]}
<1>1. n \in Nat /\ \A i \in 1 .. n : g.in1[i] \in W /\ g.in2[i] \in W
  BY OperandPairs
<1>2. /\ D[0] = 0 /\ \A i \in 1 .. n : D[i] = D[i - 1] + a[g.in1[i]] * b[g.in2[i]]
      /\ E[0] = 0 /\ \A i \in 1 .. n : E[i] = E[i - 1] + c[g.in1[i]] * d[g.in2[i]]
  BY <1>1, DotUnfold
<1>3. \A i \in 0 .. n : D[i] \in Int
  BY DotTypes
<1> HIDE DEF n, D, E
<1>4. 0 \in T
  BY <1>2
<1>5. ASSUME NEW i \in Nat, i \in T
      PROVE  i + 1 \in T
  <2>1. CASE i + 1 <= n
    <3>1. i + 1 \in 1 .. n /\ (i + 1) - 1 = i /\ D[i] = E[i]
      BY <1>1, <1>5, <2>1
    <3>2. /\ D[i + 1] = D[i] + a[g.in1[i + 1]] * b[g.in2[i + 1]]
          /\ E[i + 1] = E[i] + c[g.in1[i + 1]] * d[g.in2[i + 1]]
      BY <1>2, <3>1
    <3>3. c[g.in1[i + 1]] = a[g.in1[i + 1]] /\ d[g.in2[i + 1]] = b[g.in2[i + 1]]
      BY <1>1, <3>1
    <3> QED
      BY <3>1, <3>2, <3>3
  <2> QED
    BY <1>1, <2>1
<1> HIDE DEF T
<1>6. Nat \subseteq T
  BY <1>4, <1>5, SetInduction
<1>7. D[n] = E[n] /\ D[n] \in Int
  BY <1>1, <1>3, <1>6 DEF T
<1> QED
  BY <1>7 DEF Dot, n, D, E

\* A gate's value is a residue.
LEMMA GateValueField ==
    ASSUME NEW w \in Wires, NEW v, \A k \in Reads(Gate(w)) : v[k] \in Int,
           NEW inp, Gate(w).type = "kInp" => inp[w] \in Int
    PROVE  GateValue(Gate(w), w, v, inp) \in Field
<1> DEFINE g == Gate(w)
           W == Reads(g)
<1>1. CASE g.type = "kInp"
  <2>1. GateValue(g, w, v, inp) = inp[w] % Modulus
    BY <1>1 DEF GateValue, Communicating
  <2> QED
    BY <1>1, <2>1, Residue
<1>2. CASE w \in Products
  <2>1. Operands(g, W) /\ g.type \in Communicating
    BY <1>2, WiresClosed, ProductGate
  <2>2. Dot(g, v, v) \in Int
    BY <2>1, DotSame
  <2>3. GateValue(g, w, v, inp) = Dot(g, v, v) % Modulus
    BY <2>1 DEF GateValue, Communicating
  <2> QED
    BY <2>2, <2>3, Residue
<1>3. CASE ~ Basic(w)
  <2>1. LinearOn(g, W) /\ g.type \in LinearTypes
    <3>1. LinearOn(g, Wires) /\ g.type \in LinearTypes
      BY <1>3, WiresClosed, LinearGate
    <3>2. HasOperands(g)
      BY CircuitAssumption
    <3>3. g.in1[1] \in W /\ (g.type \in {"kAdd", "kSub"} => g.in2[1] \in W)
      <4>1. /\ Len(g.in1) = 1 /\ g.in1 \in Seq(Nat) /\ g.in2 \in Seq(Nat)
            /\ g.type \in {"kAdd", "kSub"} => Len(g.in2) = 1
        BY <3>1, <3>2 DEF HasOperands, FIn2Types, ConstOpTypes, LinearTypes
      <4> QED
        BY <4>1 DEF Reads, Range
    <3> QED
      BY <3>1, <3>3 DEF LinearOn
  <2> DEFINE X == LinearForm(g, v)
  <2>2. X \in Int
    BY <2>1, LinearMaskOf
  <2>3. g.cval \in Int
    BY <2>1 DEF LinearOn
  <2>4. GateValue(g, w, v, inp) = (IF g.type = "kConstAdd" THEN X + g.cval ELSE X) % Modulus
    BY <2>1, LinearUnfold
  <2> HIDE DEF X
  <2> QED
    BY <2>2, <2>3, <2>4, Residue
<1> QED
  BY <1>1, <1>2, <1>3 DEF Basic

\* The plaintext values solve the gates' equations, in residues.
LEMMA PlainOf ==
    ASSUME NEW i \in Inputs
    PROVE  /\ Plain[i] \in [Wires -> Field]
           /\ \A w \in Wires : Plain[i][w] = GateValue(Gate(w), w, Plain[i], i)
<1> DEFINE x == EvaluateInOrder(circ.gates, i, Order)
           T == {w \in Wires : x[w] \in Field}
<1>1. Plain[i] = x
  BY DEF Plain, Evaluate, Order, Levels
<1>2. Acyclic(circ.gates) /\ Wires = 1 .. Len(circ.gates) /\ Wires \in SUBSET Nat
  BY TheCircuit
<1>3. Topological(circ.gates, Order)
  BY <1>2, LevelOrderTopological DEF Order, Levels
<1>4. \A w \in 1 .. Len(circ.gates) : HasOperands(circ.gates[w])
  BY <1>2, CircuitAssumption DEF Gate
<1>5. /\ x = [w \in Wires |-> x[w]]
      /\ \A w \in Wires : x[w] = GateValue(Gate(w), w, x, i)
  BY <1>2, <1>3, <1>4, EvaluationSolves DEF Gate
<1> HIDE DEF x
<1>6. ASSUME NEW w \in Wires, \A v \in Wires : v < w => v \in T
      PROVE  w \in T
  <2>1. \A v \in Reads(Gate(w)) : v \in Wires /\ v < w
    <3>1. Reads(Gate(w)) \subseteq 1 .. w - 1 /\ w \in Nat
      BY <1>2, CircuitAssumption
    <3> QED
      BY <3>1, WiresClosed DEF Closed
  <2>2. \A v \in Reads(Gate(w)) : x[v] \in Int
    BY <1>6, <2>1, Residue
  <2>3. Gate(w).type = "kInp" => i[w] \in Int
    BY InputAssumption
  <2> QED
    BY <1>5, <2>2, <2>3, GateValueField
<1> HIDE DEF T
<1>7. Wires \subseteq T
  BY <1>2, <1>6, StrongInduction
<1>8. x \in [Wires -> Field]
  BY <1>5, <1>7 DEF T
<1> QED
  BY <1>1, <1>5, <1>8
-----------------------------------------------------------------------------
(***************************************************************************)
(* The masked values, and the messages for them.                           *)
(***************************************************************************)
\* The plaintext values plus the masks.
Masked(t, i) == [w \in Wires |-> (Plain[i][w] + SPMask[t][w]) % Modulus]

\* p's share of communicating gate w when everything is right.
ShareFor(p, w, t) == IF p = Gate(w).rider_id THEN SPShare1[t] ELSE SPShare2[t]
ProductFor(p, w, t) ==
    IF p = Gate(w).rider_id THEN SPDrawn(t, p, w, "prod") ELSE SPProd2[t][w]
\* p's message for gate w, when its shares and masked operands are right.
QRight(p, w, t, i) ==
    LET s == ShareFor(p, w, t)
        v == Masked(t, i)
    IN  (s[w] + ProductFor(p, w, t) - Dot(Gate(w), s, v) - Dot(Gate(w), v, s)
         + (IF p = Gate(w).rider_id THEN Dot(Gate(w), v, v) ELSE 0)) % Modulus

\* The masked values are residues.
LEMMA MaskedField ==
    ASSUME NEW t \in Tapes, NEW i \in Inputs
    PROVE  /\ Masked(t, i) \in [Wires -> Field]
           /\ \A w \in Wires : /\ Masked(t, i)[w] = (Plain[i][w] + SPMask[t][w]) % Modulus
                               /\ Plain[i][w] \in Int /\ SPMask[t][w] \in Int
<1>1. \A w \in Wires : Plain[i][w] \in Int /\ SPMask[t][w] \in Int
  BY PlainOf, SPMaskOf, Residue
<1>2. \A w \in Wires : Plain[i][w] + SPMask[t][w] \in Int
  BY <1>1
<1> QED
  BY <1>1, <1>2, Residue DEF Masked

\* The masked value of an input is what its provider sends.
LEMMA InputMasked ==
    ASSUME NEW t \in Tapes, NEW i \in Inputs, NEW w \in Wires, Gate(w).type = "kInp"
    PROVE  Masked(t, i)[w] = (SPMask[t][w] + i[w]) % Modulus
<1>1. Masked(t, i)[w] = (Plain[i][w] + SPMask[t][w]) % Modulus /\ SPMask[t][w] \in Int
  BY MaskedField
<1>2. Plain[i][w] = GateValue(Gate(w), w, Plain[i], i)
  BY PlainOf
<1>3. GateValue(Gate(w), w, Plain[i], i) = i[w] % Modulus
  BY DEF GateValue, Communicating
<1>4. i[w] \in Int
  BY InputAssumption
<1> DEFINE a == i[w]
           m == SPMask[t][w]
<1>5. ((a % Modulus) + m) % Modulus = (a + m) % Modulus
  BY <1>1, <1>4, ModulusAssumption, ModAbsorbs
<1>6. a + m = m + a
  BY <1>1, <1>4
<1> QED
  BY <1>1, <1>2, <1>3, <1>5, <1>6

\* A linear gate on masked values gives the masked value.
LEMMA LinearStaysMasked ==
    ASSUME NEW t \in Tapes, NEW i \in Inputs, NEW w \in Wires, ~ Basic(w), NEW inp
    PROVE  GateValue(Gate(w), w, Masked(t, i), inp) = Masked(t, i)[w]
<1> DEFINE g == Gate(w)
           x == Plain[i]
           m == SPMask[t]
           v == Masked(t, i)
<1>1. LinearOn(g, Wires) /\ g.type \in LinearTypes
  BY WiresClosed, LinearGate
<1>2. \A k \in Wires : x[k] \in Int /\ m[k] \in Int /\ v[k] = (x[k] + m[k]) % Modulus
  BY MaskedField
<1>3. m[w] = LinearMask(g, m)
  BY SPMaskOf
<1>4. x[w] = GateValue(g, w, x, i)
  BY PlainOf
<1>5. GateValue(g, w, x, i) = GateValue(g, w, x, inp)
  BY <1>1, LinearUnfold
<1> HIDE DEF g, x, m, v
<1>6. GateValue(g, w, v, inp) = (GateValue(g, w, x, inp) + LinearMask(g, m)) % Modulus
  BY <1>1, <1>2, LinearMasked
<1> QED
  BY <1>2, <1>3, <1>4, <1>5, <1>6 DEF g, v

\* The messages of rider and driver for a product add up to its masked value.
LEMMA MessagesMask ==
    ASSUME NEW t \in Tapes, NEW i \in Inputs, NEW w \in Products
    PROVE  (QRight(Gate(w).rider_id, w, t, i) + QRight(Gate(w).driver_id, w, t, i)) % Modulus
               = Masked(t, i)[w]
<1> DEFINE g == Gate(w)
           W == Reads(g)
           r == g.rider_id
           d == g.driver_id
           R == SPShare1[t]
           D == SPShare2[t]
           m == SPMask[t]
           x == Plain[i]
           v == Masked(t, i)
           pr == SPDrawn(t, r, w, "prod")
           pd == SPProd2[t][w]
           mm == Dot(g, m, m)
           rv == Dot(g, R, v)
           du == Dot(g, D, v)
           vr == Dot(g, v, R)
           ud == Dot(g, v, D)
           vv == Dot(g, v, v)
           xx == Dot(g, x, x)
<1>1. w \in Wires
  BY DEF Products
<1>2. r # d
  BY <1>1, Owners
<1>3. Operands(g, W) /\ W \subseteq Wires /\ g.type \in Communicating
  BY <1>1, WiresClosed, ProductGate
<1>4. /\ QRight(r, w, t, i) = (R[w] + pr - rv - vr + vv) % Modulus
      /\ QRight(d, w, t, i) = (D[w] + pd - du - ud + 0) % Modulus
  BY <1>2 DEF QRight, ShareFor, ProductFor
<1>5. \A k \in Wires : /\ x[k] \in Int /\ m[k] \in Int /\ R[k] \in Int /\ D[k] \in Int
                       /\ v[k] \in Int /\ v[k] = v[k]
                       /\ Cong(Modulus, R[k] + D[k], m[k]) /\ Cong(Modulus, v[k], x[k] + m[k])
  <2> SUFFICES ASSUME NEW k \in Wires
               PROVE  /\ x[k] \in Int /\ m[k] \in Int /\ R[k] \in Int /\ D[k] \in Int
                      /\ v[k] \in Int /\ v[k] = v[k]
                      /\ Cong(Modulus, R[k] + D[k], m[k]) /\ Cong(Modulus, v[k], x[k] + m[k])
    OBVIOUS
  <2>1. x[k] \in Int /\ m[k] \in Int /\ v[k] = (x[k] + m[k]) % Modulus
    BY MaskedField
  <2>2. R[k] \in Int /\ D[k] \in Int
    BY SPShare1Solves, SPShare2Solves, Residue
  <2>3. m[k] = (R[k] + D[k]) % Modulus
    BY SPMaskOf
  <2> HIDE DEF x, m, v, R, D
  <2>4. x[k] + m[k] \in Int /\ R[k] + D[k] \in Int
    BY <2>1, <2>2
  <2>5. v[k] \in Int /\ Cong(Modulus, v[k], x[k] + m[k])
    BY <2>1, <2>4, ModulusAssumption, ModRange
  <2>6. Cong(Modulus, R[k] + D[k], m[k])
    BY <2>3, <2>4, ModulusAssumption, ModRange
  <2> QED
    BY <2>1, <2>2, <2>5, <2>6
<1>6. /\ mm \in Int /\ rv \in Int /\ du \in Int /\ vr \in Int /\ ud \in Int /\ vv \in Int
      /\ xx \in Int
      /\ Cong(Modulus, mm - rv - du - vr - ud + vv, xx)
  <2> DEFINE u == v
  <2>1. \A k \in W : /\ x[k] \in Int /\ m[k] \in Int /\ R[k] \in Int /\ D[k] \in Int
                     /\ v[k] \in Int /\ u[k] = v[k]
                     /\ Cong(Modulus, R[k] + D[k], m[k]) /\ Cong(Modulus, v[k], x[k] + m[k])
    BY <1>3, <1>5
  <2>2. Operands(g, W) /\ Modulus \in Nat \ {0}
    BY <1>3, ModulusAssumption
  <2>3. u = v
    OBVIOUS
  <2> HIDE DEF g, W, R, D, m, x, v, u
  <2>4. /\ Dot(g, m, m) \in Int /\ Dot(g, R, v) \in Int /\ Dot(g, D, u) \in Int
        /\ Dot(g, v, R) \in Int /\ Dot(g, u, D) \in Int /\ Dot(g, v, v) \in Int
        /\ Dot(g, x, x) \in Int
        /\ Cong(Modulus, Dot(g, m, m) - Dot(g, R, v) - Dot(g, D, u)
                           - Dot(g, v, R) - Dot(g, u, D) + Dot(g, v, v), Dot(g, x, x))
    BY ONLY <2>1, <2>2, DotsCancel
  <2> QED
    BY <2>3, <2>4
<1>7. pr \in Int /\ pd \in Int /\ Cong(Modulus, pr + pd, mm)
  <2>1. pr \in Field /\ pd \in Field /\ Cong(Modulus, pr + pd, mm)
    BY SPProductShares
  <2> HIDE DEF pr, pd
  <2> QED
    BY <2>1, Residue
<1>8. R[w] \in Int /\ D[w] \in Int /\ m[w] \in Int /\ Cong(Modulus, R[w] + D[w], m[w])
  BY <1>1, <1>5
<1>9. x[w] = xx % Modulus
  <2>1. x[w] = GateValue(g, w, x, i)
    BY <1>1, PlainOf
  <2>2. GateValue(g, w, x, i) = xx % Modulus
    BY <1>3 DEF GateValue, Communicating
  <2> QED
    BY <2>1, <2>2
<1>10. v[w] = (x[w] + m[w]) % Modulus
  BY <1>1, MaskedField
<1> DEFINE rw == R[w]
           dw == D[w]
           mw == m[w]
<1> HIDE DEF R, D, m, x, v, pr, pd, mm, rv, du, vr, ud, vv, xx
<1>11. MessageParts(rw, dw, mw, pr, pd, mm, rv, du, vr, ud, vv, xx)
  BY <1>6, <1>7, <1>8 DEF MessageParts
<1> HIDE DEF rw, dw, mw
<1>12. (((rw + pr - rv - vr + vv) % Modulus) + ((dw + pd - du - ud + 0) % Modulus)) % Modulus
           = ((xx % Modulus) + mw) % Modulus
  BY <1>11, MessagesAdd
<1>13. (QRight(r, w, t, i) + QRight(d, w, t, i)) % Modulus = v[w]
  BY <1>4, <1>9, <1>10, <1>12 DEF rw, dw, mw
<1> QED
  BY <1>13 DEF v

\* The shares sent for a product are residues.
LEMMA QRightField ==
    ASSUME NEW t \in Tapes, NEW i \in Inputs, NEW w \in Products, NEW p
    PROVE  QRight(p, w, t, i) \in Field
<1> DEFINE g == Gate(w)
           W == Reads(g)
           s == ShareFor(p, w, t)
           c == ProductFor(p, w, t)
           v == Masked(t, i)
<1>1. w \in Wires
  BY DEF Products
<1>2. Operands(g, W) /\ W \subseteq Wires
  BY <1>1, WiresClosed, ProductGate
<1>3. \A k \in Wires : s[k] \in Int /\ v[k] \in Int
  BY SPShare1Solves, SPShare2Solves, MaskedField, Residue DEF ShareFor
<1>4. c \in Int
  BY SPProductShares, Residue DEF ProductFor
<1>5. QRight(p, w, t, i) = (s[w] + c - Dot(g, s, v) - Dot(g, v, s)
                           + (IF p = g.rider_id THEN Dot(g, v, v) ELSE 0)) % Modulus
  BY DEF QRight
<1> HIDE DEF g, W, s, c, v
<1>6. Dot(g, s, v) \in Int /\ Dot(g, v, s) \in Int /\ Dot(g, v, v) \in Int
  BY <1>2, <1>3, DotSame
<1>7. s[w] + c - Dot(g, s, v) - Dot(g, v, s) + (IF p = g.rider_id THEN Dot(g, v, v) ELSE 0) \in Int
  BY <1>1, <1>3, <1>4, <1>6
<1> QED
  BY <1>5, <1>7, Residue

\* Party p sends the right share of a product if its preprocessing is right and its operands'
\* masked values are.
LEMMA QShareRight ==
    ASSUME NEW t \in Tapes, NEW i \in Inputs, NEW p \in Peers, NEW w \in Products, w \in OwnWires[p],
           MasksRight(p, t, pre[p]), \A k \in Reads(Gate(w)) : wires[p][k] = Masked(t, i)[k]
    PROVE  QShare(p, w) = QRight(p, w, t, i)
<1> DEFINE g == Gate(w)
           W == Reads(g)
           m == pre[p].mask
           s == ShareFor(p, w, t)
           u == wires[p]
           v == Masked(t, i)
<1>1. Closed(OwnWires[p]) /\ OwnWires[p] \subseteq Wires
  BY OwnWiresOf
<1>2. Operands(g, W) /\ W \subseteq OwnWires[p]
  BY <1>1, ProductGate
<1>3. \A k \in W : Gate(k).rider_id = g.rider_id
  BY <1>1, OperandAssumption
<1>4. \A k \in OwnWires[p] : SPShare1[t][k] \in Int /\ SPShare2[t][k] \in Int /\ v[k] \in Int
  BY <1>1, SPShare1Solves, SPShare2Solves, MaskedField, Residue
<1>5. \A k \in W : m[k] = s[k]
  BY <1>2, <1>3 DEF MasksRight, ShareFor
<1>6. m[w] = s[w] /\ pre[p].prod[w] = ProductFor(p, w, t)
  BY DEF MasksRight, ShareFor, ProductFor
<1>7. \A k \in W : /\ s[k] \in Int /\ v[k] \in Int /\ m[k] = s[k] /\ u[k] = v[k]
  BY <1>2, <1>4, <1>5 DEF ShareFor
<1>8. QShare(p, w) = (m[w] + pre[p].prod[w] - Dot(g, m, u) - Dot(g, u, m)
                      + (IF p = g.rider_id THEN Dot(g, u, u) ELSE 0)) % Modulus
  BY DEF QShare
<1>9. QRight(p, w, t, i) = (s[w] + ProductFor(p, w, t) - Dot(g, s, v) - Dot(g, v, s)
                           + (IF p = g.rider_id THEN Dot(g, v, v) ELSE 0)) % Modulus
  BY DEF QRight
<1> HIDE DEF g, W, m, s, u, v
<1>10. Dot(g, s, v) = Dot(g, m, u)
  BY <1>2, <1>7, DotSame
<1>11. Dot(g, v, s) = Dot(g, u, m)
  BY <1>2, <1>7, DotSame
<1>12. Dot(g, v, v) = Dot(g, u, u)
  BY <1>2, <1>7, DotSame
<1> QED
  BY <1>6, <1>8, <1>9, <1>10, <1>11, <1>12

\* The level of a wire.
Lev(w) == GateLevel(circ.gates)[w]

\* The levels of the wires: those a gate reads are not above it, and below a product; inputs
\* are at level 0.
LEMMA LevelOfWire ==
    ASSUME NEW w \in Wires
    PROVE  /\ Lev(w) \in Nat /\ Lev(w) + 1 \in 1 .. Len(Levels)
           /\ Gate(w).type = "kInp" => Lev(w) = 0
           /\ \A v \in Reads(Gate(w)) : /\ v \in Wires /\ v < w /\ Lev(v) <= Lev(w)
                                        /\ w \in Products => Lev(v) < Lev(w)
<1>1. Acyclic(circ.gates) /\ Wires = 1 .. Len(circ.gates)
  BY TheCircuit
<1>2. /\ Lev(w) \in 0 .. w
      /\ \A v \in Reads(Gate(w)) :
            /\ v \in 1 .. w - 1 /\ Lev(v) <= Lev(w)
            /\ Gate(w).type \in Communicating => Lev(v) < Lev(w)
      /\ Reads(Gate(w)) = {} /\ Gate(w).type \notin Communicating => Lev(w) = 0
  BY <1>1, LevelUnfold DEF Lev, Gate
<1>3. Lev(w) + 1 \in 1 .. Len(Levels)
  BY <1>1, LevelLists DEF Lev, Levels
<1>4. Gate(w).type = "kInp" => Reads(Gate(w)) = {} /\ Gate(w).type \notin Communicating
  BY OperandAssumption DEF Communicating
<1>5. \A v \in Reads(Gate(w)) : v \in Wires
  BY WiresClosed DEF Closed
<1>6. w \in Products => Gate(w).type \in Communicating
  BY DEF Products
<1>7. Lev(w) \in Nat
  BY <1>1, <1>2
<1>8. \A v \in 1 .. w - 1 : v < w
  BY <1>1
<1> QED
  BY <1>2, <1>3, <1>4, <1>5, <1>6, <1>7, <1>8

\* The lists of a level, and what is evaluated after it.
LEMMA LevelParts ==
    ASSUME NEW l \in 1 .. Len(Levels)
    PROVE  /\ Levels[l] \in Seq(Wires) /\ Elements(Levels[l]) = {w \in Wires : Lev(w) = l - 1}
           /\ \A p \in Peers : Until[l][p] = {w \in OwnWires[p] : Lev(w) < l}
<1>1. Acyclic(circ.gates) /\ Wires = 1 .. Len(circ.gates) /\ DOMAIN Levels = 1 .. Len(Levels)
      /\ Len(Levels) \in Nat /\ \A k \in 1 .. Len(Levels) : Levels[k] \in Seq(Wires)
  BY TheCircuit, LevelsType
<1>2. \A k \in 1 .. Len(Levels) : Elements(Levels[k]) = {w \in Wires : Lev(w) = k - 1}
  BY <1>1, LevelLists DEF Lev, Levels
<1>3. \A k \in 1 .. Len(Levels) : Range(Levels[k]) = Elements(Levels[k])
  BY <1>1 DEF Range, Elements
<1>4. ASSUME NEW p \in Peers
      PROVE  Until[l][p] = {w \in OwnWires[p] : Lev(w) < l}
  <2>1. Until[l][p] = {w \in OwnWires[p] : \E k \in 1 .. l : w \in Range(Levels[k])}
    BY <1>1 DEF Until
  <2>2. OwnWires[p] \subseteq Wires
    BY OwnWiresOf
  <2>3. ASSUME NEW w \in OwnWires[p]
        PROVE  (\E k \in 1 .. l : w \in Range(Levels[k])) <=> Lev(w) < l
    <3>1. w \in Wires /\ Lev(w) \in Nat /\ Lev(w) + 1 \in 1 .. Len(Levels)
      BY <2>2, LevelOfWire
    <3>2. \A k \in 1 .. l : w \in Range(Levels[k]) <=> Lev(w) = k - 1
      BY <1>1, <1>2, <1>3, <3>1
    <3>3. Lev(w) < l => Lev(w) + 1 \in 1 .. l /\ Lev(w) = (Lev(w) + 1) - 1
      BY <3>1
    <3>4. \A k \in 1 .. l : Lev(w) = k - 1 => Lev(w) < l
      BY <3>1
    <3> QED
      BY <3>2, <3>3, <3>4
  <2> QED
    BY <2>1, <2>3
<1> QED
  BY <1>1, <1>2, <1>4

\* The products two parties talk for on a level.
LEMMA LevelProducts ==
    ASSUME NEW l \in 1 .. Len(Levels), NEW p \in Peers, NEW q \in Peers
    PROVE  /\ LevelWires[l][p][q] \in Seq(Wires)
           /\ Elements(LevelWires[l][p][q])
                 = {w \in Wires : w \in Products /\ Lev(w) = l - 1 /\ Between(p, q, w)}
<1> DEFINE a == Pick(Levels[l], PairWires(p, q, "kMul"))
           b == Pick(Levels[l], PairWires(p, q, "kDotprod"))
           E == {w \in Wires : Lev(w) = l - 1}
<1>1. LevelWires[l][p][q] = a \o b
  BY LevelsType DEF LevelWires
<1>2. Levels[l] \in Seq(Wires) /\ Elements(Levels[l]) = E
  BY LevelParts
<1>3. a \in Seq(Wires) /\ Elements(a) = E \cap PairWires(p, q, "kMul")
  BY <1>2, PickProperties
<1>4. b \in Seq(Wires) /\ Elements(b) = E \cap PairWires(p, q, "kDotprod")
  BY <1>2, PickProperties
<1> HIDE DEF a, b
<1>5. a \o b \in Seq(Wires) /\ Elements(a \o b) = Elements(a) \cup Elements(b)
  BY <1>3, <1>4, JoinSorted
<1>6. /\ PairWires(p, q, "kMul") = {w \in Wires : Gate(w).type = "kMul" /\ Between(p, q, w)}
      /\ PairWires(p, q, "kDotprod") = {w \in Wires : Gate(w).type = "kDotprod" /\ Between(p, q, w)}
  BY DEF PairWires
<1>7. \A w \in Wires : w \in Products <=> Gate(w).type = "kMul" \/ Gate(w).type = "kDotprod"
  BY DEF Products, Communicating
<1> QED
  BY <1>1, <1>3, <1>4, <1>5, <1>6, <1>7
-----------------------------------------------------------------------------
\* What p holds and has read when it comes to the end of level l.
LevelReady(p, l, t, i) ==
    /\ MasksRight(p, t, pre[p])
    /\ \A w \in DOMAIN wires[p] : wires[p][w] = Masked(t, i)[w]
    /\ \A w \in Until[l][p] :
          /\ Lev(w) < l - 1 \/ Gate(w).type = "kInp" => w \in DOMAIN wires[p]
          /\ w \in Products /\ Lev(w) = l - 1 =>
                LET q == PeerOf(p, w)
                IN  buf[p][q][Position(LevelWires[l][p][q], w)] = QRight(q, w, t, i)

\* evaluateGatesAtDepthPartyRecv gives every gate of the level its masked value.
LEMMA AfterLevelRight ==
    ASSUME NEW t \in Tapes, NEW i \in Inputs, NEW p \in Peers, NEW l \in 1 .. Len(Levels),
           LevelReady(p, l, t, i)
    PROVE  AfterLevel(p, l) = [w \in Until[l][p] |-> Masked(t, i)[w]]
<1> DEFINE U == Until[l][p]
           v == Masked(t, i)
           received(w) == buf[p][PeerOf(p, w)][Position(LevelWires[l][p][PeerOf(p, w)], w)]
           Of(w, f) == IF w \in DOMAIN wires[p] THEN wires[p][w]
                       ELSE IF w \in Products THEN (QShare(p, w) + received(w)) % Modulus
                       ELSE GateValue(Gate(w), w, f, inputs)
           P(f) == f = [w \in U |-> Of(w, f)]
           S == CHOOSE f : P(f)
           h == [w \in U |-> v[w]]
<1>1. AfterLevel(p, l) = [w \in U |-> S[w]]
  BY DEF AfterLevel
<1>2. U = {w \in OwnWires[p] : Lev(w) < l} /\ OwnWires[p] \subseteq Wires /\ Closed(OwnWires[p])
  BY LevelParts, OwnWiresOf
<1>3. ASSUME NEW w \in U, NEW k \in Reads(Gate(w))
      PROVE  k \in U /\ k < w /\ (w \in Products => Lev(k) < l - 1)
  <2>1. w \in Wires /\ Lev(w) \in Nat /\ k \in OwnWires[p] /\ k \in Wires /\ Lev(k) \in Nat
    BY <1>2, LevelOfWire DEF Closed
  <2>2. k < w /\ Lev(k) <= Lev(w) /\ (w \in Products => Lev(k) < Lev(w))
    BY <2>1, LevelOfWire
  <2>3. Lev(w) < l
    BY <1>2
  <2> QED
    BY <1>2, <2>1, <2>2, <2>3
<1>4. ASSUME NEW w \in U, w \in Products, w \notin DOMAIN wires[p]
      PROVE  (QShare(p, w) + received(w)) % Modulus = v[w]
  <2> DEFINE q == PeerOf(p, w)
             r == Gate(w).rider_id
             d == Gate(w).driver_id
  <2>1. w \in OwnWires[p] /\ w \in Wires /\ Lev(w) < l /\ Lev(w) \in Nat
    BY <1>2, LevelOfWire
  <2>2. Lev(w) = l - 1
    BY <1>4, <2>1 DEF LevelReady
  <2>3. received(w) = QRight(q, w, t, i)
    BY <1>4, <2>2 DEF LevelReady
  <2>4. \A k \in Reads(Gate(w)) : wires[p][k] = v[k]
    <3> SUFFICES ASSUME NEW k \in Reads(Gate(w))
                 PROVE  wires[p][k] = v[k]
      OBVIOUS
    <3>1. k \in U /\ Lev(k) < l - 1
      BY <1>3, <1>4
    <3>2. k \in DOMAIN wires[p]
      BY <3>1 DEF LevelReady
    <3> QED
      BY <3>2 DEF LevelReady
  <2>5. QShare(p, w) = QRight(p, w, t, i)
    BY <1>4, <2>1, <2>4, QShareRight DEF LevelReady
  <2>6. (QRight(r, w, t, i) + QRight(d, w, t, i)) % Modulus = v[w]
    BY <1>4, MessagesMask
  <2>7. r # d /\ (p = r \/ p = d)
    BY <2>1, OwnWiresOf, Owners
  <2>8. QRight(r, w, t, i) \in Int /\ QRight(d, w, t, i) \in Int
    BY <1>4, QRightField, Residue
  <2>9. QRight(r, w, t, i) + QRight(d, w, t, i) = QRight(d, w, t, i) + QRight(r, w, t, i)
    BY <2>8
  <2>10. (p = r /\ q = d) \/ (p = d /\ q = r)
    <3>1. (p = r => q = d) /\ (p # r => q = r)
      BY DEF PeerOf
    <3> HIDE DEF q, r, d
    <3> QED
      BY <2>7, <3>1
  <2> HIDE DEF q, r, d, received
  <2> QED
    BY <2>3, <2>5, <2>6, <2>9, <2>10
<1>5. ASSUME NEW w \in U, NEW f, \A k \in U : k < w => f[k] = v[k]
      PROVE  Of(w, f) = v[w]
  <2>1. CASE w \in DOMAIN wires[p]
    BY <2>1 DEF LevelReady
  <2>2. CASE w \notin DOMAIN wires[p] /\ w \in Products
    <3>1. Of(w, f) = (QShare(p, w) + received(w)) % Modulus
      BY <2>2
    <3> HIDE DEF received, Of
    <3> QED
      BY <1>4, <2>2, <3>1
  <2>3. CASE w \notin DOMAIN wires[p] /\ w \notin Products
    <3>1. Of(w, f) = GateValue(Gate(w), w, f, inputs)
      BY <2>3
    <3>2. w \in Wires /\ HasOperands(Gate(w)) /\ ~ Basic(w)
      BY <1>2, <2>3, CircuitAssumption DEF LevelReady, Basic
    <3>3. \A k \in Reads(Gate(w)) : f[k] = v[k]
      BY <1>3, <1>5
    <3>4. GateValue(Gate(w), w, f, inputs) = GateValue(Gate(w), w, v, inputs)
      BY <3>2, <3>3, ValueOfReads
    <3>5. GateValue(Gate(w), w, v, inputs) = v[w]
      BY <3>2, LinearStaysMasked
    <3> QED
      BY <3>1, <3>4, <3>5
  <2> QED
    BY <2>1, <2>2, <2>3
<1> HIDE DEF Of, v
<1>6. P(h)
  <2>1. \A w \in U : Of(w, h) = v[w]
    BY <1>5
  <2> QED
    BY <2>1
<1>7. P(S)
  <2> HIDE DEF P, h
  <2> QED
    BY <1>6, Zenon
<1> HIDE DEF S
<1>8. \A w \in U : S[w] = v[w]
  <2> DEFINE T == {w \in U : S[w] = v[w]}
  <2>1. U \in SUBSET Nat
    BY <1>2, TheCircuit
  <2>2. ASSUME NEW w \in U, \A k \in U : k < w => k \in T
        PROVE  w \in T
    <3>1. \A k \in U : k < w => S[k] = v[k]
      BY <2>2
    <3>2. Of(w, S) = v[w]
      BY <1>5, <3>1
    <3>3. S[w] = Of(w, S)
      BY <1>7
    <3> QED
      BY <3>2, <3>3
  <2> HIDE DEF T
  <2>3. U \subseteq T
    BY <2>1, <2>2, StrongInduction
  <2> QED
    BY <2>3 DEF T
<1> QED
  BY <1>1, <1>8 DEF v
-----------------------------------------------------------------------------
(***************************************************************************)
(* What a party has at a place in its script, which the steps before it    *)
(* decide: a round's number, whether its preprocessing is there (pre = 1), *)
(* the wires known, the last array read from each party, and how many      *)
(* outputs were read.  Has is the type of such a description, After what a *)
(* step makes of it, and Allowed says what a step needs.  Runs(p, M, A, s, *)
(* B): from every description in A the steps s of p, mapped by M, need     *)
(* nothing that is not there and lead into B.                              *)
(***************************************************************************)
\* No array read yet, and the one that reading in step x gives.
NoArray == [what |-> "", ws |-> Nil]
Array(x) == [what |-> x.what, ws |-> x.ws]
\* The descriptions, and that of a party that has done nothing.
Has == [round : Nat, pre : 0 .. 1, known : SUBSET Nat,
        got : [Party -> [what : Whats, ws : Seq(Nat)]], read : Nat]
Nothing == [round |-> 0, pre |-> 0, known |-> {}, got |-> [q \in Party |-> NoArray], read |-> 0]

\* x sends a `what'; x ends a level, setting its wires.
Sends(x, what) == x.op = "send" /\ x.what = what
EndsLevel(x) == x.op = "local" /\ x.what = "level"

\* What p has after step x, if it had g.
After(p, g, x) ==
    IF x.what = "start"
    THEN [round |-> x.round, pre |-> IF p \in Net!Driver THEN 0 ELSE 1, known |-> {},
          got |-> [q \in Party |-> NoArray], read |-> 0]
    ELSE [round |-> g.round,
          pre   |-> IF Wait(x, "preproc") THEN 1 ELSE g.pre,
          known |-> IF x.what = "input" THEN g.known \cup {x.ws[1]}
                    ELSE IF EndsLevel(x) THEN Until[x.peer][p] ELSE g.known,
          got   |-> [q \in Party |-> IF x.op = "recv" /\ q = x.peer THEN Array(x) ELSE g.got[q]],
          read  |-> IF Wait(x, "output") THEN g.read + 1 ELSE g.read]

\* Rounds follow each other, and a driver is sent its preprocessing by who has it.
RoundAllowed(g, x) ==
    /\ x.round = IF x.what = "start" THEN g.round + 1 ELSE g.round
    /\ x.what = "start" => x.op = "local"
    /\ x.op = "flush" => x.what = ""
    /\ Sends(x, "preproc") => g.pre = 1 /\ x.peer \in Net!Driver /\ x.ws = PreprocWires(x.peer)
\* An input's masked value is sent and set by its owners, who have the mask's shares.
InputAllowed(p, g, x) ==
    x.what = "input" =>
        /\ Moves(x) /\ g.pre = 1 /\ p \in Peers
        /\ \E w \in OwnWires[p] : /\ Gate(w).type = "kInp" /\ x.ws = One(w)
                                  /\ x.op = "send" => input_pid[w] = p
\* What p sets at the end of level l it can compute: from known wires, or from the array
\* of the gate's other owner.
LevelArrays(p, g, l) ==
    \A w \in Until[l][p] :
        /\ Lev(w) < l - 1 \/ Gate(w).type = "kInp" => w \in g.known
        /\ w \in Products /\ Lev(w) = l - 1 =>
              g.got[PeerOf(p, w)] = [what |-> "level", ws |-> LevelWires[l][p][PeerOf(p, w)]]
\* A level's messages are computed from known operands; it ends with all arrays read.
LevelAllowed(p, g, x) ==
    /\ Sends(x, "level") =>
          /\ g.pre = 1 /\ p \in Peers /\ x.peer \in Peers
          /\ \E l \in 1 .. Len(Levels) : x.ws = LevelWires[l][p][x.peer]
          /\ \A w \in Elements(x.ws) : Reads(Gate(w)) \subseteq g.known
    /\ EndsLevel(x) => /\ g.pre = 1 /\ p \in Peers /\ x.peer \in 1 .. Len(Levels)
                       /\ g.known \subseteq Until[x.peer][p] /\ LevelArrays(p, g, x.peer)
\* Outputs are sent of known wires, and read by the SP in their order.
OutputAllowed(p, g, x) ==
    /\ Sends(x, "output") => \E w \in g.known : x.ws = One(w)
    /\ Wait(x, "output") => /\ Mode = "Distance" /\ p = 0 /\ g.pre = 1 /\ g.read < Len(circ.outputs)
                            /\ x.ws = One(circ.outputs[g.read + 1])
\* Keys, the shares made of them, and the results made of the shares.
ComparisonAllowed(p, g, x) ==
    /\ Sends(x, "key") => /\ p = 0 /\ g.pre = 1 /\ x.peer \in Peers
                          /\ x.ws = MyOutputs[x.peer]
    /\ Sends(x, "share") \/ x.what = "compare" =>
          /\ p \in Peers /\ g.got[0] = [what |-> "key", ws |-> MyOutputs[p]]
          /\ Elements(MyOutputs[p]) \subseteq g.known
    /\ Sends(x, "share") => x.ws = MyOutputs[p]
    /\ x.what = "compare" => Mode = "Pair" /\ x.op = "local" /\ g.round >= 1
    /\ x.what = "match" =>
          /\ p = 0 /\ g.pre = 1 /\ Mode = "Matching" /\ x.op = "local"
          /\ \A q \in Peers : g.got[q] = [what |-> "share", ws |-> MyOutputs[q]]
\* Step x of p needs no more than g.
Allowed(p, g, x) ==
    /\ RoundAllowed(g, x) /\ InputAllowed(p, g, x) /\ LevelAllowed(p, g, x)
    /\ OutputAllowed(p, g, x) /\ ComparisonAllowed(p, g, x)

\* f is what p has along the steps s, mapped by M, each of them allowed.
OneRun(p, M, f, s, i) == Allowed(p, f[i - 1], M[s[i]]) /\ f[i] = After(p, f[i - 1], M[s[i]])
Run(p, M, f, s) == \A i \in 1 .. Len(s) : OneRun(p, M, f, s, i)
Runs(p, M, A, s, B) ==
    \A g \in A : \E f \in [0 .. Len(s) -> Has] : f[0] = g /\ Run(p, M, f, s) /\ f[Len(s)] \in B

\* No steps.
LEMMA RunsNil ==
    ASSUME NEW p, NEW M, NEW A \in SUBSET Has
    PROVE  Runs(p, M, A, Nil, A)
<1> SUFFICES ASSUME NEW g \in A
             PROVE  \E f \in [0 .. Len(Nil) -> Has] :
                        f[0] = g /\ Run(p, M, f, Nil) /\ f[Len(Nil)] \in A
  BY DEF Runs
<1> DEFINE f == [i \in 0 .. 0 |-> g]
<1>1. Len(Nil) = 0
  BY NilType
<1>2. f \in [0 .. 0 -> Has] /\ f[0] = g
  OBVIOUS
<1>3. \A i \in 1 .. 0 : OneRun(p, M, f, Nil, i)
  OBVIOUS
<1> HIDE DEF f
<1> QED
  BY <1>1, <1>2, <1>3 DEF Run

\* One step.
LEMMA RunsOne ==
    ASSUME NEW p, NEW M, NEW A \in SUBSET Has, NEW B \in SUBSET Has, NEW x,
           \A g \in A : Allowed(p, g, M[x]) /\ After(p, g, M[x]) \in B
    PROVE  Runs(p, M, A, One(x), B)
<1> SUFFICES ASSUME NEW g \in A
             PROVE  \E f \in [0 .. Len(One(x)) -> Has] :
                        f[0] = g /\ Run(p, M, f, One(x)) /\ f[Len(One(x))] \in B
  BY DEF Runs
<1> DEFINE h == After(p, g, M[x])
           f == [i \in 0 .. 1 |-> IF i = 0 THEN g ELSE h]
<1>1. Len(One(x)) = 1 /\ One(x)[1] = x
  BY DEF One
<1>2. h \in B /\ Allowed(p, g, M[x])
  OBVIOUS
<1>3. f \in [0 .. 1 -> Has] /\ f[0] = g /\ f[1] = h
  <2> HIDE DEF h
  <2> QED
    BY <1>2
<1>4. \A i \in 1 .. 1 : OneRun(p, M, f, One(x), i)
  <2>1. \A i \in 1 .. 1 : i = 1 /\ i - 1 = 0
    OBVIOUS
  <2> HIDE DEF f
  <2> QED
    BY <1>1, <1>2, <1>3, <2>1 DEF OneRun
<1> HIDE DEF f, h
<1> QED
  BY <1>1, <1>2, <1>3, <1>4 DEF Run

\* Some steps and then others.
LEMMA RunsCat ==
    ASSUME NEW p, NEW M, NEW A \in SUBSET Has, NEW B \in SUBSET Has, NEW C \in SUBSET Has,
           NEW X, NEW s \in Seq(X), NEW t \in Seq(X), Runs(p, M, A, s, B), Runs(p, M, B, t, C)
    PROVE  Runs(p, M, A, Cat(s, t), C)
<1> DEFINE c == Cat(s, t)
           m == Len(s)
           n == Len(t)
<1>1. m \in Nat /\ n \in Nat /\ Len(c) = m + n
  BY LenProperties, CatType
<1>2. (\A i \in 1 .. m : c[i] = s[i]) /\ (\A i \in m + 1 .. m + n : c[i] = t[i - m])
  BY DEF Cat
<1> SUFFICES ASSUME NEW g \in A
             PROVE  \E f \in [0 .. Len(c) -> Has] : f[0] = g /\ Run(p, M, f, c) /\ f[Len(c)] \in C
  BY DEF Runs
<1>3. PICK a \in [0 .. m -> Has] : a[0] = g /\ Run(p, M, a, s) /\ a[m] \in B
  BY DEF Runs
<1>4. PICK b \in [0 .. n -> Has] : b[0] = a[m] /\ Run(p, M, b, t) /\ b[n] \in C
  BY <1>3 DEF Runs
<1> DEFINE f == [i \in 0 .. m + n |-> IF i <= m THEN a[i] ELSE b[i - m]]
<1> HIDE DEF c, m, n
<1>5. /\ f \in [0 .. m + n -> Has] /\ f[0] = g
      /\ (\A i \in 0 .. m : f[i] = a[i]) /\ \A i \in m + 1 .. m + n : f[i] = b[i - m]
  <2>1. ASSUME NEW i \in 0 .. m + n PROVE (IF i <= m THEN a[i] ELSE b[i - m]) \in Has
    <3>1. i <= m => i \in 0 .. m
      BY <1>1
    <3>2. ~ i <= m => i - m \in 0 .. n
      BY <1>1
    <3> QED
      BY <1>3, <1>4, <3>1, <3>2
  <2>2. \A i \in m + 1 .. m + n : ~ i <= m /\ i \in 0 .. m + n
    BY <1>1
  <2>3. \A i \in 0 .. m : i <= m /\ i \in 0 .. m + n
    BY <1>1
  <2> QED
    BY <1>1, <1>3, <2>1, <2>2, <2>3
<1> HIDE DEF f
<1>6. f[m] = b[0] /\ f[m + n] \in C
  <2>1. m \in 0 .. m /\ (n = 0 => m + n = m) /\ (n # 0 => m + n \in m + 1 .. m + n /\ (m + n) - m = n)
    BY <1>1
  <2> QED
    BY <1>4, <1>5, <2>1
<1>7. ASSUME NEW i \in 1 .. m + n
      PROVE  OneRun(p, M, f, c, i)
  <2>1. CASE i \in 1 .. m
    <3>1. i \in 0 .. m /\ i - 1 \in 0 .. m
      BY <1>1, <2>1
    <3>2. OneRun(p, M, a, s, i)
      BY <1>3, <2>1 DEF Run, m
    <3> QED
      BY <1>2, <1>5, <2>1, <3>1, <3>2 DEF OneRun, m
  <2>2. CASE i \in m + 1 .. m + n
    <3> DEFINE j == i - m
    <3>1. j \in 1 .. n /\ (j = 1 => i - 1 = m /\ j - 1 = 0)
          /\ (j # 1 => i - 1 \in m + 1 .. m + n /\ (i - 1) - m = j - 1)
      BY <1>1, <2>2
    <3>2. f[i] = b[j] /\ c[i] = t[j]
      BY <1>2, <1>5, <2>2 DEF m, n
    <3>3. f[i - 1] = b[j - 1]
      <4>1. \A k \in m + 1 .. m + n : f[k] = b[k - m]
        BY <1>5
      <4> HIDE DEF j
      <4> QED
        BY <1>6, <3>1, <4>1
    <3>4. OneRun(p, M, b, t, j)
      BY <1>4, <3>1 DEF Run, n
    <3> HIDE DEF j
    <3> QED
      BY <3>2, <3>3, <3>4 DEF OneRun
  <2> QED
    BY <1>1, <2>1, <2>2
<1> QED
  BY <1>1, <1>5, <1>6, <1>7 DEF Run, c

\* A loop over the elements of s, with what holds before each in J.
LEMMA RunsEach ==
    ASSUME NEW p, NEW M, NEW X, NEW s \in Seq(X), NEW U, NEW F, Table(F, X, U),
           NEW J, \A i \in 0 .. Len(s) : J[i] \in SUBSET Has,
           \A i \in 1 .. Len(s) : Runs(p, M, J[i - 1], F[s[i]], J[i])
    PROVE  Runs(p, M, J[0], Each(s, F), J[Len(s)])
<1> DEFINE n == Len(s)
           T == {k \in Nat : k <= n => Runs(p, M, J[0], Each(Firsts(s, k), F), J[k])}
<1>0. n \in Nat
  BY LenProperties
<1>1. 0 \in T
  <2>1. Each(Firsts(s, 0), F) = Nil
    BY FirstsNone, EachNil
  <2>2. J[0] \in SUBSET Has
    BY <1>0
  <2> QED
    BY <2>1, <2>2, RunsNil
<1>2. ASSUME NEW k \in Nat, k \in T
      PROVE  k + 1 \in T
  <2> SUFFICES ASSUME k + 1 <= n
               PROVE  Runs(p, M, J[0], Each(Firsts(s, k + 1), F), J[k + 1])
    OBVIOUS
  <2> DEFINE a == Firsts(s, k)
             x == s[k + 1]
  <2>1. k < Len(s) /\ k + 1 \in 1 .. n /\ (k + 1) - 1 = k /\ k \in 0 .. n /\ k + 1 \in 0 .. n
        /\ k <= n /\ 0 \in 0 .. n
    BY <1>0
  <2>2. Firsts(s, k + 1) = Push(a, x) /\ a \in Seq(X) /\ x \in X
    BY <2>1, FirstsNext
  <2>3. Runs(p, M, J[0], Each(a, F), J[k])
    BY <1>2, <2>1
  <2>4. Runs(p, M, J[k], F[x], J[k + 1])
    BY <2>1
  <2>5. J[0] \in SUBSET Has /\ J[k] \in SUBSET Has /\ J[k + 1] \in SUBSET Has
    BY <2>1
  <2> HIDE DEF a, x
  <2>6. Each(Push(a, x), F) = Cat(Each(a, F), F[x]) /\ Each(a, F) \in Seq(U) /\ F[x] \in Seq(U)
    BY <2>2, EachPush
  <2> DEFINE y == J[0]
             z == J[k]
             v == J[k + 1]
             d == Each(a, F)
             e == F[x]
  <2>7. y \in SUBSET Has /\ z \in SUBSET Has /\ v \in SUBSET Has /\ d \in Seq(U) /\ e \in Seq(U)
        /\ Runs(p, M, y, d, z) /\ Runs(p, M, z, e, v)
    BY <2>3, <2>4, <2>5, <2>6
  <2> HIDE DEF y, z, v, d, e
  <2>8. Runs(p, M, y, Cat(d, e), v)
    BY ONLY <2>7, RunsCat
  <2> QED
    BY <2>2, <2>6, <2>8 DEF y, v, d, e
<1> HIDE DEF T
<1>3. Nat \subseteq T
  BY <1>1, <1>2, SetInduction
<1>4. n \in T /\ n <= n /\ Firsts(s, n) = s
  BY <1>0, <1>3, FirstsSplit
<1> QED
  BY <1>4 DEF T

\* The steps as they are, and as steps of round k.
Id == [x \in AnyStep |-> x]
InK(k) == [x \in AnyStep |-> Made(x, k)]

\* The steps of round k, from what was shown of the steps.
LEMMA RunsInRound ==
    ASSUME NEW p, NEW k \in Nat, NEW A \in SUBSET Has, NEW B \in SUBSET Has,
           NEW s \in Seq(AnyStep), Runs(p, InK(k), A, s, B)
    PROVE  Runs(p, Id, A, InRound(s, k), B)
<1> DEFINE u == InRound(s, k)
           n == Len(s)
<1>1. n \in Nat /\ DOMAIN s = 1 .. n /\ \A i \in 1 .. n : s[i] \in AnyStep
  BY LenProperties, ElementOfSeq
<1>2. \A i \in 1 .. n : Made(s[i], k) \in AnyStep
  BY <1>1 DEF AnyStep, Made
<1>3. Len(u) = n /\ \A i \in 1 .. n : u[i] = Made(s[i], k)
  <2> DEFINE f == [i \in 1 .. n |-> Made(s[i], k)]
  <2>1. u = f
    BY <1>1 DEF InRound, Made
  <2>2. f \in [1 .. n -> AnyStep] /\ \A i \in 1 .. n : f[i] = Made(s[i], k)
    BY <1>2
  <2> HIDE DEF f
  <2>3. Len(f) = n
    BY <1>1, <2>2, IsASeq
  <2> QED
    BY <2>1, <2>2, <2>3
<1> HIDE DEF u
<1>4. \A i \in 1 .. n : Id[u[i]] = InK(k)[s[i]]
  BY <1>1, <1>2, <1>3 DEF Id, InK
<1>5. ASSUME NEW f, Run(p, InK(k), f, s)
      PROVE  Run(p, Id, f, u)
  <2>1. \A i \in 1 .. n : OneRun(p, InK(k), f, s, i)
    BY <1>5 DEF Run
  <2> QED
    BY <1>3, <1>4, <2>1 DEF Run, OneRun
<1> QED
  BY <1>3, <1>5 DEF Runs, u
-----------------------------------------------------------------------------
(***************************************************************************)
(* The steps of a round, one kind after the other: what each needs is      *)
(* there, and what is there after it.                                      *)
(***************************************************************************)
\* A step of the script as one of round k.
LEMMA StepIs ==
    ASSUME NEW op \in Ops, NEW peer \in Nat, NEW what \in Whats, NEW ws \in Seq(Nat), NEW k \in Nat
    PROVE  LET x == InK(k)[Step(op, peer, what, ws)]
           IN  /\ x.op = op /\ x.peer = peer /\ x.what = what /\ x.ws = ws /\ x.round = k
               /\ x \in AnyStep
<1> DEFINE s == Step(op, peer, what, ws)
<1>1. /\ s.op = op /\ s.peer = peer /\ s.what = what /\ s.ws = ws /\ s \in AnyStep
      /\ Made(s, k) = [op |-> op, peer |-> peer, what |-> what, ws |-> ws, round |-> k]
  BY DEF Step, Made, AnyStep
<1>2. InK(k)[s] = Made(s, k)
  BY <1>1 DEF InK
<1>3. LET x == Made(s, k)
      IN  /\ x.op = op /\ x.peer = peer /\ x.what = what /\ x.ws = ws /\ x.round = k
          /\ x \in AnyStep
  <2> HIDE DEF s
  <2> QED
    BY <1>1 DEF AnyStep
<1> QED
  BY <1>2, <1>3

\* h is what is there after step x if there was g.
AfterIs(p, g, x, h) ==
    /\ h \in Has /\ h.round = g.round
    /\ h.pre = IF Wait(x, "preproc") THEN 1 ELSE g.pre
    /\ h.known = IF x.what = "input" THEN g.known \cup {x.ws[1]}
                 ELSE IF EndsLevel(x) THEN Until[x.peer][p] ELSE g.known
    /\ h.read = IF Wait(x, "output") THEN g.read + 1 ELSE g.read
    /\ \A q \in Party : h.got[q] = IF x.op = "recv" /\ q = x.peer THEN Array(x) ELSE g.got[q]
\* A step that starts no round.
Ordinary(p, x) ==
    /\ x \in AnyStep /\ x.what # "start"
    /\ x.what = "input" => x.ws[1] \in Nat
    /\ EndsLevel(x) => Until[x.peer][p] \subseteq Nat

\* What is there after a step other than a start.
LEMMA AfterStep ==
    ASSUME NEW p, NEW g \in Has, NEW x, Ordinary(p, x)
    PROVE  AfterIs(p, g, x, After(p, g, x))
<1>0. /\ x \in AnyStep /\ x.what # "start"
      /\ x.what = "input" => x.ws[1] \in Nat
      /\ EndsLevel(x) => Until[x.peer][p] \subseteq Nat
  BY DEF Ordinary
<1>1. /\ g.round \in Nat /\ g.pre \in 0 .. 1 /\ g.known \in SUBSET Nat /\ g.read \in Nat
      /\ g.got \in [Party -> [what : Whats, ws : Seq(Nat)]]
  BY DEF Has
<1> DEFINE R == g.round
           P == IF Wait(x, "preproc") THEN 1 ELSE g.pre
           K == IF x.what = "input" THEN g.known \cup {x.ws[1]}
                ELSE IF EndsLevel(x) THEN Until[x.peer][p] ELSE g.known
           G == [q \in Party |-> IF x.op = "recv" /\ q = x.peer THEN Array(x) ELSE g.got[q]]
           N == IF Wait(x, "output") THEN g.read + 1 ELSE g.read
<1>2. R \in Nat /\ P \in 0 .. 1 /\ N \in Nat
  BY <1>1
<1>3. K \in SUBSET Nat
  BY <1>0, <1>1
<1>4. G \in [Party -> [what : Whats, ws : Seq(Nat)]]
  <2>1. Array(x) \in [what : Whats, ws : Seq(Nat)]
    BY <1>0 DEF Array, AnyStep
  <2> QED
    BY <1>1, <2>1
<1>5. After(p, g, x) = [round |-> R, pre |-> P, known |-> K, got |-> G, read |-> N]
  BY <1>0 DEF After
<1>6. \A q \in Party : G[q] = IF x.op = "recv" /\ q = x.peer THEN Array(x) ELSE g.got[q]
  OBVIOUS
<1> HIDE DEF R, P, K, G, N
<1> QED
  BY <1>2, <1>3, <1>4, <1>5, <1>6 DEF R, P, K, N, Has, AfterIs

\* In round k: at its start, with its preprocessing and the wires K, at all.
Started(p, k) ==
    {g \in Has : /\ g.round = k /\ g.known = {} /\ g.read = 0
                 /\ g.pre = IF p \in Net!Driver THEN 0 ELSE 1}
Ready(k, K, n) == {g \in Has : g.round = k /\ g.pre = 1 /\ g.known = K /\ g.read = n}
Done(k) == {g \in Has : g.round = k}

\* A round starts.
LEMMA StartRuns ==
    ASSUME NEW p, NEW k \in Nat, k >= 1
    PROVE  Runs(p, InK(k), Done(k - 1), One(Local("start")), Started(p, k))
<1> DEFINE s == Local("start")
           x == InK(k)[s]
<1>1. /\ x.op = "local" /\ x.peer = 0 /\ x.what = "start" /\ x.ws = Nil /\ x.round = k
      /\ x \in AnyStep
  BY Literals, StepIs DEF Local, Nil
<1> HIDE DEF x
<1>2. ASSUME NEW g \in Done(k - 1)
      PROVE  Allowed(p, g, x) /\ After(p, g, x) \in Started(p, k)
  <2>1. g.round + 1 = k
    BY DEF Done, Has
  <2>2. Allowed(p, g, x)
    BY <1>1, <2>1 DEF Allowed, RoundAllowed, InputAllowed, LevelAllowed, OutputAllowed,
                      ComparisonAllowed, Sends, Wait, EndsLevel
  <2>3. NoArray \in [what : Whats, ws : Seq(Nat)]
    BY Literals DEF NoArray
  <2> DEFINE G == [q \in Party |-> NoArray]
             P == IF p \in Net!Driver THEN 0 ELSE 1
  <2>4. G \in [Party -> [what : Whats, ws : Seq(Nat)]] /\ P \in 0 .. 1
    BY <2>3
  <2>5. After(p, g, x) = [round |-> k, pre |-> P, known |-> {}, got |-> G, read |-> 0]
    BY <1>1 DEF After
  <2> HIDE DEF G, P
  <2> QED
    BY <2>2, <2>4, <2>5 DEF Started, Has, P
<1>3. Done(k - 1) \in SUBSET Has /\ Started(p, k) \in SUBSET Has
  BY DEF Done, Started
<1> DEFINE A == Done(k - 1)
           B == Started(p, k)
           M == InK(k)
<1>4. /\ A \in SUBSET Has /\ B \in SUBSET Has
      /\ \A g \in A : Allowed(p, g, M[s]) /\ After(p, g, M[s]) \in B
  BY <1>2, <1>3 DEF x
<1> HIDE DEF s, A, B, M
<1>5. Runs(p, M, A, One(s), B)
  BY <1>4, RunsOne
<1> QED
  BY <1>5 DEF s, A, B, M

\* Two steps.
LEMMA RunsTwo ==
    ASSUME NEW p, NEW M, NEW A \in SUBSET Has, NEW B \in SUBSET Has, NEW C \in SUBSET Has,
           NEW x, NEW y, Runs(p, M, A, One(x), B), Runs(p, M, B, One(y), C)
    PROVE  Runs(p, M, A, <<x, y>>, C)
<1> DEFINE X == {x, y}
           s == One(x)
           t == One(y)
<1>1. s \in Seq(X) /\ t \in Seq(X)
  BY OneType
<1>2. <<x, y>> = Cat(s, t)
  BY <1>1, TwoIsPush, PushCat
<1> HIDE DEF X, s, t
<1>3. Runs(p, M, A, Cat(s, t), C)
  BY <1>1, RunsCat DEF s, t
<1> QED
  BY <1>2, <1>3

\* Three steps.
LEMMA RunsThree ==
    ASSUME NEW p, NEW M, NEW A \in SUBSET Has, NEW B \in SUBSET Has, NEW C \in SUBSET Has,
           NEW D \in SUBSET Has, NEW x, NEW y, NEW z, Runs(p, M, A, One(x), B),
           Runs(p, M, B, One(y), C), Runs(p, M, C, One(z), D)
    PROVE  Runs(p, M, A, <<x, y, z>>, D)
<1> DEFINE X == {x, y, z}
           s == <<x, y>>
           t == One(z)
<1>1. s \in Seq(X) /\ t \in Seq(X)
  BY OneType
<1>2. <<x, y, z>> = Cat(s, t)
  BY DEF Cat, One
<1>3. Runs(p, M, A, s, C)
  BY RunsTwo
<1> HIDE DEF X, s, t
<1>4. Runs(p, M, A, Cat(s, t), D)
  BY <1>1, <1>3, RunsCat DEF t
<1> QED
  BY <1>2, <1>4

\* One step of round k.
LEMMA OneRuns ==
    ASSUME NEW p, NEW k, NEW A \in SUBSET Has, NEW B \in SUBSET Has, NEW s,
           NEW x, x = InK(k)[s], \A g \in A : Allowed(p, g, x) /\ After(p, g, x) \in B
    PROVE  Runs(p, InK(k), A, One(s), B)
<1> DEFINE M == InK(k)
<1>1. \A g \in A : Allowed(p, g, M[s]) /\ After(p, g, M[s]) \in B
  OBVIOUS
<1> HIDE DEF M
<1>2. Runs(p, M, A, One(s), B)
  BY <1>1, RunsOne
<1> QED
  BY <1>2 DEF M

\* The sets of descriptions.
LEMMA HasSets ==
    ASSUME NEW p, NEW k, NEW K, NEW n
    PROVE  Started(p, k) \in SUBSET Has /\ Ready(k, K, n) \in SUBSET Has /\ Done(k) \in SUBSET Has
BY DEF Started, Ready, Done

\* A step that changes nothing but the array read.
Quiet(x) == /\ x \in AnyStep /\ x.what # "start" /\ x.what # "input"
            /\ ~ EndsLevel(x) /\ ~ Wait(x, "output")
\* From g a quiet step x leads to h.
Stays(k, K, n, g, x, h) ==
    /\ h \in Ready(k, K, n)
    /\ \A q \in Party : h.got[q] = IF x.op = "recv" /\ q = x.peer THEN Array(x) ELSE g.got[q]

\* After such a step.
LEMMA AfterReady ==
    ASSUME NEW p, NEW k, NEW K, NEW n, NEW g \in Ready(k, K, n), NEW x, Quiet(x)
    PROVE  Stays(k, K, n, g, x, After(p, g, x))
<1>1. g \in Has /\ g.round = k /\ g.pre = 1 /\ g.known = K /\ g.read = n
  BY DEF Ready
<1> DEFINE h == After(p, g, x)
<1>2. Ordinary(p, x)
  BY DEF Ordinary, Quiet
<1>3. AfterIs(p, g, x, h)
  BY <1>1, <1>2, AfterStep
<1> HIDE DEF h
<1>4. h \in Ready(k, K, n)
  BY <1>1, <1>3 DEF Ready, AfterIs, Quiet
<1>5. \A q \in Party : h.got[q] = IF x.op = "recv" /\ q = x.peer THEN Array(x) ELSE g.got[q]
  BY <1>3 DEF AfterIs
<1> QED
  BY <1>4, <1>5 DEF h, Stays

\* A driver's reads of the preprocessing.
LEMMA AfterStarted ==
    ASSUME NEW p \in Net!Driver, NEW k, NEW g \in Started(p, k), NEW x \in AnyStep,
           x.what # "start", x.what # "input", ~ EndsLevel(x), ~ Wait(x, "output")
    PROVE  /\ Wait(x, "preproc") => After(p, g, x) \in Ready(k, {}, 0)
           /\ ~ Wait(x, "preproc") => After(p, g, x) \in Started(p, k)
<1>1. g \in Has /\ g.round = k /\ g.pre = 0 /\ g.known = {} /\ g.read = 0
  BY DEF Started
<1> DEFINE h == After(p, g, x)
<1>2. Ordinary(p, x)
  BY DEF Ordinary
<1>3. AfterIs(p, g, x, h)
  BY <1>1, <1>2, AfterStep
<1> HIDE DEF h
<1>4. /\ Wait(x, "preproc") => h \in Ready(k, {}, 0)
      /\ ~ Wait(x, "preproc") => h \in Started(p, k)
  BY <1>1, <1>3 DEF Ready, Started, AfterIs
<1> QED
  BY <1>4 DEF h

\* The lengths and the values of the preprocessing, as steps of round k.
LEMMA OfflineStepIs ==
    ASSUME NEW d \in Net!Driver, NEW op \in {"send", "recv"}, NEW q \in Nat, NEW k \in Nat
    PROVE  LET x == InK(k)[LengthsStep(op, q)]
               y == InK(k)[PreprocStep(op, q, d)]
           IN  /\ x.op = op /\ x.peer = q /\ x.what = "lengths" /\ x.round = k /\ x \in AnyStep
               /\ y.op = op /\ y.peer = q /\ y.what = "preproc" /\ y.ws = PreprocWires(d)
               /\ y.round = k /\ y \in AnyStep
<1>1. op \in Ops /\ "lengths" \in Whats /\ "preproc" \in Whats /\ Lengths \in Seq(Nat)
  BY DEF Ops, Whats, Lengths
<1>2. PreprocWires(d) \in Seq(Nat)
  BY PreprocWiresType
<1> DEFINE u == "lengths"
           v == "preproc"
           z == Lengths
           x == InK(k)[Step(op, q, u, z)]
           y == InK(k)[Step(op, q, v, PreprocWires(d))]
<1> HIDE DEF u, v, z
<1>3. u \in Whats /\ v \in Whats /\ z \in Seq(Nat)
  BY <1>1 DEF u, v, z
<1>4. x.op = op /\ x.peer = q /\ x.what = u /\ x.round = k /\ x \in AnyStep
  BY <1>1, <1>3, StepIs
<1>5. y.op = op /\ y.peer = q /\ y.what = v /\ y.ws = PreprocWires(d) /\ y.round = k /\ y \in AnyStep
  BY <1>1, <1>2, <1>3, StepIs
<1> QED
  BY <1>4, <1>5 DEF u, v, z, LengthsStep, PreprocStep

\* The SP's two sends to a driver.
LEMMA SendsRun ==
    ASSUME NEW d \in Net!Driver, NEW k \in Nat
    PROVE  Runs(0, InK(k), Ready(k, {}, 0), <<LengthsStep("send", d), PreprocStep("send", d, d)>>,
                Ready(k, {}, 0))
<1> DEFINE a == LengthsStep("send", d)
           b == PreprocStep("send", d, d)
           x == InK(k)[a]
           y == InK(k)[b]
           R == Ready(k, {}, 0)
<1>0. d \in Nat
  BY Parties
<1>1. /\ x.op = "send" /\ x.peer = d /\ x.what = "lengths" /\ x.round = k /\ x \in AnyStep
      /\ y.op = "send" /\ y.peer = d /\ y.what = "preproc" /\ y.ws = PreprocWires(d)
      /\ y.round = k /\ y \in AnyStep
  BY <1>0, OfflineStepIs
<1>2. R \in SUBSET Has /\ R = Ready(k, {}, 0)
  BY HasSets
<1> HIDE DEF a, b
<1>3. Runs(0, InK(k), R, One(a), R)
  <2> HIDE DEF x, R
  <2>1. ASSUME NEW g \in R PROVE Allowed(0, g, x) /\ After(0, g, x) \in R
    <3>1. g \in Has /\ g.round = k /\ g.pre = 1 /\ g.known = {} /\ g.read = 0
      BY <1>2 DEF Ready
    <3>2. After(0, g, x) \in R
      <4>1. Quiet(x)
        BY <1>1 DEF Quiet, Wait, EndsLevel
      <4>2. Stays(k, {}, 0, g, x, After(0, g, x))
        BY <1>2, <4>1, AfterReady
      <4> QED
        BY <1>2, <4>2 DEF Stays
    <3>3. Allowed(0, g, x)
      BY <1>1, <3>1 DEF Allowed, RoundAllowed, InputAllowed, LevelAllowed, OutputAllowed,
                        ComparisonAllowed, Sends, Wait, EndsLevel
    <3> QED
      BY <3>2, <3>3
  <2> QED
    BY <1>2, <2>1, OneRuns DEF x
<1>4. Runs(0, InK(k), R, One(b), R)
  <2> HIDE DEF y, R
  <2>1. ASSUME NEW g \in R PROVE Allowed(0, g, y) /\ After(0, g, y) \in R
    <3>1. g \in Has /\ g.round = k /\ g.pre = 1 /\ g.known = {} /\ g.read = 0
      BY <1>2 DEF Ready
    <3>2. After(0, g, y) \in R
      <4>1. Quiet(y)
        BY <1>1 DEF Quiet, Wait, EndsLevel
      <4>2. Stays(k, {}, 0, g, y, After(0, g, y))
        BY <1>2, <4>1, AfterReady
      <4> QED
        BY <1>2, <4>2 DEF Stays
    <3>3. Allowed(0, g, y)
      BY <1>1, <3>1 DEF Allowed, RoundAllowed, InputAllowed, LevelAllowed, OutputAllowed,
                        ComparisonAllowed, Sends, Wait, EndsLevel
    <3> QED
      BY <3>2, <3>3
  <2> QED
    BY <1>2, <2>1, OneRuns DEF y
<1> HIDE DEF R
<1>5. Runs(0, InK(k), R, <<a, b>>, R)
  BY <1>2, <1>3, <1>4, RunsTwo
<1> QED
  BY <1>5 DEF R, a, b

\* A driver's two reads.
LEMMA ReadsRun ==
    ASSUME NEW p \in Net!Driver, NEW k \in Nat
    PROVE  Runs(p, InK(k), Started(p, k), <<LengthsStep("recv", 0), PreprocStep("recv", 0, p)>>,
                Ready(k, {}, 0))
<1> DEFINE a == LengthsStep("recv", 0)
           b == PreprocStep("recv", 0, p)
           x == InK(k)[a]
           y == InK(k)[b]
           R == Ready(k, {}, 0)
           S == Started(p, k)
<1>1. /\ x.op = "recv" /\ x.peer = 0 /\ x.what = "lengths" /\ x.round = k /\ x \in AnyStep
      /\ y.op = "recv" /\ y.peer = 0 /\ y.what = "preproc" /\ y.ws = PreprocWires(p)
      /\ y.round = k /\ y \in AnyStep
  BY OfflineStepIs
<1>2. R \in SUBSET Has /\ S \in SUBSET Has /\ R = Ready(k, {}, 0) /\ S = Started(p, k)
  BY HasSets
<1> HIDE DEF a, b
<1>3. Runs(p, InK(k), S, One(a), S)
  <2> HIDE DEF x, S
  <2>1. ASSUME NEW g \in S PROVE Allowed(p, g, x) /\ After(p, g, x) \in S
    <3>1. g \in Has /\ g.round = k /\ g.pre = 0 /\ g.known = {} /\ g.read = 0
      BY <1>2 DEF Started
    <3>2. After(p, g, x) \in S
      BY <1>1, <1>2, AfterStarted DEF Wait, EndsLevel
    <3>3. Allowed(p, g, x)
      BY <1>1, <3>1 DEF Allowed, RoundAllowed, InputAllowed, LevelAllowed, OutputAllowed,
                        ComparisonAllowed, Sends, Wait, EndsLevel
    <3> QED
      BY <3>2, <3>3
  <2> QED
    BY <1>2, <2>1, OneRuns DEF x
<1>4. Runs(p, InK(k), S, One(b), R)
  <2> HIDE DEF y, R, S
  <2>1. ASSUME NEW g \in S PROVE Allowed(p, g, y) /\ After(p, g, y) \in R
    <3>1. g \in Has /\ g.round = k /\ g.pre = 0 /\ g.known = {} /\ g.read = 0
      BY <1>2 DEF Started
    <3>2. After(p, g, y) \in R
      BY <1>1, <1>2, AfterStarted DEF Wait, EndsLevel
    <3>3. Allowed(p, g, y)
      BY <1>1, <3>1 DEF Allowed, RoundAllowed, InputAllowed, LevelAllowed, OutputAllowed,
                        ComparisonAllowed, Sends, Wait, EndsLevel
    <3> QED
      BY <3>2, <3>3
  <2> QED
    BY <1>2, <2>1, OneRuns DEF y
<1> HIDE DEF R, S
<1>5. Runs(p, InK(k), S, <<a, b>>, R)
  BY <1>2, <1>3, <1>4, RunsTwo
<1> QED
  BY <1>5 DEF R, S, a, b

\* Preprocessing: after it everybody has theirs.
LEMMA OfflineRuns ==
    ASSUME NEW p \in Party, NEW k \in Nat
    PROVE  Runs(p, InK(k), Started(p, k), Offline(p), Ready(k, {}, 0))
<1> DEFINE R == Ready(k, {}, 0)
           S == Started(p, k)
           n == driver_count
           d(i) == rider_count + i
           A == [i \in 1 .. n |-> <<LengthsStep("send", d(i)), PreprocStep("send", d(i), d(i))>>]
<1>0. R \in SUBSET Has /\ S \in SUBSET Has
  BY HasSets
<1>1. CASE p = 0
  <2>0. 0 \notin Net!Driver
    BY Roles
  <2>1. Offline(p) = Each(UpTo(n), A)
    BY <1>1, <2>0 DEF Offline, LengthsStep, PreprocStep, Send, Lengths, PreprocWires
  <2>2. S = R
    BY <1>1, <2>0 DEF Started, Ready
  <2>3. n \in Nat /\ UpTo(n) \in Seq(1 .. n) /\ Len(UpTo(n)) = n
    BY Parties, UpToPush
  <2>4. \A i \in 1 .. n : UpTo(n)[i] = i
    BY DEF UpTo
  <2>5. ASSUME NEW i \in 1 .. n PROVE Runs(0, InK(k), R, A[i], R)
    <3>1. d(i) \in Net!Driver
      BY Parties
    <3>2. A[i] = <<LengthsStep("send", d(i)), PreprocStep("send", d(i), d(i))>>
      OBVIOUS
    <3> HIDE DEF d, A
    <3> QED
      BY <3>1, <3>2, SendsRun
  <2>6. Table(A, 1 .. n, AnyStep)
    <3>1. ASSUME NEW i \in 1 .. n PROVE A[i] \in Seq(AnyStep)
      <4>1. d(i) \in Net!Driver /\ d(i) \in Nat
        BY Parties
      <4>2. A[i] = <<LengthsStep("send", d(i)), PreprocStep("send", d(i), d(i))>>
        OBVIOUS
      <4> HIDE DEF d, A
      <4> QED
        BY <4>1, <4>2, OfflineStep
    <3> HIDE DEF A
    <3> QED
      BY <3>1 DEF Table
  <2> DEFINE J == [i \in 0 .. n |-> R]
             X == 1 .. n
             u == UpTo(n)
             M == InK(k)
  <2>7. /\ u \in Seq(X) /\ Table(A, X, AnyStep) /\ Len(u) = n
        /\ \A i \in 0 .. n : J[i] \in SUBSET Has
        /\ \A i \in 1 .. n : Runs(0, M, J[i - 1], A[u[i]], J[i])
    <3>1. \A i \in 1 .. n : i - 1 \in 0 .. n /\ i \in 0 .. n
      BY <2>3
    <3> HIDE DEF A, R
    <3> QED
      BY <1>0, <2>3, <2>4, <2>5, <2>6, <3>1
  <2>8. 0 \in 0 .. n /\ n \in 0 .. n
    BY <2>3
  <2>9. J[0] = R /\ J[n] = R
    BY <2>8
  <2> HIDE DEF J, X, u, M, A, R
  <2>10. Runs(0, M, J[0], Each(u, A), J[n])
    BY <2>7, RunsEach
  <2> QED
    BY <1>1, <2>1, <2>2, <2>9, <2>10 DEF M, u, R
<1>2. CASE p \in Net!Driver
  <2>1. p # 0
    BY <1>2, Roles
  <2>2. Offline(p) = <<LengthsStep("recv", 0), PreprocStep("recv", 0, p)>>
    BY <1>2, <2>1 DEF Offline, LengthsStep, PreprocStep, Recv, Lengths, PreprocWires
  <2> QED
    BY <1>2, <2>2, ReadsRun
<1>3. CASE p # 0 /\ p \notin Net!Driver
  <2>1. Offline(p) = Nil
    BY <1>3 DEF Offline, Nil
  <2>2. S = R
    BY <1>3 DEF Started, Ready
  <2> QED
    BY <1>0, <2>1, <2>2, RunsNil
<1> QED
  BY <1>1, <1>2, <1>3

\* The wires p knows before level l; its inputs.
Knows(p, l) == {w \in OwnWires[p] : Lev(w) < l \/ Gate(w).type = "kInp"}
OwnInputs(p) == {w \in OwnWires[p] : Gate(w).type = "kInp"}

\* The step for one input, as one of round k.
LEMMA InputStepIs ==
    ASSUME NEW p \in Peers, NEW w \in OwnInputs(p), NEW k \in Nat
    PROVE  LET x == InK(k)[InputStep(p, w)]
           IN  /\ x.op \in {"send", "recv"} /\ x.what = "input" /\ x.ws = One(w) /\ x.round = k
               /\ x \in AnyStep
               /\ x.op = "send" => input_pid[w] = p
<1>1. w \in Wires /\ w \in OwnWires[p] /\ Gate(w).type = "kInp" /\ w \in Nat
  BY TheCircuit DEF OwnInputs, OwnWires
<1>2. PeerOf(p, w) \in Nat /\ input_pid[w] \in Nat
  <2>1. input_pid[w] \in {Gate(w).rider_id, Gate(w).driver_id}
    BY <1>1, InputAssumption
  <2>2. Gate(w).rider_id \in Nat /\ Gate(w).driver_id \in Nat
    BY <1>1, Owners, Parties
  <2> QED
    BY <2>1, <2>2 DEF PeerOf
<1>3. "input" \in Whats /\ "send" \in Ops /\ "recv" \in Ops
  BY DEF Whats, Ops
<1>4. One(w) \in Seq(Nat)
  BY <1>1, OneType
<1> DEFINE ws == One(w)
           u == "input"
           a == "send"
           b == "recv"
           q == PeerOf(p, w)
           r == input_pid[w]
           x == InK(k)[Step(a, q, u, ws)]
           y == InK(k)[Step(b, r, u, ws)]
<1>5. /\ ws \in Seq(Nat) /\ u \in Whats /\ a \in Ops /\ b \in Ops /\ q \in Nat /\ r \in Nat
  BY <1>2, <1>3, <1>4
<1> HIDE DEF ws, u, a, b, q, r
<1>6. x.op = a /\ x.what = u /\ x.ws = ws /\ x.round = k /\ x \in AnyStep
  BY <1>5, StepIs
<1>7. y.op = b /\ y.what = u /\ y.ws = ws /\ y.round = k /\ y \in AnyStep
  BY <1>5, StepIs
<1>8. InputStep(p, w) = IF r = p THEN Step(a, q, u, ws) ELSE Step(b, r, u, ws)
  BY DEF InputStep, Send, Recv, a, b, q, r, u, ws
<1> HIDE DEF x, y
<1>9. a = "send" /\ b = "recv" /\ u = "input" /\ ws = One(w) /\ r = input_pid[w]
  BY DEF a, b, u, ws, r
<1>10. CASE r = p
  <2>1. InK(k)[InputStep(p, w)] = x
    BY <1>8, <1>10 DEF x
  <2> QED
    BY <1>6, <1>9, <1>10, <2>1
<1>11. CASE r # p
  <2>1. InK(k)[InputStep(p, w)] = y
    BY <1>8, <1>11 DEF y
  <2> QED
    BY <1>7, <1>9, <1>11, <2>1
<1> QED
  BY <1>10, <1>11

\* One input: its masked value is known after it.
LEMMA InputRuns ==
    ASSUME NEW p \in Peers, NEW w \in OwnInputs(p), NEW k \in Nat, NEW K \in SUBSET Nat
    PROVE  Runs(p, InK(k), Ready(k, K, 0), One(InputStep(p, w)), Ready(k, K \cup {w}, 0))
<1> DEFINE s == InputStep(p, w)
           x == InK(k)[s]
           A == Ready(k, K, 0)
           B == Ready(k, K \cup {w}, 0)
<1>1. /\ x.op \in {"send", "recv"} /\ x.what = "input" /\ x.ws = One(w) /\ x.round = k
      /\ x \in AnyStep
      /\ x.op = "send" => input_pid[w] = p
  BY InputStepIs
<1>2. A \in SUBSET Has /\ B \in SUBSET Has
  BY HasSets
<1>3. w \in OwnWires[p] /\ Gate(w).type = "kInp" /\ w \in Nat /\ One(w)[1] = w
  BY TheCircuit DEF OwnInputs, OwnWires, One
<1> HIDE DEF x, s
<1>4. ASSUME NEW g \in A PROVE Allowed(p, g, x) /\ After(p, g, x) \in B
  <2>1. g \in Has /\ g.round = k /\ g.pre = 1 /\ g.known = K /\ g.read = 0
    BY DEF Ready
  <2>2. InputAllowed(p, g, x)
    BY <1>1, <1>3, <2>1 DEF InputAllowed, Moves
  <2>3. /\ RoundAllowed(g, x) /\ LevelAllowed(p, g, x) /\ OutputAllowed(p, g, x)
        /\ ComparisonAllowed(p, g, x)
    BY <1>1, <2>1 DEF RoundAllowed, LevelAllowed, OutputAllowed,
                      ComparisonAllowed, Sends, Wait, EndsLevel
  <2>4. Ordinary(p, x)
    BY <1>1, <1>3 DEF Ordinary, EndsLevel
  <2> DEFINE h == After(p, g, x)
  <2>5. AfterIs(p, g, x, h)
    BY <2>1, <2>4, AfterStep
  <2> HIDE DEF h
  <2>6. h \in B
    BY <1>1, <1>3, <2>1, <2>5 DEF AfterIs, Ready, Wait
  <2> QED
    BY <2>2, <2>3, <2>6 DEF Allowed, h
<1> HIDE DEF A, B
<1>5. Runs(p, InK(k), A, One(s), B)
  BY <1>2, <1>4, OneRuns DEF x
<1> QED
  BY <1>5 DEF A, B, s

\* All inputs.
LEMMA InputsRun ==
    ASSUME NEW p \in Peers, NEW k \in Nat
    PROVE  Runs(p, InK(k), Ready(k, {}, 0), SetInputs(p), Ready(k, Knows(p, 0), 0))
<1> DEFINE S == OwnInputs(p)
           X == Wires \cap S
           s == Pick(Levels[1], S)
           n == Len(s)
           G == [w \in Wires |-> One(InputStep(p, w))]
           J == [i \in 0 .. n |-> Ready(k, {s[j] : j \in 1 .. i}, 0)]
           M == InK(k)
<1>1. SetInputs(p) = Each(s, G)
  <2>1. \A w : One(InputStep(p, w)) = IF input_pid[w] = p THEN <<Send(PeerOf(p, w), "input", <<w>>)>>
                                      ELSE <<Recv(input_pid[w], "input", <<w>>)>>
    BY DEF InputStep, One
  <2> QED
    BY <2>1 DEF SetInputs, OwnInputs
<1>2. S \subseteq Wires /\ X = S /\ S \subseteq Nat
  BY TheCircuit DEF OwnInputs, OwnWires
<1>3. Levels[1] \in Seq(Wires) /\ Elements(Levels[1]) = {w \in Wires : Lev(w) = 0}
  <2>1. 1 \in 1 .. Len(Levels)
    BY LevelsType
  <2>2. 1 - 1 = 0
    OBVIOUS
  <2> QED
    BY <2>1, <2>2, LevelParts
<1>4. s \in Seq(X) /\ Elements(s) = {w \in Wires : Lev(w) = 0} \cap S
  <2> DEFINE L == Levels[1]
  <2> HIDE DEF L, S
  <2>1. Pick(L, S) \in Seq(Wires \cap S)
    BY <1>3, PickInto DEF L
  <2>2. Elements(Pick(L, S)) = Elements(L) \cap S
    BY <1>3, PickProperties DEF L
  <2> QED
    BY <1>3, <2>1, <2>2 DEF L
<1>5. {w \in Wires : Lev(w) = 0} \cap S = S /\ Knows(p, 0) = S
  <2>1. \A w \in S : w \in Wires /\ Gate(w).type = "kInp" /\ w \in OwnWires[p]
    BY <1>2 DEF OwnInputs
  <2>2. \A w \in S : Lev(w) = 0
    BY <2>1, LevelOfWire
  <2>3. \A w \in OwnWires[p] : w \in Wires
    BY DEF OwnWires
  <2>4. \A w \in OwnWires[p] : ~ Lev(w) < 0
    <3>1. \A w \in OwnWires[p] : Lev(w) \in Nat
      BY <2>3, LevelOfWire
    <3> QED
      BY <3>1
  <2> QED
    BY <2>1, <2>2, <2>4 DEF Knows, OwnInputs
<1>6. n \in Nat /\ \A i \in 1 .. n : s[i] \in S
  <2> HIDE DEF s, X, S
  <2>1. \A i \in 1 .. Len(s) : s[i] \in X
    BY <1>4, ElementOfSeq
  <2> QED
    BY <1>2, <1>4, <2>1, LenProperties DEF n
<1>7. Table(G, X, AnyStep)
  <2>1. ASSUME NEW w \in X PROVE G[w] \in Seq(AnyStep)
    <3>1. w \in Wires /\ w \in OwnWires[p] /\ Gate(w).type = "kInp"
      BY <1>2 DEF OwnInputs
    <3>2. InputStep(p, w) \in AnyStep
      <4>1. p \in Party /\ 1 \in Nat
        BY Roles
      <4> QED
        BY <3>1, <4>1, InputStepMoves
    <3>3. G[w] = One(InputStep(p, w))
      BY <3>1
    <3> QED
      BY <3>2, <3>3, OneType
  <2> HIDE DEF G, X
  <2> QED
    BY <2>1 DEF Table
<1>8. ASSUME NEW i \in 1 .. n PROVE Runs(p, M, J[i - 1], G[s[i]], J[i])
  <2> DEFINE K == {s[j] : j \in 1 .. i - 1}
             w == s[i]
             L == {s[j] : j \in 1 .. i}
  <2>1. w \in S /\ K \in SUBSET Nat
    <3>1. \A j \in 1 .. i - 1 : j \in 1 .. n
      BY <1>6
    <3> QED
      BY <1>2, <1>6, <3>1
  <2>2. L = K \cup {w}
    <3>1. \A j : j \in 1 .. i <=> (j \in 1 .. i - 1 \/ j = i)
      BY <1>6
    <3> HIDE DEF s
    <3> QED
      BY <3>1
  <2>3. J[i - 1] = Ready(k, K, 0) /\ J[i] = Ready(k, L, 0)
    <3>1. i - 1 \in 0 .. n /\ i \in 0 .. n
      BY <1>6
    <3> HIDE DEF s, n
    <3> QED
      BY <3>1
  <2>4. G[w] = One(InputStep(p, w))
    BY <1>2, <2>1
  <2> HIDE DEF J, K, L, w, G, s, S
  <2>5. Runs(p, InK(k), Ready(k, K, 0), One(InputStep(p, w)), Ready(k, K \cup {w}, 0))
    BY <2>1, InputRuns DEF S
  <2> QED
    BY <2>2, <2>3, <2>4, <2>5 DEF w
<1>9. \A i \in 0 .. n : J[i] \in SUBSET Has
  BY HasSets
<1>10. J[0] = Ready(k, {}, 0) /\ J[n] = Ready(k, S, 0)
  <2>1. 0 \in 0 .. n /\ n \in 0 .. n /\ 1 .. 0 = {}
    BY <1>6
  <2>2. {s[j] : j \in 1 .. n} = S
    <3> HIDE DEF S, s
    <3> QED
      BY <1>4, <1>5 DEF Elements, n
  <2>3. {s[j] : j \in 1 .. 0} = {}
    BY <2>1
  <2>4. J[0] = Ready(k, {s[j] : j \in 1 .. 0}, 0) /\ J[n] = Ready(k, {s[j] : j \in 1 .. n}, 0)
    <3> HIDE DEF s, n
    <3> QED
      BY <2>1
  <2> QED
    BY <2>2, <2>3, <2>4
<1> HIDE DEF J, G, s, X, M
<1>11. Runs(p, M, J[0], Each(s, G), J[Len(s)])
  BY <1>4, <1>7, <1>8, <1>9, RunsEach DEF n
<1> QED
  BY <1>1, <1>5, <1>10, <1>11 DEF M, n

\* What p reads from r in level l.
LevelArray(p, l, r) == [what |-> "level", ws |-> LevelWires[l][p][r]]
\* The arrays of level l that p has read from the parties 1 .. q.
Heard(p, l, k, q) ==
    {g \in Ready(k, Knows(p, l - 1), 0) :
        \A r \in Peers : r <= q /\ LevelWires[l][p][r] # Nil => g.got[r] = LevelArray(p, l, r)}

\* The operands of the products of a level are known before it.
LEMMA OperandsKnown ==
    ASSUME NEW p \in Peers, NEW l \in 1 .. Len(Levels), NEW r \in Peers,
           NEW w \in Elements(LevelWires[l][p][r])
    PROVE  Reads(Gate(w)) \subseteq Knows(p, l - 1)
<1>1. w \in Wires /\ w \in Products /\ Lev(w) = l - 1 /\ Between(p, r, w)
  BY LevelProducts
<1>2. w \in OwnWires[p]
  BY <1>1 DEF OwnWires, Mine, Between
<1>3. Reads(Gate(w)) \subseteq OwnWires[p]
  BY <1>2, OwnWiresOf DEF Closed
<1>4. \A v \in Reads(Gate(w)) : Lev(v) < l - 1
  BY <1>1, LevelOfWire
<1> QED
  BY <1>3, <1>4 DEF Knows

\* The steps of an exchange, as steps of round k.
LEMMA LevelStepIs ==
    ASSUME NEW r \in Nat, NEW ws \in Seq(Nat), NEW op \in {"send", "recv"}, NEW k \in Nat
    PROVE  LET x == InK(k)[LevelStep(op, r, ws)]
           IN  /\ x.op = op /\ x.peer = r /\ x.what = "level" /\ x.ws = ws /\ x.round = k
               /\ x \in AnyStep
<1> DEFINE u == "level"
           x == InK(k)[Step(op, r, u, ws)]
<1>1. op \in Ops /\ u \in Whats
  BY Literals
<1> HIDE DEF u
<1>2. x.op = op /\ x.peer = r /\ x.what = u /\ x.ws = ws /\ x.round = k /\ x \in AnyStep
  BY <1>1, StepIs
<1> QED
  BY <1>2 DEF u, LevelStep

\* A flush.
LEMMA FlushIs ==
    ASSUME NEW k \in Nat
    PROVE  LET y == InK(k)[FlushStep]
           IN  y.op = "flush" /\ y.what = "" /\ y.round = k /\ y \in AnyStep
<1> DEFINE v == ""
           f == "flush"
           n == Nil
           y == InK(k)[Step(f, 0, v, n)]
<1>1. v \in Whats /\ f \in Ops /\ n \in Seq(Nat) /\ 0 \in Nat
  BY Literals
<1> HIDE DEF v, f, n
<1>3. y.op = f /\ y.what = v /\ y.round = k /\ y \in AnyStep
  BY <1>1, StepIs
<1> QED
  BY <1>3 DEF v, f, n, FlushStep

\* One exchange: the array of this party is there after it.
LEMMA ExchangeRuns ==
    ASSUME NEW p \in Peers, NEW l \in 1 .. Len(Levels), NEW k \in Nat, NEW q \in Peers
    PROVE  Runs(p, InK(k), Heard(p, l, k, q - 1), Exchange(q, LevelWires[l][p][q]), Heard(p, l, k, q))
<1> DEFINE ws == LevelWires[l][p][q]
           A == Heard(p, l, k, q - 1)
           B == Heard(p, l, k, q)
           K == Knows(p, l - 1)
           R == Ready(k, K, 0)
<1>0. q \in Nat /\ ws \in Seq(Nat) /\ Peers \subseteq Nat
  BY LevelWiresType, AllPeers
<1>1. A \in SUBSET Has /\ B \in SUBSET Has /\ A \subseteq R
  BY DEF Heard, Ready
<1>2. \A r \in Peers : r <= q <=> (r <= q - 1 \/ r = q)
  BY <1>0
<1>3. \A g \in R : g \in B <=> (g \in A /\ (ws # Nil => g.got[q] = LevelArray(p, l, q)))
  BY <1>2 DEF Heard
<1>30. \A g \in R : (\A r \in Peers : r <= q - 1 /\ LevelWires[l][p][r] # Nil
                                         => g.got[r] = LevelArray(p, l, r)) => g \in A
  BY DEF Heard
<1>31. \A g \in A : \A r \in Peers : r <= q - 1 /\ LevelWires[l][p][r] # Nil
                                         => g.got[r] = LevelArray(p, l, r)
  BY DEF Heard
<1>32. LevelArray(p, l, q) = [what |-> "level", ws |-> ws]
  BY DEF LevelArray
<1>33. \A w \in Elements(ws) : Reads(Gate(w)) \subseteq K
  BY OperandsKnown
<1>34. R = Ready(k, K, 0)
  OBVIOUS
<1>4. CASE ws = Nil
  <2>1. A = B
    <3>1. B \subseteq R
      BY DEF Heard
    <3> HIDE DEF A, B, R
    <3> QED
      BY <1>1, <1>3, <1>4, <3>1
  <2>2. Exchange(q, ws) = Nil
    BY <1>4 DEF Exchange
  <2> HIDE DEF A, B, ws
  <2> QED
    BY <1>1, <2>1, <2>2, RunsNil DEF A, B, ws
<1>5. CASE ws # Nil
  <2> DEFINE a == LevelStep("send", q, ws)
             f == FlushStep
             b == LevelStep("recv", q, ws)
             x == InK(k)[a]
             y == InK(k)[f]
             z == InK(k)[b]
  <2> HIDE DEF A, B, R, K, ws
  <2>1. /\ x.op = "send" /\ x.peer = q /\ x.what = "level" /\ x.ws = ws /\ x.round = k
        /\ x \in AnyStep
    BY <1>0, LevelStepIs
  <2>20. y.op = "flush" /\ y.what = "" /\ y.round = k /\ y \in AnyStep
    BY FlushIs
  <2>2. /\ z.op = "recv" /\ z.peer = q /\ z.what = "level" /\ z.ws = ws /\ z.round = k
        /\ z \in AnyStep
    BY <1>0, LevelStepIs
  <2>3. Exchange(q, ws) = <<a, f, b>>
    BY <1>5 DEF Exchange
  <2>4. q - 1 \in Int /\ \A r \in Peers : r <= q - 1 => r # q /\ r \in Party
    BY <1>0, AllPeers
  <2> HIDE DEF a, f, b, x, y, z
  <2>5. ASSUME NEW g \in A PROVE Allowed(p, g, x) /\ After(p, g, x) \in A
    <3>1. g \in Ready(k, K, 0) /\ g \in Has /\ g.round = k /\ g.pre = 1 /\ g.known = K
      BY <1>1, <1>34 DEF Ready
    <3>2. LevelAllowed(p, g, x)
      <4>1. \E m \in 1 .. Len(Levels) : x.ws = LevelWires[m][p][x.peer]
        BY <2>1 DEF ws
      <4> QED
        BY <1>33, <2>1, <3>1, <4>1 DEF LevelAllowed, EndsLevel
    <3>3. /\ RoundAllowed(g, x) /\ InputAllowed(p, g, x) /\ OutputAllowed(p, g, x)
          /\ ComparisonAllowed(p, g, x)
      BY <2>1, <3>1 DEF RoundAllowed, InputAllowed, OutputAllowed, ComparisonAllowed, Sends, Wait
    <3> DEFINE h == After(p, g, x)
    <3>40. Quiet(x)
      BY <2>1 DEF Quiet, Wait, EndsLevel
    <3>41. Stays(k, K, 0, g, x, h)
      BY <3>1, <3>40, AfterReady
    <3> HIDE DEF h
    <3>4. /\ h \in Ready(k, K, 0)
          /\ \A r \in Party : h.got[r] = IF x.op = "recv" /\ r = x.peer THEN Array(x) ELSE g.got[r]
      BY <3>41 DEF Stays
    <3>5. \A r \in Party : h.got[r] = g.got[r]
      BY <2>1, <3>4
    <3>6. h \in A
      BY <1>30, <1>31, <1>34, <2>4, <3>4, <3>5
    <3> QED
      BY <3>2, <3>3, <3>6 DEF Allowed, h
  <2>6. ASSUME NEW g \in A PROVE Allowed(p, g, y) /\ After(p, g, y) \in A
    <3>1. g \in Ready(k, K, 0) /\ g \in Has /\ g.round = k /\ g.pre = 1 /\ g.known = K
      BY <1>1, <1>34 DEF Ready
    <3>2. Allowed(p, g, y)
      BY <2>20, <3>1 DEF Allowed, LevelAllowed, EndsLevel, RoundAllowed, InputAllowed, OutputAllowed,
                        ComparisonAllowed, Sends, Wait
    <3> DEFINE h == After(p, g, y)
    <3>40. Quiet(y)
      BY <2>20 DEF Quiet, Wait, EndsLevel
    <3>41. Stays(k, K, 0, g, y, h)
      BY <3>1, <3>40, AfterReady
    <3> HIDE DEF h
    <3>4. /\ h \in Ready(k, K, 0)
          /\ \A r \in Party : h.got[r] = IF y.op = "recv" /\ r = y.peer THEN Array(y) ELSE g.got[r]
      BY <3>41 DEF Stays
    <3>5. \A r \in Party : h.got[r] = g.got[r]
      BY <2>20, <3>4
    <3>6. h \in A
      BY <1>30, <1>31, <1>34, <2>4, <3>4, <3>5
    <3> QED
      BY <3>2, <3>6 DEF h
  <2>7. ASSUME NEW g \in A PROVE Allowed(p, g, z) /\ After(p, g, z) \in B
    <3>1. g \in Ready(k, K, 0) /\ g \in Has /\ g.round = k /\ g.pre = 1 /\ g.known = K
      BY <1>1, <1>34 DEF Ready
    <3>2. Allowed(p, g, z)
      BY <2>2, <3>1 DEF Allowed, LevelAllowed, EndsLevel, RoundAllowed, InputAllowed, OutputAllowed,
                        ComparisonAllowed, Sends, Wait
    <3> DEFINE h == After(p, g, z)
    <3>40. Quiet(z)
      BY <2>2 DEF Quiet, Wait, EndsLevel
    <3>41. Stays(k, K, 0, g, z, h)
      BY <3>1, <3>40, AfterReady
    <3> HIDE DEF h
    <3>4. /\ h \in Ready(k, K, 0)
          /\ \A r \in Party : h.got[r] = IF z.op = "recv" /\ r = z.peer THEN Array(z) ELSE g.got[r]
      BY <3>41 DEF Stays
    <3>5. \A r \in Party : r # q => h.got[r] = g.got[r]
      BY <2>2, <3>4
    <3>6. h \in A
      BY <1>30, <1>31, <1>34, <2>4, <3>4, <3>5
    <3>7. h.got[q] = LevelArray(p, l, q)
      <4>1. q \in Party
        BY AllPeers
      <4> QED
        BY <1>32, <2>2, <3>4, <4>1 DEF Array
    <3> QED
      BY <1>3, <1>34, <3>2, <3>4, <3>6, <3>7 DEF h
  <2>8. Runs(p, InK(k), A, One(a), A)
    BY <1>1, <2>5, OneRuns DEF x
  <2>9. Runs(p, InK(k), A, One(f), A)
    BY <1>1, <2>6, OneRuns DEF y
  <2>10. Runs(p, InK(k), A, One(b), B)
    BY <1>1, <2>7, OneRuns DEF z
  <2>11. Runs(p, InK(k), A, <<a, f, b>>, B)
    BY <1>1, <2>8, <2>9, <2>10, RunsThree
  <2> QED
    BY <2>3, <2>11 DEF A, B, ws
<1> QED
  BY <1>4, <1>5

\* The end of level l: everything p knows until there was computed, or read.
LEMMA LevelEndRuns ==
    ASSUME NEW p \in Peers, NEW l \in 1 .. Len(Levels), NEW k \in Nat
    PROVE  Runs(p, InK(k), Heard(p, l, k, Net!nP - 1), One(LevelEnd(l)), Ready(k, Knows(p, l), 0))
<1> DEFINE s == LevelEnd(l)
           x == InK(k)[s]
           A == Heard(p, l, k, Net!nP - 1)
           B == Ready(k, Knows(p, l), 0)
<1>1. l \in Nat /\ l >= 1
  BY LevelsType
<1>2. /\ x.op = "local" /\ x.peer = l /\ x.what = "level" /\ x.round = k /\ x \in AnyStep
  <2> DEFINE u == "level"
             o == "local"
             n == Nil
  <2>1. u \in Whats /\ o \in Ops /\ n \in Seq(Nat)
    BY Literals
  <2> HIDE DEF u, o, n
  <2>2. LET z == InK(k)[Step(o, l, u, n)]
        IN  z.op = o /\ z.peer = l /\ z.what = u /\ z.round = k /\ z \in AnyStep
    BY <1>1, <2>1, StepIs
  <2> QED
    BY <2>2 DEF u, o, n, LevelEnd
<1>3. A \in SUBSET Has /\ B \in SUBSET Has
  BY HasSets DEF Heard
<1>4. Until[l][p] = Knows(p, l) /\ Until[l][p] \subseteq OwnWires[p] /\ Until[l][p] \subseteq Nat
  <2>1. Until[l][p] = {w \in OwnWires[p] : Lev(w) < l}
    BY LevelParts
  <2>2. \A w \in OwnWires[p] : w \in Wires /\ w \in Nat
    BY TheCircuit DEF OwnWires
  <2>3. \A w \in OwnWires[p] : Gate(w).type = "kInp" => Lev(w) < l
    <3>1. \A w \in Wires : Gate(w).type = "kInp" => Lev(w) = 0
      BY LevelOfWire
    <3> QED
      BY <1>1, <2>2, <3>1
  <2> QED
    BY <2>1, <2>2, <2>3 DEF Knows
<1> HIDE DEF x, s
<1>5. ASSUME NEW g \in A PROVE Allowed(p, g, x) /\ After(p, g, x) \in B
  <2>1. /\ g \in Has /\ g.round = k /\ g.pre = 1 /\ g.known = Knows(p, l - 1) /\ g.read = 0
        /\ \A r \in Peers : LevelWires[l][p][r] # Nil => g.got[r] = LevelArray(p, l, r)
    <3>1. \A r \in Peers : r <= Net!nP - 1
      BY Parties
    <3> QED
      BY <3>1 DEF Heard, Ready
  <2>2. LevelArrays(p, g, l)
    <3> SUFFICES ASSUME NEW w \in Until[l][p]
                 PROVE  /\ Lev(w) < l - 1 \/ Gate(w).type = "kInp" => w \in g.known
                        /\ w \in Products /\ Lev(w) = l - 1 =>
                              g.got[PeerOf(p, w)] = [what |-> "level", ws |-> LevelWires[l][p][PeerOf(p, w)]]
      BY DEF LevelArrays
    <3>1. w \in OwnWires[p] /\ w \in Wires
      BY <1>4 DEF OwnWires
    <3>2. Lev(w) < l - 1 \/ Gate(w).type = "kInp" => w \in g.known
      BY <2>1, <3>1 DEF Knows
    <3>3. ASSUME w \in Products, Lev(w) = l - 1
          PROVE  g.got[PeerOf(p, w)] = LevelArray(p, l, PeerOf(p, w))
      <4> DEFINE r == PeerOf(p, w)
                 ws == LevelWires[l][p][r]
      <4>1. r \in Peers /\ Between(p, r, w)
        BY <3>1, PeerOfOwner
      <4>2. ws \in Seq(Wires) /\ w \in Elements(ws)
        BY <3>1, <3>3, <4>1, LevelProducts
      <4>3. ws # Nil
        <5> HIDE DEF ws
        <5> QED
          BY <4>2, NilType DEF Elements
      <4> HIDE DEF r
      <4> QED
        BY <2>1, <4>1, <4>3 DEF r
    <3> QED
      BY <3>2, <3>3 DEF LevelArray
  <2>3. LevelAllowed(p, g, x)
    <3>1. g.known \subseteq Until[l][p]
      BY <1>1, <1>4, <2>1, LevelOfWire DEF Knows, OwnWires
    <3> QED
      BY <1>2, <2>1, <2>2, <3>1 DEF LevelAllowed, Sends
  <2>4. /\ RoundAllowed(g, x) /\ InputAllowed(p, g, x) /\ OutputAllowed(p, g, x)
        /\ ComparisonAllowed(p, g, x)
    BY <1>2, <2>1 DEF RoundAllowed, InputAllowed, OutputAllowed, ComparisonAllowed, Sends, Wait
  <2>5. Ordinary(p, x)
    BY <1>2, <1>4 DEF Ordinary, EndsLevel
  <2> DEFINE h == After(p, g, x)
  <2>6. AfterIs(p, g, x, h)
    BY <2>1, <2>5, AfterStep
  <2> HIDE DEF h
  <2>7. h \in B
    BY <1>2, <1>4, <2>1, <2>6 DEF AfterIs, Ready, Wait, EndsLevel
  <2> QED
    BY <2>3, <2>4, <2>7 DEF Allowed, h
<1> HIDE DEF A, B
<1>6. Runs(p, InK(k), A, One(s), B)
  BY <1>3, <1>5, OneRuns DEF x
<1> QED
  BY <1>6 DEF A, B, s

\* A loop over the numbers 1 .. n.
LEMMA RunsUpTo ==
    ASSUME NEW p, NEW M, NEW n \in Nat, NEW F, NEW U, Table(F, 1 .. n, U),
           NEW J, \A i \in 0 .. n : J[i] \in SUBSET Has,
           \A i \in 1 .. n : Runs(p, M, J[i - 1], F[i], J[i])
    PROVE  Runs(p, M, J[0], Each(UpTo(n), F), J[n])
<1> DEFINE s == UpTo(n)
           X == 1 .. n
<1>1. s \in Seq(X) /\ Len(s) = n /\ \A i \in 1 .. n : s[i] = i
  BY UpToPush DEF UpTo
<1>2. Table(F, X, U)
  OBVIOUS
<1> HIDE DEF s, X
<1>3. \A i \in 1 .. Len(s) : Runs(p, M, J[i - 1], F[s[i]], J[i])
  BY <1>1
<1>4. \A i \in 0 .. Len(s) : J[i] \in SUBSET Has
  BY <1>1
<1>5. Runs(p, M, J[0], Each(s, F), J[Len(s)])
  BY <1>1, <1>2, <1>3, <1>4, RunsEach
<1> QED
  BY <1>1, <1>5 DEF s

\* One level.
LEMMA LevelRuns ==
    ASSUME NEW p \in Peers, NEW l \in 1 .. Len(Levels), NEW k \in Nat
    PROVE  Runs(p, InK(k), Ready(k, Knows(p, l - 1), 0), AtDepth(p, l), Ready(k, Knows(p, l), 0))
<1> DEFINE n == Net!nP - 1
           F == Exchanges(p, l)
           J == [q \in 0 .. n |-> Heard(p, l, k, q)]
           a == Each(UpTo(n), F)
           b == One(LevelEnd(l))
           M == InK(k)
           A == Ready(k, Knows(p, l - 1), 0)
           B == Ready(k, Knows(p, l), 0)
<1>1. /\ Table(F, Peers, AnyStep) /\ AtDepth(p, l) = Cat(a, b) /\ LevelEnd(l) \in AnyStep
  BY ExchangesType
<1>2. n \in Nat /\ Peers = 1 .. n
  BY AllPeers
<1>3. \A q \in 0 .. n : J[q] \in SUBSET Has
  BY DEF Heard, Ready
<1>4. \A q \in 1 .. n : Runs(p, M, J[q - 1], F[q], J[q])
  <2> SUFFICES ASSUME NEW q \in Peers PROVE Runs(p, M, J[q - 1], F[q], J[q])
    BY <1>2
  <2>1. q \in 0 .. n /\ q - 1 \in 0 .. n
    BY <1>2
  <2>2. J[q] = Heard(p, l, k, q) /\ J[q - 1] = Heard(p, l, k, q - 1)
    BY <2>1
  <2>3. F[q] = Exchange(q, LevelWires[l][p][q])
    BY DEF Exchanges
  <2> HIDE DEF J, F
  <2> QED
    BY <2>2, <2>3, ExchangeRuns
<1>5. J[0] = A /\ J[n] = Heard(p, l, k, n)
  <2>1. Heard(p, l, k, 0) = A
    <3>1. \A r \in Peers : ~ r <= 0
      BY <1>2
    <3> QED
      BY <3>1 DEF Heard
  <2> QED
    BY <1>2, <2>1
<1>6. Runs(p, M, Heard(p, l, k, n), b, B)
  BY LevelEndRuns
<1>7. A \in SUBSET Has /\ B \in SUBSET Has /\ Heard(p, l, k, n) \in SUBSET Has
  BY HasSets DEF Heard
<1>8. a \in Seq(AnyStep) /\ b \in Seq(AnyStep)
  <2>1. UpTo(n) \in Seq(Peers)
    BY AllPeers
  <2> DEFINE u == UpTo(n)
  <2> HIDE DEF F, u
  <2>2. Each(u, F) \in Seq(AnyStep)
    BY <1>1, <2>1, EachType DEF u
  <2>3. b \in Seq(AnyStep)
    BY <1>1, OneType
  <2> QED
    BY <2>2, <2>3 DEF u
<1>9. Runs(p, M, J[0], a, J[n])
  <2>1. Table(F, 1 .. n, AnyStep)
    BY <1>1, <1>2
  <2> HIDE DEF J, F, M, n
  <2> QED
    BY <1>2, <1>3, <1>4, <2>1, RunsUpTo
<1> DEFINE H == Heard(p, l, k, n)
<1>10. Runs(p, M, A, a, H)
  BY <1>5, <1>9
<1> HIDE DEF A, B, H, M, a, b
<1>11. Runs(p, M, A, Cat(a, b), B)
  BY <1>6, <1>7, <1>8, <1>10, RunsCat DEF H
<1> QED
  BY <1>1, <1>11 DEF A, B, M

\* After the last level everything is known.
LEMMA AllKnown ==
    ASSUME NEW p \in Peers
    PROVE  Knows(p, Len(Levels)) = OwnWires[p]
<1>1. \A w \in OwnWires[p] : w \in Wires
  BY DEF OwnWires
<1>2. \A w \in Wires : Lev(w) < Len(Levels)
  <2> SUFFICES ASSUME NEW w \in Wires PROVE Lev(w) < Len(Levels)
    OBVIOUS
  <2>1. Lev(w) \in Nat /\ Lev(w) + 1 \in 1 .. Len(Levels) /\ Len(Levels) \in Nat
    BY LevelOfWire, LevelsType
  <2> QED
    BY <2>1
<1> QED
  BY <1>1, <1>2 DEF Knows

\* The online phase up to the outputs.
LEMMA OnlineRuns ==
    ASSUME NEW p \in Peers, NEW k \in Nat
    PROVE  Runs(p, InK(k), Ready(k, {}, 0), Online(p), Ready(k, OwnWires[p], 0))
<1> DEFINE n == Len(Levels)
           F == LevelSteps(p)
           J == [l \in 0 .. n |-> Ready(k, Knows(p, l), 0)]
           a == SetInputs(p)
           b == Each(UpTo(n), F)
           M == InK(k)
           A == Ready(k, {}, 0)
           B == Ready(k, OwnWires[p], 0)
           H == Ready(k, Knows(p, 0), 0)
<1>1. n \in Nat
  BY LevelsType
<1>2. Online(p) = Cat(a, b)
  <2>1. p # 0
    BY Roles
  <2> QED
    BY <2>1 DEF Online, Cat, LevelSteps
<1>3. a \in Seq(AnyStep) /\ b \in Seq(AnyStep) /\ Table(F, 1 .. n, AnyStep)
  <2>1. p \in Party /\ 0 \in Nat /\ p \in Party
    BY Roles
  <2>2. a \in Seq(OtherSteps(p)) /\ b \in Seq(OtherSteps(p))
    BY <2>1, InputsMatch, LevelsMatch
  <2>3. \A l \in 1 .. n : F[l] \in Seq(OtherSteps(p))
    BY ExchangesType DEF LevelSteps
  <2> HIDE DEF a, b, F
  <2> QED
    BY <2>2, <2>3, StepsSubset, SeqMonotonic DEF Table
<1>4. \A l \in 0 .. n : J[l] \in SUBSET Has
  BY HasSets
<1>5. \A l \in 1 .. n : Runs(p, M, J[l - 1], F[l], J[l])
  <2> SUFFICES ASSUME NEW l \in 1 .. n PROVE Runs(p, M, J[l - 1], F[l], J[l])
    OBVIOUS
  <2>1. l \in 0 .. n /\ l - 1 \in 0 .. n
    BY <1>1
  <2>2. J[l] = Ready(k, Knows(p, l), 0) /\ J[l - 1] = Ready(k, Knows(p, l - 1), 0)
    BY <2>1
  <2>3. F[l] = AtDepth(p, l)
    BY DEF LevelSteps
  <2> HIDE DEF J, F
  <2> QED
    BY <2>2, <2>3, LevelRuns
<1>6. J[0] = H /\ J[n] = B
  BY <1>1, AllKnown
<1>7. Runs(p, M, A, a, H)
  BY InputsRun
<1>8. A \in SUBSET Has /\ B \in SUBSET Has /\ H \in SUBSET Has
  BY HasSets
<1>9. Runs(p, M, J[0], b, J[n])
  <2> HIDE DEF J, F, M, n
  <2> QED
    BY <1>1, <1>3, <1>4, <1>5, RunsUpTo
<1>10. Runs(p, M, H, b, B)
  BY <1>6, <1>9
<1> HIDE DEF A, B, H, M, a, b
<1>11. Runs(p, M, A, Cat(a, b), B)
  BY <1>3, <1>7, <1>8, <1>10, RunsCat
<1> QED
  BY <1>2, <1>11 DEF A, B, M

\* A larger set of descriptions at the end.
LEMMA RunsInto ==
    ASSUME NEW p, NEW M, NEW A, NEW s, NEW B, NEW C, B \subseteq C, Runs(p, M, A, s, B)
    PROVE  Runs(p, M, A, s, C)
BY DEF Runs

\* A send, as one of round k.
LEMMA SendIs ==
    ASSUME NEW q \in Nat, NEW what \in Whats, NEW ws \in Seq(Nat), NEW k \in Nat
    PROVE  LET x == InK(k)[Send(q, what, ws)]
           IN  /\ x.op = "send" /\ x.peer = q /\ x.what = what /\ x.ws = ws /\ x.round = k
               /\ x \in AnyStep
<1> DEFINE a == "send"
<1>1. a \in Ops
  BY Literals
<1> HIDE DEF a
<1>2. LET x == InK(k)[Step(a, q, what, ws)]
      IN  x.op = a /\ x.peer = q /\ x.what = what /\ x.ws = ws /\ x.round = k /\ x \in AnyStep
  BY <1>1, StepIs
<1> QED
  BY <1>2 DEF a, Send

\* A read.
LEMMA RecvIs ==
    ASSUME NEW q \in Nat, NEW what \in Whats, NEW ws \in Seq(Nat), NEW k \in Nat
    PROVE  LET x == InK(k)[Recv(q, what, ws)]
           IN  /\ x.op = "recv" /\ x.peer = q /\ x.what = what /\ x.ws = ws /\ x.round = k
               /\ x \in AnyStep
<1> DEFINE a == "recv"
<1>1. a \in Ops
  BY Literals
<1> HIDE DEF a
<1>2. LET x == InK(k)[Step(a, q, what, ws)]
      IN  x.op = a /\ x.peer = q /\ x.what = what /\ x.ws = ws /\ x.round = k /\ x \in AnyStep
  BY <1>1, StepIs
<1> QED
  BY <1>2 DEF a, Recv

\* A computation.
LEMMA LocalIs ==
    ASSUME NEW what \in Whats, NEW k \in Nat
    PROVE  LET x == InK(k)[Local(what)]
           IN  x.op = "local" /\ x.what = what /\ x.round = k /\ x \in AnyStep
<1> DEFINE a == "local"
           n == Nil
<1>1. a \in Ops /\ n \in Seq(Nat) /\ 0 \in Nat
  BY Literals
<1> HIDE DEF a, n
<1>2. LET x == InK(k)[Step(a, 0, what, n)]
      IN  x.op = a /\ x.what = what /\ x.round = k /\ x \in AnyStep
  BY <1>1, StepIs
<1> QED
  BY <1>2 DEF a, n, Local, Nil

\* A flush needs nothing and changes nothing.
LEMMA FlushRuns ==
    ASSUME NEW p, NEW k \in Nat, NEW K, NEW n
    PROVE  Runs(p, InK(k), Ready(k, K, n), One(FlushStep), Ready(k, K, n))
<1> DEFINE y == InK(k)[FlushStep]
           f == FlushStep
           A == Ready(k, K, n)
<1>1. y.op = "flush" /\ y.what = "" /\ y.round = k /\ y \in AnyStep
  BY FlushIs
<1>2. A \in SUBSET Has
  BY HasSets
<1> HIDE DEF y
<1>3. ASSUME NEW g \in A PROVE Allowed(p, g, y) /\ After(p, g, y) \in A
  <2>1. g \in Has /\ g.round = k
    BY DEF Ready
  <2>2. Allowed(p, g, y)
    BY <1>1, <2>1 DEF Allowed, LevelAllowed, EndsLevel, RoundAllowed, InputAllowed, OutputAllowed,
                      ComparisonAllowed, Sends, Wait
  <2>3. Quiet(y)
    BY <1>1 DEF Quiet, EndsLevel, Wait
  <2>4. Stays(k, K, n, g, y, After(p, g, y))
    BY <2>3, AfterReady
  <2> QED
    BY <2>2, <2>4 DEF Stays
<1> HIDE DEF A, f
<1>4. Runs(p, InK(k), A, One(f), A)
  BY <1>2, <1>3, OneRuns DEF y, f
<1> QED
  BY <1>4 DEF A, f

\* The SP reads an output.
LEMMA OutputRuns ==
    ASSUME Mode = "Distance", NEW k \in Nat, NEW i \in 1 .. Len(circ.outputs)
    PROVE  Runs(0, InK(k), Ready(k, {}, i - 1), OutputSteps(0)[circ.outputs[i]], Ready(k, {}, i))
<1> DEFINE w == circ.outputs[i]
           r == Gate(w).rider_id
           ws == One(w)
           f == FlushStep
           b == Recv(r, "output", ws)
           z == InK(k)[b]
           A == Ready(k, {}, i - 1)
           B == Ready(k, {}, i)
<1>1. w \in Wires /\ w \in Nat /\ Len(circ.outputs) \in Nat
  BY TheCircuit, ElementOfSeq, LenProperties
<1>2. r \in Nat
  BY <1>1, Owners, Parties
<1>3. ws \in Seq(Nat) /\ "output" \in Whats
  BY <1>1, OneType, Literals
<1>4. z.op = "recv" /\ z.peer = r /\ z.what = "output" /\ z.ws = ws /\ z.round = k /\ z \in AnyStep
  <2> DEFINE u == "output"
  <2>1. u \in Whats
    BY <1>3
  <2> HIDE DEF u, r, ws
  <2>2. LET x == InK(k)[Recv(r, u, ws)]
        IN  x.op = "recv" /\ x.peer = r /\ x.what = u /\ x.ws = ws /\ x.round = k /\ x \in AnyStep
    BY <1>2, <1>3, <2>1, RecvIs
  <2> QED
    BY <2>2 DEF u
<1>5. A \in SUBSET Has /\ B \in SUBSET Has
  BY HasSets
<1>6. OutputSteps(0)[w] = <<f, b>>
  BY <1>1 DEF OutputSteps
<1>7. Runs(0, InK(k), A, One(f), A)
  BY FlushRuns
<1>8. ws = One(circ.outputs[i])
  OBVIOUS
<1> HIDE DEF z, b, ws, w
<1>9. ASSUME NEW g \in A PROVE Allowed(0, g, z) /\ After(0, g, z) \in B
  <2>1. g \in Has /\ g.round = k /\ g.pre = 1 /\ g.known = {} /\ g.read = i - 1
    BY DEF Ready
  <2>2. OutputAllowed(0, g, z)
    <3>1. g.read < Len(circ.outputs) /\ g.read + 1 = i
      BY <1>1, <2>1
    <3> QED
      BY <1>4, <1>8, <2>1, <3>1 DEF OutputAllowed, Sends
  <2>3. /\ RoundAllowed(g, z) /\ InputAllowed(0, g, z) /\ LevelAllowed(0, g, z)
        /\ ComparisonAllowed(0, g, z)
    BY <1>4, <2>1 DEF RoundAllowed, InputAllowed, LevelAllowed, EndsLevel, ComparisonAllowed,
                      Sends, Wait
  <2>4. Ordinary(0, z)
    BY <1>4 DEF Ordinary, EndsLevel
  <2> DEFINE h == After(0, g, z)
  <2>5. AfterIs(0, g, z, h)
    BY <2>1, <2>4, AfterStep
  <2> HIDE DEF h
  <2>6. h.read = i /\ h.pre = 1 /\ h.known = {} /\ h.round = k /\ h \in Has
    BY <1>4, <2>1, <2>5 DEF AfterIs, Wait, EndsLevel
  <2> QED
    BY <2>2, <2>3, <2>6 DEF Allowed, h, Ready
<1> HIDE DEF A, B, f
<1>10. Runs(0, InK(k), A, One(b), B)
  BY <1>5, <1>9, OneRuns DEF z
<1>11. Runs(0, InK(k), A, <<f, b>>, B)
  BY <1>5, <1>7, <1>10, RunsTwo
<1> QED
  BY <1>6, <1>11 DEF A, B, w

\* A rider sends an output.
LEMMA OutputSent ==
    ASSUME NEW p \in Peers, NEW k \in Nat, NEW w \in Wires
    PROVE  Runs(p, InK(k), Ready(k, OwnWires[p], 0), OutputSteps(p)[w], Ready(k, OwnWires[p], 0))
<1> DEFINE ws == One(w)
           b == Send(0, "output", ws)
           z == InK(k)[b]
           K == OwnWires[p]
           A == Ready(k, K, 0)
<1>1. w \in Nat /\ p # 0
  BY TheCircuit, Roles
<1>2. A \in SUBSET Has
  BY HasSets
<1>3. CASE p # Gate(w).rider_id
  <2>1. OutputSteps(p)[w] = Nil
    BY <1>1, <1>3 DEF OutputSteps
  <2> QED
    BY <1>2, <2>1, RunsNil
<1>4. CASE p = Gate(w).rider_id
  <2>1. OutputSteps(p)[w] = One(b)
    BY <1>1, <1>4 DEF OutputSteps
  <2>2. w \in K
    BY <1>4 DEF OwnWires, Mine
  <2>3. z.op = "send" /\ z.peer = 0 /\ z.what = "output" /\ z.ws = ws /\ z.round = k /\ z \in AnyStep
    <3> DEFINE u == "output"
    <3>1. u \in Whats /\ ws \in Seq(Nat) /\ 0 \in Nat
      BY <1>1, OneType, Literals
    <3> HIDE DEF u, ws
    <3>2. LET x == InK(k)[Send(0, u, ws)]
          IN  x.op = "send" /\ x.peer = 0 /\ x.what = u /\ x.ws = ws /\ x.round = k /\ x \in AnyStep
      BY <3>1, SendIs
    <3> QED
      BY <3>2 DEF u
  <2>4. ws = One(w)
    OBVIOUS
  <2> HIDE DEF z, b, ws
  <2>5. ASSUME NEW g \in A PROVE Allowed(p, g, z) /\ After(p, g, z) \in A
    <3>1. g \in Has /\ g.round = k /\ g.known = K
      BY DEF Ready
    <3>2. OutputAllowed(p, g, z)
      BY <2>2, <2>3, <2>4, <3>1 DEF OutputAllowed, Sends, Wait
    <3>3. /\ RoundAllowed(g, z) /\ InputAllowed(p, g, z) /\ LevelAllowed(p, g, z)
          /\ ComparisonAllowed(p, g, z)
      BY <2>3, <3>1 DEF RoundAllowed, InputAllowed, LevelAllowed, EndsLevel, ComparisonAllowed,
                        Sends, Wait
    <3>4. Quiet(z)
      BY <2>3 DEF Quiet, EndsLevel, Wait
    <3>5. Stays(k, K, 0, g, z, After(p, g, z))
      BY <3>4, AfterReady
    <3> QED
      BY <3>2, <3>3, <3>5 DEF Stays, Allowed
  <2> HIDE DEF A
  <2>6. Runs(p, InK(k), A, One(b), A)
    BY <1>2, <2>5, OneRuns DEF z
  <2> QED
    BY <2>1, <2>6 DEF A
<1> QED
  BY <1>3, <1>4

\* What everybody is ready with when the entry point's own steps begin.
Own(p) == IF p \in Peers THEN OwnWires[p] ELSE {}

\* The outputs.
LEMMA OutputsRun ==
    ASSUME Mode = "Distance", NEW p \in Party, NEW k \in Nat
    PROVE  Runs(p, InK(k), Ready(k, Own(p), 0), GetOutputs(p), Done(k))
<1> DEFINE s == circ.outputs
           n == Len(s)
           F == OutputSteps(p)
           A == Ready(k, Own(p), 0)
           M == InK(k)
<1>1. GetOutputs(p) = Each(s, F)
  BY DEF GetOutputs, OutputSteps, Flush, FlushStep, One, Nil
<1>2. s \in Seq(Wires) /\ n \in Nat /\ \A i \in 1 .. n : s[i] \in Wires
  BY TheCircuit, LenProperties, ElementOfSeq
<1>3. Table(F, Wires, AnyStep)
  <2>1. p \in Party /\ 1 \in Nat
    OBVIOUS
  <2>2. \A w \in Wires : F[w] \in Seq(AnyStep)
    BY <2>1, OutputStepMoves
  <2> HIDE DEF F
  <2> QED
    BY <2>2 DEF Table
<1>4. CASE p = 0
  <2> DEFINE J == [i \in 0 .. n |-> Ready(k, {}, i)]
  <2>1. A = Ready(k, {}, 0) /\ J[0] = Ready(k, {}, 0) /\ J[n] = Ready(k, {}, n)
    BY <1>2, <1>4, Roles DEF Own
  <2>2. \A i \in 0 .. n : J[i] \in SUBSET Has
    BY HasSets
  <2>3. \A i \in 1 .. n : Runs(p, M, J[i - 1], F[s[i]], J[i])
    <3> SUFFICES ASSUME NEW i \in 1 .. n PROVE Runs(p, M, J[i - 1], F[s[i]], J[i])
      OBVIOUS
    <3>1. i - 1 \in 0 .. n /\ i \in 0 .. n
      BY <1>2
    <3>2. J[i - 1] = Ready(k, {}, i - 1) /\ J[i] = Ready(k, {}, i)
      BY <3>1
    <3> HIDE DEF J
    <3> QED
      BY <1>4, <3>2, OutputRuns
  <2> HIDE DEF J, F, M, s, n
  <2>4. Runs(p, M, J[0], Each(s, F), J[Len(s)])
    BY <1>2, <1>3, <2>2, <2>3, RunsEach DEF n
  <2>5. Ready(k, {}, n) \subseteq Done(k)
    BY DEF Ready, Done
  <2>6. Runs(p, M, A, Each(s, F), Ready(k, {}, n))
    BY <2>1, <2>4 DEF n
  <2> HIDE DEF A
  <2>7. Runs(p, M, A, Each(s, F), Done(k))
    BY <2>5, <2>6, RunsInto
  <2> QED
    BY <1>1, <2>7 DEF A, M
<1>5. CASE p \in Peers
  <2> DEFINE J == [i \in 0 .. n |-> A]
  <2>0. A = Ready(k, OwnWires[p], 0)
    BY <1>5 DEF Own
  <2>1. J[0] = A /\ J[n] = A
    BY <1>2
  <2>2. \A i \in 0 .. n : J[i] \in SUBSET Has
    BY HasSets
  <2>3. \A i \in 1 .. n : Runs(p, M, J[i - 1], F[s[i]], J[i])
    <3> SUFFICES ASSUME NEW i \in 1 .. n PROVE Runs(p, M, J[i - 1], F[s[i]], J[i])
      OBVIOUS
    <3>1. i - 1 \in 0 .. n /\ i \in 0 .. n /\ s[i] \in Wires
      BY <1>2
    <3>2. J[i - 1] = A /\ J[i] = A
      BY <3>1
    <3> HIDE DEF J
    <3> QED
      BY <1>5, <2>0, <3>1, <3>2, OutputSent
  <2>5. A \subseteq Done(k)
    BY DEF Ready, Done
  <2> HIDE DEF J, F, M, s, n, A
  <2>4. Runs(p, M, J[0], Each(s, F), J[Len(s)])
    BY <1>2, <1>3, <2>2, <2>3, RunsEach DEF n
  <2>6. Runs(p, M, A, Each(s, F), A)
    BY <2>1, <2>4 DEF n
  <2>7. Runs(p, M, A, Each(s, F), Done(k))
    BY <2>5, <2>6, RunsInto
  <2> QED
    BY <1>1, <2>7 DEF A, M
<1> QED
  BY <1>4, <1>5, Roles

\* The SP sends peer q its keys.
LEMMA KeyRuns ==
    ASSUME NEW k \in Nat, NEW q \in Peers
    PROVE  Runs(0, InK(k), Ready(k, {}, 0), One(Send(q, "key", MyOutputs[q])), Ready(k, {}, 0))
<1> DEFINE ws == MyOutputs[q]
           b == Send(q, "key", ws)
           z == InK(k)[b]
           A == Ready(k, {}, 0)
<1>1. A \in SUBSET Has
  BY HasSets
<1>2. z.op = "send" /\ z.peer = q /\ z.what = "key" /\ z.ws = ws /\ z.round = k /\ z \in AnyStep
  <2> DEFINE u == "key"
  <2>1. u \in Whats /\ ws \in Seq(Nat) /\ q \in Nat
    BY MyOutputsType, Literals, AllPeers
  <2> HIDE DEF u, ws
  <2>2. LET x == InK(k)[Send(q, u, ws)]
        IN  x.op = "send" /\ x.peer = q /\ x.what = u /\ x.ws = ws /\ x.round = k /\ x \in AnyStep
    BY <2>1, SendIs
  <2> QED
    BY <2>2 DEF u
<1> HIDE DEF z, b
<1>3. ASSUME NEW g \in A PROVE Allowed(0, g, z) /\ After(0, g, z) \in A
  <2>1. g \in Has /\ g.round = k /\ g.known = {} /\ g.pre = 1
    BY DEF Ready
  <2>2. ComparisonAllowed(0, g, z)
    BY <1>2, <2>1 DEF ComparisonAllowed, Sends
  <2>3. /\ RoundAllowed(g, z) /\ InputAllowed(0, g, z) /\ LevelAllowed(0, g, z)
        /\ OutputAllowed(0, g, z)
    BY <1>2, <2>1 DEF RoundAllowed, InputAllowed, LevelAllowed, EndsLevel, OutputAllowed,
                      Sends, Wait
  <2>4. Quiet(z)
    BY <1>2 DEF Quiet, EndsLevel, Wait
  <2>5. Stays(k, {}, 0, g, z, After(0, g, z))
    BY <2>4, AfterReady
  <2> QED
    BY <2>2, <2>3, <2>5 DEF Stays, Allowed
<1> HIDE DEF A, ws
<1>4. Runs(0, InK(k), A, One(b), A)
  BY <1>1, <1>3, OneRuns DEF z
<1> QED
  BY <1>4 DEF A, b, ws

\* What the SP reads from r.
ShareArray(r) == [what |-> "share", ws |-> MyOutputs[r]]
\* The shares the SP has read from the parties 1 .. q.
Shared(k, q) == {g \in Ready(k, {}, 0) : \A r \in Peers : r <= q => g.got[r] = ShareArray(r)}

\* The SP reads the shares of peer q.
LEMMA ShareRuns ==
    ASSUME NEW k \in Nat, NEW q \in Peers
    PROVE  Runs(0, InK(k), Shared(k, q - 1), One(Recv(q, "share", MyOutputs[q])), Shared(k, q))
<1> DEFINE ws == MyOutputs[q]
           b == Recv(q, "share", ws)
           z == InK(k)[b]
           A == Shared(k, q - 1)
           B == Shared(k, q)
<1>1. A \in SUBSET Has /\ B \in SUBSET Has
  BY DEF Shared, Ready
<1>2. z.op = "recv" /\ z.peer = q /\ z.what = "share" /\ z.ws = ws /\ z.round = k /\ z \in AnyStep
  <2> DEFINE u == "share"
  <2>1. u \in Whats /\ ws \in Seq(Nat) /\ q \in Nat
    BY MyOutputsType, Literals, AllPeers
  <2> HIDE DEF u, ws
  <2>2. LET x == InK(k)[Recv(q, u, ws)]
        IN  x.op = "recv" /\ x.peer = q /\ x.what = u /\ x.ws = ws /\ x.round = k /\ x \in AnyStep
    BY <2>1, RecvIs
  <2> QED
    BY <2>2 DEF u
<1>3. ShareArray(q) = [what |-> "share", ws |-> ws]
  BY DEF ShareArray
<1>4. \A r \in Peers : r \in Party /\ (r <= q => r <= q - 1 \/ r = q)
  BY AllPeers
<1> HIDE DEF z, b, ws
<1>5. ASSUME NEW g \in A PROVE Allowed(0, g, z) /\ After(0, g, z) \in B
  <2>1. /\ g \in Has /\ g.round = k /\ g.known = {} /\ g.pre = 1 /\ g \in Ready(k, {}, 0)
        /\ \A r \in Peers : r <= q - 1 => g.got[r] = ShareArray(r)
    BY DEF Shared, Ready
  <2>2. Allowed(0, g, z)
    BY <1>2, <2>1 DEF Allowed, RoundAllowed, InputAllowed, LevelAllowed, EndsLevel, OutputAllowed,
                      ComparisonAllowed, Sends, Wait
  <2>4. Quiet(z)
    BY <1>2 DEF Quiet, EndsLevel, Wait
  <2> DEFINE h == After(0, g, z)
  <2>5. Stays(k, {}, 0, g, z, h)
    BY <2>1, <2>4, AfterReady
  <2> HIDE DEF h
  <2>6. h \in Ready(k, {}, 0) /\ \A r \in Party : h.got[r] = IF r = q THEN Array(z) ELSE g.got[r]
    BY <1>2, <2>5 DEF Stays
  <2>7. Array(z) = ShareArray(q)
    BY <1>2, <1>3 DEF Array
  <2>8. h \in B
    BY <1>4, <2>1, <2>6, <2>7 DEF Shared
  <2> QED
    BY <2>2, <2>8 DEF h
<1> HIDE DEF A, B
<1>6. Runs(0, InK(k), A, One(b), B)
  BY <1>1, <1>5, OneRuns DEF z
<1> QED
  BY <1>6 DEF A, B, b, ws

\* The SP reconstructs the answers.
LEMMA MatchRuns ==
    ASSUME Mode = "Matching", NEW k \in Nat
    PROVE  Runs(0, InK(k), Shared(k, Net!nP - 1), One(Local("match")), Done(k))
<1> DEFINE b == Local("match")
           z == InK(k)[b]
           A == Shared(k, Net!nP - 1)
           B == Done(k)
<1>1. A \in SUBSET Has /\ B \in SUBSET Has
  BY DEF Shared, Ready, Done
<1>2. z.op = "local" /\ z.what = "match" /\ z.round = k /\ z \in AnyStep
  <2> DEFINE u == "match"
  <2>1. u \in Whats
    BY Literals
  <2> HIDE DEF u
  <2>2. LET x == InK(k)[Local(u)]
        IN  x.op = "local" /\ x.what = u /\ x.round = k /\ x \in AnyStep
    BY <2>1, LocalIs
  <2> QED
    BY <2>2 DEF u
<1> HIDE DEF z, b
<1>3. ASSUME NEW g \in A PROVE Allowed(0, g, z) /\ After(0, g, z) \in B
  <2>1. /\ g \in Has /\ g.round = k /\ g.known = {} /\ g.pre = 1 /\ g \in Ready(k, {}, 0)
        /\ \A r \in Peers : g.got[r] = ShareArray(r)
    <3>1. \A r \in Peers : r <= Net!nP - 1
      BY Parties
    <3> QED
      BY <3>1 DEF Shared, Ready
  <2>2. ComparisonAllowed(0, g, z)
    BY <1>2, <2>1 DEF ComparisonAllowed, Sends, ShareArray
  <2>3. /\ RoundAllowed(g, z) /\ InputAllowed(0, g, z) /\ LevelAllowed(0, g, z)
        /\ OutputAllowed(0, g, z)
    BY <1>2, <2>1 DEF RoundAllowed, InputAllowed, LevelAllowed, EndsLevel, OutputAllowed,
                      Sends, Wait
  <2>4. Quiet(z)
    BY <1>2 DEF Quiet, EndsLevel, Wait
  <2>5. Stays(k, {}, 0, g, z, After(0, g, z))
    BY <2>1, <2>4, AfterReady
  <2> QED
    BY <2>2, <2>3, <2>5 DEF Stays, Allowed, Ready, Done
<1> HIDE DEF A, B
<1>4. Runs(0, InK(k), A, One(b), B)
  BY <1>1, <1>3, OneRuns DEF z
<1> QED
  BY <1>4 DEF A, B, b

\* What p reads from the SP, and what p has then.
KeyArray(p) == [what |-> "key", ws |-> MyOutputs[p]]
Keyed(p, k) == {g \in Ready(k, OwnWires[p], 0) : g.got[0] = KeyArray(p)}

\* A peer reads its keys.
LEMMA KeyRead ==
    ASSUME NEW p \in Peers, NEW k \in Nat
    PROVE  Runs(p, InK(k), Ready(k, OwnWires[p], 0), One(Recv(0, "key", MyOutputs[p])), Keyed(p, k))
<1> DEFINE ws == MyOutputs[p]
           b == Recv(0, "key", ws)
           z == InK(k)[b]
           K == OwnWires[p]
           A == Ready(k, K, 0)
           B == Keyed(p, k)
<1>1. A \in SUBSET Has /\ B \in SUBSET Has
  BY DEF Keyed, Ready
<1>2. z.op = "recv" /\ z.peer = 0 /\ z.what = "key" /\ z.ws = ws /\ z.round = k /\ z \in AnyStep
  <2> DEFINE u == "key"
  <2>1. u \in Whats /\ ws \in Seq(Nat) /\ 0 \in Nat
    BY MyOutputsType, Literals
  <2> HIDE DEF u, ws
  <2>2. LET x == InK(k)[Recv(0, u, ws)]
        IN  x.op = "recv" /\ x.peer = 0 /\ x.what = u /\ x.ws = ws /\ x.round = k /\ x \in AnyStep
    BY <2>1, RecvIs
  <2> QED
    BY <2>2 DEF u
<1>3. KeyArray(p) = [what |-> "key", ws |-> ws] /\ 0 \in Party
  BY Roles DEF KeyArray
<1> HIDE DEF z, b, ws
<1>4. ASSUME NEW g \in A PROVE Allowed(p, g, z) /\ After(p, g, z) \in B
  <2>1. g \in Has /\ g.round = k /\ g.known = K /\ g.pre = 1
    BY DEF Ready
  <2>2. Allowed(p, g, z)
    BY <1>2, <2>1 DEF Allowed, RoundAllowed, InputAllowed, LevelAllowed, EndsLevel, OutputAllowed,
                      ComparisonAllowed, Sends, Wait
  <2>4. Quiet(z)
    BY <1>2 DEF Quiet, EndsLevel, Wait
  <2> DEFINE h == After(p, g, z)
  <2>5. Stays(k, K, 0, g, z, h)
    BY <2>4, AfterReady
  <2> HIDE DEF h
  <2>6. h \in A /\ h.got[0] = Array(z)
    BY <1>2, <1>3, <2>5 DEF Stays
  <2>7. Array(z) = KeyArray(p)
    BY <1>2, <1>3 DEF Array
  <2> QED
    BY <2>2, <2>6, <2>7 DEF h, Keyed
<1> HIDE DEF A, B
<1>5. Runs(p, InK(k), A, One(b), B)
  BY <1>1, <1>4, OneRuns DEF z
<1> QED
  BY <1>5 DEF A, B, b, ws

\* A peer's outputs are wires of its own.
LEMMA OwnOutputs ==
    ASSUME NEW p \in Peers
    PROVE  Elements(MyOutputs[p]) \subseteq OwnWires[p]
<1> DEFINE s == circ.outputs
           S == OwnWires[p]
<1>1. s \in Seq(Wires) /\ MyOutputs[p] = Pick(s, S)
  BY TheCircuit DEF MyOutputs
<1> HIDE DEF s, S
<1>2. Elements(Pick(s, S)) = Elements(s) \cap S
  BY <1>1, PickProperties
<1> QED
  BY <1>1, <1>2 DEF S

\* A peer answers with its shares.
LEMMA ShareSent ==
    ASSUME NEW p \in Peers, NEW k \in Nat
    PROVE  Runs(p, InK(k), Keyed(p, k), One(Send(0, "share", MyOutputs[p])), Done(k))
<1> DEFINE ws == MyOutputs[p]
           b == Send(0, "share", ws)
           z == InK(k)[b]
           K == OwnWires[p]
           A == Keyed(p, k)
           B == Done(k)
<1>1. A \in SUBSET Has /\ B \in SUBSET Has
  BY DEF Keyed, Ready, Done
<1>2. z.op = "send" /\ z.peer = 0 /\ z.what = "share" /\ z.ws = ws /\ z.round = k /\ z \in AnyStep
  <2> DEFINE u == "share"
  <2>1. u \in Whats /\ ws \in Seq(Nat) /\ 0 \in Nat
    BY MyOutputsType, Literals
  <2> HIDE DEF u, ws
  <2>2. LET x == InK(k)[Send(0, u, ws)]
        IN  x.op = "send" /\ x.peer = 0 /\ x.what = u /\ x.ws = ws /\ x.round = k /\ x \in AnyStep
    BY <2>1, SendIs
  <2> QED
    BY <2>2 DEF u
<1>3. KeyArray(p) = [what |-> "key", ws |-> ws] /\ Elements(ws) \subseteq K /\ ws = MyOutputs[p]
  BY OwnOutputs DEF KeyArray
<1> HIDE DEF z, b, ws, K
<1>4. ASSUME NEW g \in A PROVE Allowed(p, g, z) /\ After(p, g, z) \in B
  <2>1. /\ g \in Has /\ g.round = k /\ g.known = K /\ g.pre = 1 /\ g \in Ready(k, K, 0)
        /\ g.got[0] = KeyArray(p)
    BY DEF Keyed, Ready, K
  <2>2. ComparisonAllowed(p, g, z)
    <3>1. g.got[0] = [what |-> "key", ws |-> MyOutputs[p]] /\ Elements(MyOutputs[p]) \subseteq g.known
      BY <1>3, <2>1
    <3> QED
      BY <1>2, <1>3, <2>1, <3>1 DEF ComparisonAllowed, Sends
  <2>3. /\ RoundAllowed(g, z) /\ InputAllowed(p, g, z) /\ LevelAllowed(p, g, z)
        /\ OutputAllowed(p, g, z)
    BY <1>2, <2>1 DEF RoundAllowed, InputAllowed, LevelAllowed, EndsLevel, OutputAllowed,
                      Sends, Wait
  <2>4. Quiet(z)
    BY <1>2 DEF Quiet, EndsLevel, Wait
  <2>5. Stays(k, K, 0, g, z, After(p, g, z))
    BY <2>1, <2>4, AfterReady
  <2> QED
    BY <2>2, <2>3, <2>5 DEF Stays, Allowed, Ready, Done
<1> HIDE DEF A, B
<1>5. Runs(p, InK(k), A, One(b), B)
  BY <1>1, <1>4, OneRuns DEF z
<1> QED
  BY <1>5 DEF A, B, b, ws

\* A party of a pair evaluates its keys.
LEMMA CompareRuns ==
    ASSUME Mode = "Pair", NEW p \in Peers, NEW k \in Nat, k >= 1
    PROVE  Runs(p, InK(k), Keyed(p, k), One(Local("compare")), Done(k))
<1> DEFINE b == Local("compare")
           z == InK(k)[b]
           K == OwnWires[p]
           A == Keyed(p, k)
           B == Done(k)
<1>1. A \in SUBSET Has /\ B \in SUBSET Has
  BY DEF Keyed, Ready, Done
<1>2. z.op = "local" /\ z.what = "compare" /\ z.round = k /\ z \in AnyStep
  <2> DEFINE u == "compare"
  <2>1. u \in Whats
    BY Literals
  <2> HIDE DEF u
  <2>2. LET x == InK(k)[Local(u)]
        IN  x.op = "local" /\ x.what = u /\ x.round = k /\ x \in AnyStep
    BY <2>1, LocalIs
  <2> QED
    BY <2>2 DEF u
<1>3. KeyArray(p) = [what |-> "key", ws |-> MyOutputs[p]] /\ Elements(MyOutputs[p]) \subseteq K
  BY OwnOutputs DEF KeyArray
<1> HIDE DEF z, b, K
<1>4. ASSUME NEW g \in A PROVE Allowed(p, g, z) /\ After(p, g, z) \in B
  <2>1. /\ g \in Has /\ g.round = k /\ g.known = K /\ g.pre = 1 /\ g \in Ready(k, K, 0)
        /\ g.got[0] = KeyArray(p)
    BY DEF Keyed, Ready, K
  <2>2. ComparisonAllowed(p, g, z)
    <3>1. g.got[0] = [what |-> "key", ws |-> MyOutputs[p]] /\ Elements(MyOutputs[p]) \subseteq g.known
      BY <1>3, <2>1
    <3> QED
      BY <1>2, <2>1, <3>1 DEF ComparisonAllowed, Sends
  <2>3. /\ RoundAllowed(g, z) /\ InputAllowed(p, g, z) /\ LevelAllowed(p, g, z)
        /\ OutputAllowed(p, g, z)
    BY <1>2, <2>1 DEF RoundAllowed, InputAllowed, LevelAllowed, EndsLevel, OutputAllowed,
                      Sends, Wait
  <2>4. Quiet(z)
    BY <1>2 DEF Quiet, EndsLevel, Wait
  <2>5. Stays(k, K, 0, g, z, After(p, g, z))
    BY <2>1, <2>4, AfterReady
  <2> QED
    BY <2>2, <2>3, <2>5 DEF Stays, Allowed, Ready, Done
<1> HIDE DEF A, B
<1>5. Runs(p, InK(k), A, One(b), B)
  BY <1>1, <1>4, OneRuns DEF z
<1> QED
  BY <1>5 DEF A, B, b

\* The comparison for all pairs, at the SP.
LEMMA SPMatchingRuns ==
    ASSUME Mode = "Matching", NEW k \in Nat
    PROVE  Runs(0, InK(k), Ready(k, {}, 0), Matching(0), Done(k))
<1> DEFINE n == Net!nP - 1
           A == Ready(k, {}, 0)
           H == Shared(k, n)
           B == Done(k)
           M == InK(k)
           a == Each(UpTo(n), KeySteps)
           b == One(FlushStep)
           c == Each(UpTo(n), ShareSteps)
           d == One(Local("match"))
<1>1. Matching(0) = Cat(Cat(Cat(a, b), c), d)
  BY DEF Matching, Cat, One, KeySteps, ShareSteps, FlushStep, Flush, Nil
<1>2. n \in Nat /\ Peers = 1 .. n
  BY AllPeers
<1>3. A \in SUBSET Has /\ H \in SUBSET Has /\ B \in SUBSET Has
  BY DEF Ready, Shared, Done
<1>4. a \in Seq(AnyStep) /\ b \in Seq(AnyStep) /\ c \in Seq(AnyStep) /\ d \in Seq(AnyStep)
  <2>1. 0 \in Party /\ 0 \in Nat
    BY Roles
  <2>2. FlushStep \in AnyStep /\ Local("match") \in AnyStep
    <3>1. FlushStep \in AnyStep
      BY <2>1, Literals, OtherStep DEF FlushStep
    <3>2. Local("match") \in AnyStep
      BY <2>1, StillStep
    <3> QED
      BY <3>1, <3>2
  <2>3. a \in Seq(AnyStep) /\ c \in Seq(AnyStep)
    BY <2>1, KeyStepsMove, ShareStepsMove
  <2>4. b \in Seq(AnyStep) /\ d \in Seq(AnyStep)
    BY <2>2, OneType
  <2> QED
    BY <2>3, <2>4
<1>5. /\ Table(KeySteps, 1 .. n, AnyStep) /\ \A q \in 1 .. n : KeySteps[q] = One(Send(q, "key", MyOutputs[q]))
      /\ Table(ShareSteps, 1 .. n, AnyStep) /\ \A q \in 1 .. n : ShareSteps[q] = One(Recv(q, "share", MyOutputs[q]))
  <2>1. ASSUME NEW q \in Peers
        PROVE  /\ KeySteps[q] = One(Send(q, "key", MyOutputs[q])) /\ KeySteps[q] \in Seq(AnyStep)
               /\ ShareSteps[q] = One(Recv(q, "share", MyOutputs[q])) /\ ShareSteps[q] \in Seq(AnyStep)
    <3>1. Net!Connected(0, q) /\ 0 \in Party /\ q \in Party /\ 0 \in Nat /\ MyOutputs[q] \in Seq(Nat)
      BY SPConnected, MyOutputsType
    <3>2. Send(q, "key", MyOutputs[q]) \in AnyStep
      BY <3>1, SendStep
    <3>3. Recv(q, "share", MyOutputs[q]) \in AnyStep
      BY <3>1, RecvStep
    <3> QED
      BY <3>2, <3>3, OneType DEF KeySteps, ShareSteps
  <2> QED
    BY <1>2, <2>1 DEF Table
<1>6. Runs(0, M, A, a, A)
  <2> DEFINE J == [q \in 0 .. n |-> A]
             F == KeySteps
  <2>1. J[0] = A /\ J[n] = A
    BY <1>2
  <2>2. \A q \in 0 .. n : J[q] \in SUBSET Has
    BY <1>3
  <2>3. \A q \in 1 .. n : Runs(0, M, J[q - 1], F[q], J[q])
    <3> SUFFICES ASSUME NEW q \in 1 .. n PROVE Runs(0, M, J[q - 1], F[q], J[q])
      OBVIOUS
    <3>1. q - 1 \in 0 .. n /\ q \in 0 .. n /\ q \in Peers
      BY <1>2
    <3>2. J[q - 1] = A /\ J[q] = A
      BY <3>1
    <3> HIDE DEF J
    <3> QED
      BY <1>5, <3>1, <3>2, KeyRuns
  <2>4. Table(F, 1 .. n, AnyStep)
    BY <1>5
  <2> HIDE DEF J, F, M, n, A
  <2>5. Runs(0, M, J[0], Each(UpTo(n), F), J[n])
    BY <1>2, <2>2, <2>3, <2>4, RunsUpTo
  <2> QED
    BY <2>1, <2>5 DEF F
<1>7. Runs(0, M, A, c, H)
  <2> DEFINE J == [q \in 0 .. n |-> Shared(k, q)]
             F == ShareSteps
  <2>1. J[0] = A /\ J[n] = H
    <3>1. Shared(k, 0) = A
      <4>1. \A r \in Peers : ~ r <= 0
        BY <1>2
      <4> QED
        BY <4>1 DEF Shared
    <3> QED
      BY <1>2, <3>1
  <2>2. \A q \in 0 .. n : J[q] \in SUBSET Has
    BY DEF Shared, Ready
  <2>3. \A q \in 1 .. n : Runs(0, M, J[q - 1], F[q], J[q])
    <3> SUFFICES ASSUME NEW q \in 1 .. n PROVE Runs(0, M, J[q - 1], F[q], J[q])
      OBVIOUS
    <3>1. q - 1 \in 0 .. n /\ q \in 0 .. n /\ q \in Peers
      BY <1>2
    <3>2. J[q - 1] = Shared(k, q - 1) /\ J[q] = Shared(k, q)
      BY <3>1
    <3> HIDE DEF J
    <3> QED
      BY <1>5, <3>1, <3>2, ShareRuns
  <2>4. Table(F, 1 .. n, AnyStep)
    BY <1>5
  <2> HIDE DEF J, F, M, n, A, H
  <2>5. Runs(0, M, J[0], Each(UpTo(n), F), J[n])
    BY <1>2, <2>2, <2>3, <2>4, RunsUpTo
  <2> QED
    BY <2>1, <2>5 DEF F
<1>8. Runs(0, M, A, b, A)
  BY FlushRuns
<1>9. Runs(0, M, H, d, B)
  BY MatchRuns
<1> HIDE DEF A, H, B, M, a, b, c, d
<1>10. Runs(0, M, A, Cat(a, b), A) /\ Cat(a, b) \in Seq(AnyStep)
  BY <1>3, <1>4, <1>6, <1>8, RunsCat, CatType
<1> DEFINE e == Cat(a, b)
<1>11. Runs(0, M, A, Cat(e, c), H) /\ Cat(e, c) \in Seq(AnyStep)
  <2>1. e \in Seq(AnyStep) /\ Runs(0, M, A, e, A)
    BY <1>10
  <2> HIDE DEF e
  <2> QED
    BY <1>3, <1>4, <1>7, <2>1, RunsCat, CatType
<1> DEFINE f == Cat(e, c)
<1>12. Runs(0, M, A, Cat(f, d), B)
  <2>1. f \in Seq(AnyStep) /\ Runs(0, M, A, f, H)
    BY <1>11
  <2> HIDE DEF f
  <2> QED
    BY <1>3, <1>4, <1>9, <2>1, RunsCat
<1> QED
  BY <1>1, <1>12 DEF A, B, M

\* The comparison for all pairs.
LEMMA MatchingRuns ==
    ASSUME Mode = "Matching", NEW p \in Party, NEW k \in Nat
    PROVE  Runs(p, InK(k), Ready(k, Own(p), 0), Matching(p), Done(k))
<1>1. CASE p = 0
  <2>1. Own(p) = {}
    BY <1>1, Roles DEF Own
  <2> QED
    BY <1>1, <2>1, SPMatchingRuns
<1>2. CASE p \in Peers
  <2> DEFINE a == Recv(0, "key", MyOutputs[p])
             b == Send(0, "share", MyOutputs[p])
             A == Ready(k, OwnWires[p], 0)
             H == Keyed(p, k)
             B == Done(k)
             M == InK(k)
  <2>1. Own(p) = OwnWires[p] /\ Matching(p) = <<a, b>>
    BY <1>2, Roles DEF Own, Matching
  <2>2. A \in SUBSET Has /\ H \in SUBSET Has /\ B \in SUBSET Has
    BY DEF Ready, Keyed, Done
  <2>3. Runs(p, M, A, One(a), H)
    BY <1>2, KeyRead
  <2>4. Runs(p, M, H, One(b), B)
    BY <1>2, ShareSent
  <2> HIDE DEF a, b, A, H, B, M
  <2>5. Runs(p, M, A, <<a, b>>, B)
    BY <2>2, <2>3, <2>4, RunsTwo
  <2> QED
    BY <2>1, <2>5 DEF A, B, M
<1> QED
  BY <1>1, <1>2, Roles

\* The outputs of a pair are those of both parties.
LEMMA PairOutputs ==
    ASSUME Mode = "Pair"
    PROVE  /\ Peers = {1, 2} /\ 1 \in Net!Rider /\ 2 \in Net!Driver
           /\ \A w \in Wires : Gate(w).rider_id = 1 /\ Gate(w).driver_id = 2
           /\ \A p \in Peers : OwnWires[p] = Wires /\ MyOutputs[p] = circ.outputs
<1>1. rider_count = 1 /\ driver_count = 1
  BY NetAssumption
<1>2. Net!Rider = 1 .. 1 /\ Net!Driver = 2 .. 2 /\ Peers = 1 .. 2
  BY <1>1, Parties
<1>3. \A w \in Wires : Gate(w).rider_id = 1 /\ Gate(w).driver_id = 2
  BY <1>2, Owners
<1>4. \A p \in Peers : OwnWires[p] = Wires
  BY <1>2, <1>3 DEF OwnWires, Mine
<1>5. ASSUME NEW p \in Peers PROVE MyOutputs[p] = circ.outputs
  <2> DEFINE s == circ.outputs
             T == {u \in Seq(Wires) : Pick(u, Wires) = u}
  <2>1. MyOutputs[p] = Pick(s, Wires) /\ s \in Seq(Wires)
    BY <1>4, TheCircuit DEF MyOutputs
  <2>2. Nil \in T
    BY NilType, PickNil
  <2>3. \A u \in Seq(Wires), x \in Wires : u \in T => Push(u, x) \in T
    <3> SUFFICES ASSUME NEW u \in Seq(Wires), NEW x \in Wires, u \in T PROVE Push(u, x) \in T
      OBVIOUS
    <3>1. Pick(Push(u, x), Wires) = IF x \in Wires THEN Push(Pick(u, Wires), x) ELSE Pick(u, Wires)
      BY PickPush
    <3>2. Push(u, x) \in Seq(Wires)
      BY PushType
    <3> QED
      BY <3>1, <3>2
  <2> DEFINE W == Wires
  <2>4. Seq(Wires) \subseteq T
    <3>1. Nil \in T /\ \A u \in Seq(W), x \in W : u \in T => Push(u, x) \in T
      BY <2>2, <2>3
    <3> HIDE DEF T, W
    <3>2. Seq(W) \subseteq T
      BY <3>1, PushInduction
    <3> QED
      BY <3>2 DEF W
  <2> QED
    BY <2>1, <2>4
<1> QED
  BY <1>2, <1>3, <1>4, <1>5

\* The comparison for one pair.
LEMMA PairRuns ==
    ASSUME Mode = "Pair", NEW p \in Party, NEW k \in Nat, k >= 1
    PROVE  Runs(p, InK(k), Ready(k, Own(p), 0), PairMatching(p), Done(k))
<1>1. CASE p = 0
  <2> DEFINE a == Send(1, "key", MyOutputs[1])
             b == Send(2, "key", MyOutputs[2])
             A == Ready(k, {}, 0)
             M == InK(k)
  <2>1. 1 \in Peers /\ 2 \in Peers /\ MyOutputs[1] = circ.outputs /\ MyOutputs[2] = circ.outputs
    BY PairOutputs
  <2>2. Own(p) = {} /\ PairMatching(p) = <<a, b>>
    BY <1>1, <2>1, Roles DEF Own, PairMatching
  <2>3. A \in SUBSET Has
    BY DEF Ready
  <2>4. Runs(0, M, A, One(a), A)
    BY <2>1, KeyRuns
  <2>5. Runs(0, M, A, One(b), A)
    BY <2>1, KeyRuns
  <2>6. A \subseteq Done(k)
    BY DEF Ready, Done
  <2> HIDE DEF a, b, A, M
  <2>7. Runs(0, M, A, <<a, b>>, A)
    BY <2>3, <2>4, <2>5, RunsTwo
  <2>8. Runs(0, M, A, <<a, b>>, Done(k))
    BY <2>6, <2>7, RunsInto
  <2> QED
    BY <1>1, <2>2, <2>8 DEF A, M
<1>2. CASE p \in Peers
  <2> DEFINE a == Recv(0, "key", MyOutputs[p])
             b == Local("compare")
             A == Ready(k, OwnWires[p], 0)
             H == Keyed(p, k)
             B == Done(k)
             M == InK(k)
  <2>1. Own(p) = OwnWires[p] /\ PairMatching(p) = <<a, b>>
    BY <1>2, PairOutputs, Roles DEF Own, PairMatching
  <2>2. A \in SUBSET Has /\ H \in SUBSET Has /\ B \in SUBSET Has
    BY DEF Ready, Keyed, Done
  <2>3. Runs(p, M, A, One(a), H)
    BY <1>2, KeyRead
  <2>4. Runs(p, M, H, One(b), B)
    BY <1>2, CompareRuns
  <2> HIDE DEF a, b, A, H, B, M
  <2>5. Runs(p, M, A, <<a, b>>, B)
    BY <2>2, <2>3, <2>4, RunsTwo
  <2> QED
    BY <2>1, <2>5 DEF A, B, M
<1> QED
  BY <1>1, <1>2, Roles

\* The entry point's own steps.
LEMMA EntryRuns ==
    ASSUME NEW p \in Party, NEW k \in Nat, k >= 1
    PROVE  Runs(p, InK(k), Ready(k, Own(p), 0), EntrySteps(p), Done(k))
<1> DEFINE M == InK(k)
           A == Ready(k, Own(p), 0)
           B == Done(k)
<1>1. CASE Mode = "Distance"
  <2>1. EntrySteps(p) = GetOutputs(p)
    BY <1>1 DEF EntrySteps
  <2> QED
    BY <1>1, <2>1, OutputsRun
<1>2. CASE Mode = "Matching"
  <2>1. EntrySteps(p) = Matching(p)
    BY <1>2 DEF EntrySteps
  <2> QED
    BY <1>2, <2>1, MatchingRuns
<1>3. CASE Mode = "Pair"
  <2>1. EntrySteps(p) = PairMatching(p)
    BY <1>3 DEF EntrySteps
  <2> QED
    BY <1>3, <2>1, PairRuns
<1> QED
  BY <1>1, <1>2, <1>3, ModeAssumption

\* A round, by any party.
LEMMA RoundRuns ==
    ASSUME NEW p \in Party, NEW k \in Nat, k >= 1
    PROVE  Runs(p, InK(k), Done(k - 1), Round(p), Done(k)) /\ Round(p) \in Seq(AnyStep)
<1> DEFINE a == One(Local("start"))
           b == Offline(p)
           c == Online(p)
           d == EntrySteps(p)
           M == InK(k)
           A == Done(k - 1)
           S == Started(p, k)
           R == Ready(k, {}, 0)
           T == Ready(k, Own(p), 0)
           B == Done(k)
<1>1. Round(p) = Cat(Cat(Cat(a, b), c), d)
  BY DEF Round, EntrySteps, Cat, One
<1>2. /\ A \in SUBSET Has /\ S \in SUBSET Has /\ R \in SUBSET Has /\ T \in SUBSET Has
      /\ B \in SUBSET Has
  BY HasSets
<1>3. a \in Seq(AnyStep) /\ b \in Seq(AnyStep) /\ c \in Seq(AnyStep) /\ d \in Seq(AnyStep)
  <2>1. p \in Party /\ 0 \in Nat
    BY Roles
  <2>2. Local("start") \in AnyStep
    BY <2>1, StillStep
  <2>3. b \in Seq(AnyStep)
    BY OfflinePaired, PairedSteps
  <2>4. c \in Seq(OtherSteps(p)) /\ d \in Seq(OtherSteps(p))
    BY <2>1, OnlineMatch, EntryMatch
  <2> HIDE DEF c, d
  <2>5. c \in Seq(AnyStep) /\ d \in Seq(AnyStep)
    BY <2>4, OtherPaired
  <2> QED
    BY <2>2, <2>3, <2>5, OneType
<1>4. Runs(p, M, A, a, S)
  BY StartRuns
<1>5. Runs(p, M, S, b, R)
  BY OfflineRuns
<1>6. Runs(p, M, R, c, T)
  <2>1. CASE p = 0
    <3>1. c = Nil /\ T = R
      BY <2>1, Roles DEF Online, Nil, Own
    <3> QED
      BY <1>2, <3>1, RunsNil
  <2>2. CASE p \in Peers
    <3>1. Own(p) = OwnWires[p]
      BY <2>2 DEF Own
    <3> QED
      BY <2>2, <3>1, OnlineRuns
  <2> QED
    BY <2>1, <2>2, Roles
<1>7. Runs(p, M, T, d, B)
  BY EntryRuns
<1> HIDE DEF a, b, c, d, M, A, S, R, T, B
<1>8. Runs(p, M, A, Cat(a, b), R) /\ Cat(a, b) \in Seq(AnyStep)
  BY <1>2, <1>3, <1>4, <1>5, RunsCat, CatType
<1> DEFINE e == Cat(a, b)
<1>9. Runs(p, M, A, Cat(e, c), T) /\ Cat(e, c) \in Seq(AnyStep)
  <2>1. e \in Seq(AnyStep) /\ Runs(p, M, A, e, R)
    BY <1>8
  <2> HIDE DEF e
  <2> QED
    BY <1>2, <1>3, <1>6, <2>1, RunsCat, CatType
<1> DEFINE f == Cat(e, c)
<1>10. Runs(p, M, A, Cat(f, d), B) /\ Cat(f, d) \in Seq(AnyStep)
  <2>1. f \in Seq(AnyStep) /\ Runs(p, M, A, f, T)
    BY <1>9
  <2> HIDE DEF f
  <2> QED
    BY <1>2, <1>3, <1>7, <2>1, RunsCat, CatType
<1> QED
  BY <1>1, <1>10 DEF A, B, M

\* All rounds.
LEMMA BodyRuns ==
    ASSUME NEW p \in Party
    PROVE  Runs(p, Id, Done(0), Body(p), Done(Repeat))
<1> DEFINE n == Repeat
           F == Rounds(p)
           J == [k \in 0 .. n |-> Done(k)]
<1>1. n \in Nat
  BY RepeatAssumption
<1>2. \A k \in 0 .. n : J[k] \in SUBSET Has
  BY DEF Done
<1>3. ASSUME NEW k \in 1 .. n
      PROVE  Runs(p, Id, J[k - 1], F[k], J[k])
  <2>1. k \in Nat /\ k >= 1 /\ k - 1 \in 0 .. n /\ k \in 0 .. n
    BY <1>1
  <2>2. F[k] = InRound(Round(p), k)
    BY DEF Rounds
  <2>3. J[k - 1] = Done(k - 1) /\ J[k] = Done(k)
    BY <2>1
  <2> DEFINE A == Done(k - 1)
             B == Done(k)
             s == Round(p)
  <2>4. Runs(p, InK(k), A, s, B) /\ s \in Seq(AnyStep) /\ A \in SUBSET Has /\ B \in SUBSET Has
    BY <2>1, RoundRuns DEF Done
  <2> HIDE DEF A, B, s
  <2>5. Runs(p, Id, A, InRound(s, k), B)
    BY <2>1, <2>4, RunsInRound
  <2> HIDE DEF F, J
  <2> QED
    BY <2>2, <2>3, <2>5 DEF A, B, s
<1>4. Table(F, 1 .. n, AnyStep)
  <2>1. ASSUME NEW k \in 1 .. n PROVE F[k] \in Seq(AnyStep)
    <3>1. k \in Nat /\ p \in Party
      BY <1>1
    <3> DEFINE s == Round(p)
    <3>2. s \in Paired(p)
      BY <3>1, RoundMatch
    <3>3. F[k] = InRound(s, k)
      BY DEF Rounds
    <3> HIDE DEF s, F
    <3>4. InRound(s, k) \in Paired(p)
      BY <3>1, <3>2, InRoundMoves
    <3> QED
      BY <3>3, <3>4, PairedSteps
  <2> HIDE DEF F
  <2> QED
    BY <2>1 DEF Table
<1>5. J[0] = Done(0) /\ J[n] = Done(n)
  BY <1>1
<1> HIDE DEF J, F, n
<1>6. Runs(p, Id, J[0], Each(UpTo(n), F), J[n])
  BY <1>1, <1>2, <1>3, <1>4, RunsUpTo
<1> QED
  BY <1>5, <1>6 DEF n, F, Body

\* What p has before each step of its script.
IsTrace(p, f) ==
    /\ f \in [0 .. Len(Body(p)) -> Has] /\ f[0] = Nothing /\ Run(p, Id, f, Body(p))
    /\ f[Len(Body(p))].round = Repeat
\* One such trace, and what p has now.
Trace(p) == CHOOSE f : IsTrace(p, f)
Ghost(p) == Trace(p)[pc[p] - 1]

\* There is such a trace.
LEMMA TraceOf ==
    ASSUME NEW p \in Party
    PROVE  IsTrace(p, Trace(p))
<1>1. Nothing \in Done(0)
  <2>1. NoArray \in [what : Whats, ws : Seq(Nat)]
    BY Literals DEF NoArray
  <2> DEFINE G == [q \in Party |-> NoArray]
  <2>2. G \in [Party -> [what : Whats, ws : Seq(Nat)]]
    BY <2>1
  <2>3. Nothing = [round |-> 0, pre |-> 0, known |-> {}, got |-> G, read |-> 0]
    BY DEF Nothing
  <2> HIDE DEF G
  <2> QED
    BY <2>2, <2>3 DEF Done, Has
<1>2. \E f : IsTrace(p, f)
  BY <1>1, BodyRuns DEF Runs, IsTrace, Done
<1> HIDE DEF IsTrace
<1> QED
  BY <1>2 DEF Trace

\* What the next step of p needs is there, and what there is after it.
LEMMA GhostNext ==
    ASSUME Places, NEW p \in Party, pc[p] <= Len(Body(p))
    PROVE  /\ Ghost(p) \in Has /\ Allowed(p, Ghost(p), At(p))
           /\ pc' = [pc EXCEPT ![p] = @ + 1] =>
                 /\ Ghost(p)' = After(p, Ghost(p), At(p))
                 /\ \A q \in Party : q # p => Ghost(q)' = Ghost(q)
<1> DEFINE i == pc[p]
           f == Trace(p)
           b == Body(p)
<1>1. /\ i \in 1 .. Len(b) /\ i - 1 \in 0 .. Len(b) /\ Len(b) \in Nat /\ i \in Nat
      /\ At(p) = b[i] /\ At(p) \in AnyStep
  BY AtFacts
<1>2. f \in [0 .. Len(b) -> Has] /\ Run(p, Id, f, b)
  BY TraceOf DEF IsTrace
<1>3. Id[b[i]] = At(p)
  BY <1>1 DEF Id
<1>4. Ghost(p) = f[i - 1]
  BY DEF Ghost
<1> HIDE DEF f, b
<1>5. OneRun(p, Id, f, b, i)
  BY <1>1, <1>2 DEF Run, i
<1>6. Ghost(p) \in Has /\ Allowed(p, Ghost(p), At(p)) /\ f[i] = After(p, Ghost(p), At(p))
  BY <1>1, <1>2, <1>3, <1>4, <1>5 DEF OneRun
<1>7. ASSUME pc' = [pc EXCEPT ![p] = @ + 1]
      PROVE  /\ Ghost(p)' = After(p, Ghost(p), At(p))
             /\ \A q \in Party : q # p => Ghost(q)' = Ghost(q)
  <2>1. pc \in [Party -> Nat]
    BY DEF Places
  <2>2. pc'[p] = i + 1 /\ \A q \in Party : q # p => pc'[q] = pc[q]
    BY <1>7, <2>1
  <2>3. (i + 1) - 1 = i
    BY <1>1
  <2>4. Trace(p)' = Trace(p) /\ \A q : Trace(q)' = Trace(q)
    OBVIOUS
  <2>5. Ghost(p)' = f[i]
    BY <2>2, <2>3 DEF Ghost, f
  <2>6. \A q \in Party : q # p => Ghost(q)' = Ghost(q)
    BY <2>2 DEF Ghost
  <2> QED
    BY <1>6, <2>5, <2>6
<1> QED
  BY <1>6, <1>7

\* Whoever stays has what they had.
LEMMA GhostKept ==
    ASSUME pc' = pc
    PROVE  \A p : Ghost(p)' = Ghost(p)
BY DEF Ghost
-----------------------------------------------------------------------------
(***************************************************************************)
(* The values.  A context is what decides which values are right: the SP's *)
(* round, the tape, the inputs, and the SP's random shares of this round.  *)
(* Fits(c, q, what, w, k, v): v is what q sends as `what' for wire w in    *)
(* round k.  The keys and what is made of them fit as long as the SP is    *)
(* still in their round.                                                   *)
(***************************************************************************)
KeyFor(c, w) == [alpha |-> SPMask[c.tape][w] % RtModulus, rho |-> c.rho[w]]
\* q's share of the comparison of wire w.
ShareOf(c, q, w) ==
    ToField(DCFEval(IF q \in Net!Rider THEN 0 ELSE 1, KeyFor(c, w),
                    Masked(c.tape, c.inputs)[w] - Threshold))
\* What is right for q to send.
Expected(c, q, what, w) ==
    IF what = "preproc" THEN (IF w \in Products THEN SPProd2[c.tape][w] ELSE SPShare2[c.tape][w])
    ELSE IF what = "level" THEN QRight(q, w, c.tape, c.inputs)
    ELSE IF what = "key" THEN KeyFor(c, w)
    ELSE IF what = "share" THEN ShareOf(c, q, w)
    ELSE Masked(c.tape, c.inputs)[w]
\* What depends on the SP's random shares.
WithKeys == {"key", "share"}
Fits(c, q, what, w, k, v) ==
    /\ what \in WithKeys => k <= c.round
    /\ what \notin {"lengths", ""} /\ (what \in WithKeys => k = c.round) => v = Expected(c, q, what, w)
\* An element of a stream, and all of a stream from q.
ElementFits(c, q, x) == Fits(c, q, x.tag[1], x.tag[2], x.tag[3], x.v)
AllFit(c, q, s) == \A j \in 1 .. Len(s) : ElementFits(c, q, s[j])

\* The sum of the two owners' shares.
Both(c, w) == ShareOf(c, Gate(w).rider_id, w) + ShareOf(c, Gate(w).driver_id, w)
\* The SP's answers: a pair matches if both its comparisons hold.
Answers(c) ==
    [k \in 1 .. Len(circ.outputs) \div 2 |->
        (Both(c, circ.outputs[2 * k - 1]) * Both(c, circ.outputs[2 * k])) % Modulus]
\* p's preprocessing m is there if g says so, and right.
PreRight(c, p, g, m) ==
    IF g.pre = 0 THEN m = <<>>
    ELSE IF p = 0 THEN m.mask = SPMask[c.tape] /\ m.rho = c.rho /\ m.rho \in Rho
    ELSE MasksRight(p, c.tape, m)
\* p has set the wires g says, to their masked values.
WiresRight(c, p, g, v) ==
    /\ DOMAIN v = g.known /\ g.known \subseteq Own(p)
    /\ \A w \in g.known : v[w] = Masked(c.tape, c.inputs)[w]
\* The array read last from each party is the one g says.
ArrayFits(c, q, k, r, a) == \A j \in 1 .. Len(r.ws) : Fits(c, q, r.what, r.ws[j], k, a[j])
ArraysRight(c, p, g, b) == \A q \in Party : ArrayFits(c, q, g.round, g.got[q], b[q])
\* p's results o: the distances read so far, the answers, the shares.
ResultsRight(c, p, g, o) ==
    /\ Mode = "Distance" /\ p = 0 =>
          /\ o \in Seq(Field) /\ Len(o) = g.read /\ g.read <= Len(circ.outputs)
          /\ \A j \in 1 .. g.read : o[j] = Plain[c.inputs][circ.outputs[j]]
    /\ Mode = "Matching" /\ p = 0 => o = <<>> \/ (g.pre = 1 /\ o = Answers(c))
    /\ Mode = "Pair" /\ p \in Peers =>
          \/ o = <<>>
          \/ /\ g.round >= 1 /\ DOMAIN o = 1 .. Len(circ.outputs)
             /\ \A j \in 1 .. Len(circ.outputs) : Fits(c, p, "share", circ.outputs[j], g.round, o[j])
\* All that p holds is right.
PartyRight(c, p, g, m, v, b, o) ==
    PreRight(c, p, g, m) /\ WiresRight(c, p, g, v) /\ ArraysRight(c, p, g, b) /\ ResultsRight(c, p, g, o)

\* Another context in which what fits still fits: the same, or that of a later round.
Follows(c, d) ==
    /\ d.tape = c.tape /\ d.inputs = c.inputs /\ c.round \in Nat /\ d.round \in Nat
    /\ (d.round = c.round /\ d.rho = c.rho) \/ c.round < d.round

\* What fits still does later.
LEMMA FitsLater ==
    ASSUME NEW c, NEW d, Follows(c, d), NEW q, NEW what, NEW w, NEW k \in Nat, NEW v,
           Fits(c, q, what, w, k, v)
    PROVE  Fits(d, q, what, w, k, v)
<1>0. /\ d.tape = c.tape /\ d.inputs = c.inputs /\ c.round \in Nat /\ d.round \in Nat
      /\ (d.round = c.round /\ d.rho = c.rho) \/ c.round < d.round
  BY DEF Follows
<1>1. what \in WithKeys => k <= c.round
  BY DEF Fits
<1>2. what \in WithKeys => k <= d.round
  <2> DEFINE x == c.round
             y == d.round
  <2>1. x \in Nat /\ y \in Nat /\ (y = x \/ x < y) /\ (what \in WithKeys => k <= x)
    BY <1>0, <1>1
  <2> HIDE DEF x, y
  <2> QED
    BY <2>1 DEF y
<1>3. ASSUME what \notin {"lengths", ""}, what \in WithKeys => k = d.round
      PROVE  v = Expected(d, q, what, w)
  <2>1. CASE what \in WithKeys
    <3>1. k = c.round /\ d.round = c.round /\ d.rho = c.rho
      <4> DEFINE x == c.round
                 y == d.round
      <4>1. x \in Nat /\ y \in Nat /\ (y = x \/ x < y) /\ k <= x /\ k = y /\ (y = x => d.rho = c.rho)
        <5>1. k = y
          BY <1>3, <2>1
        <5>2. k <= x
          BY <1>1, <2>1
        <5> QED
          BY <1>0, <5>1, <5>2
      <4> HIDE DEF x, y
      <4> QED
        BY <4>1 DEF x, y
    <3>2. v = Expected(c, q, what, w)
      BY <1>3, <3>1 DEF Fits
    <3>3. KeyFor(d, w) = KeyFor(c, w) /\ d.tape = c.tape /\ d.inputs = c.inputs
      BY <1>0, <3>1 DEF KeyFor
    <3>4. ShareOf(d, q, w) = ShareOf(c, q, w)
      BY <3>3 DEF ShareOf
    <3> QED
      BY <3>2, <3>3, <3>4 DEF Expected
  <2>2. CASE what \notin WithKeys
    <3>1. v = Expected(c, q, what, w)
      BY <1>3, <2>2 DEF Fits
    <3>2. d.tape = c.tape /\ d.inputs = c.inputs /\ what # "key" /\ what # "share"
      BY <2>2 DEF Follows, WithKeys
    <3> QED
      BY <3>1, <3>2 DEF Expected
  <2> QED
    BY <2>1, <2>2
<1> QED
  BY <1>2, <1>3 DEF Fits

\* So does what another party than the SP holds.
LEMMA PartyLater ==
    ASSUME NEW c, NEW d, Follows(c, d), NEW p, p # 0, NEW g \in Has, NEW m, NEW v, NEW b, NEW o,
           PartyRight(c, p, g, m, v, b, o)
    PROVE  PartyRight(d, p, g, m, v, b, o)
<1>1. PreRight(c, p, g, m) /\ WiresRight(c, p, g, v) /\ ArraysRight(c, p, g, b) /\ ResultsRight(c, p, g, o)
  BY DEF PartyRight
<1>2. d.tape = c.tape /\ d.inputs = c.inputs /\ g.round \in Nat
  BY DEF Follows, Has
<1>3. PreRight(d, p, g, m) /\ WiresRight(d, p, g, v)
  BY <1>1, <1>2 DEF PreRight, WiresRight
<1>4. ArraysRight(d, p, g, b)
  BY <1>1, <1>2, FitsLater DEF ArraysRight, ArrayFits
<1>5. ResultsRight(d, p, g, o)
  BY <1>1, <1>2, FitsLater DEF ResultsRight
<1> QED
  BY <1>3, <1>4, <1>5 DEF PartyRight
-----------------------------------------------------------------------------
(***************************************************************************)
(* What the steps do to the streams.                                       *)
(***************************************************************************)
\* data is appended to the stream from p to q.
Extended(S, p, q, data) ==
    LET l == Net!SendLink(p, q)
    IN  /\ Buffered(Net!Link, S, wire, out) /\ data \in Seq(S)
        /\ Buffered(Net!Link, S, wire', out')
        /\ Contents(wire', out', l) = Contents(wire, out, l) \o data
        /\ \A m \in Net!Link : m # l => Contents(wire', out', m) = Contents(wire, out, m)

\* The first n elements of the stream from q to p are taken off it: what p is given.
Shortened(S, p, q, n) ==
    LET l == Net!SendLink(q, p)
        r == Stream(q, p)
    IN  /\ Buffered(Net!Link, S, wire', out')
        /\ r \in Seq(S) /\ n \in Nat /\ n <= Len(r)
        /\ Contents(wire', out', l) = SubSeq(r, n + 1, Len(r))
        /\ \A m \in Net!Link : m # l => Contents(wire', out', m) = Contents(wire, out, m)
        /\ Net!Received(p, q) = SubSeq(r, 1, n)

\* A send appends the step's array.
LEMMA SendEffect ==
    ASSUME IInv, NEW p \in Party, DoSend(p)
    PROVE  LET s == At(p)
           IN  /\ pc[p] <= Len(Body(p)) /\ s \in StepsOf(p) /\ s.op = "send" /\ s.peer \in Party
               /\ Net!Connected(p, s.peer) /\ \E S : Extended(S, p, s.peer, Items(p, s))
<1> DEFINE s == At(p)
           data == Items(p, s)
           X == {data[i] : i \in 1 .. Len(s.ws)}
<1>0. s.op = "send" /\ Net!Send(p, s.peer, data)
  BY DEF DoSend
<1>2. pc[p] <= Len(Body(p)) /\ s \in StepsOf(p)
  <2>1. s # CloseStep
    BY <1>0, CloseFacts
  <2> QED
    BY <2>1, AtFacts DEF IInv
<1>3. PICK q \in Party : q = s.peer /\ Net!Connected(p, q)
  BY <1>0, <1>2 DEF StepsOf, Moves
<1> DEFINE l == Net!SendLink(p, q)
<1>1. s.op = "send" /\ Net!Send(p, q, data)
  BY <1>0, <1>3
<1>4. data \in Seq(X)
  BY <1>1, <1>2, <1>3, SentArray
<1>7. l \in Net!Link
  BY <1>3, FlowLink
<1>8. PICK S0 : Buffered(Net!Link, S0, wire, out)
  BY DEF IInv, Streams
<1> DEFINE S == S0 \cup X
<1> HIDE DEF data, X
<1>9. Buffered(Net!Link, S, wire, out) /\ data \in Seq(S)
  <2>1. Seq(S0) \subseteq Seq(S) /\ Seq(X) \subseteq Seq(S)
    BY SeqMonotonic
  <2> HIDE DEF S
  <2> QED
    BY <1>4, <1>8, <2>1 DEF Buffered
<1> HIDE DEF S
<1>10. /\ Buffered(Net!Link, S, wire', out')
       /\ Contents(wire', out', l) = Contents(wire, out, l) \o data
       /\ \A m \in Net!Link : m # l => Contents(wire', out', m) = Contents(wire, out, m)
  <2> HIDE DEF l
  <2>1. PICK n \in Net!Written(out[l] \o data) :
              /\ wire' = [wire EXCEPT ![l] = @ \o SubSeq(out[l] \o data, 1, n)]
              /\ out' = [out EXCEPT ![l] = SubSeq(out[l] \o data, n + 1, Len(out[l] \o data))]
    BY <1>1 DEF Net!Send, l
  <2>2. out[l] \o data \in Seq(S)
    BY <1>7, <1>9, ConcatProperties DEF Buffered
  <2>3. n \in 0 .. Len(out[l] \o data)
    <3>1. Len(out[l] \o data) \in Nat
      BY <2>2
    <3> QED
      BY <3>1, NetAssumption DEF Net!Written
  <2>4. Appended(wire, out, l, data, n, wire', out')
    BY <2>1 DEF Appended
  <2> QED
    BY ONLY <1>7, <1>9, <2>3, <2>4, StreamAppend
<1>11. Extended(S, p, q, data)
  BY <1>9, <1>10 DEF Extended
<1> HIDE DEF s
<1> QED
  BY <1>1, <1>2, <1>3, <1>11 DEF s, data

\* The return of recv takes off what it returns.
LEMMA EndEffect ==
    ASSUME IInv, NEW p \in Party, EndRecv(p)
    PROVE  LET s == At(p)
           IN  /\ pc[p] <= Len(Body(p)) /\ s \in StepsOf(p) /\ s.op = "recv" /\ s.peer \in Party
               /\ Net!Connected(s.peer, p) /\ \E S : Shortened(S, p, s.peer, Len(s.ws))
<1> DEFINE s == At(p)
           n == Len(s.ws)
<1>0. s.op = "recv" /\ Net!RecvReturn(p, s.peer)
  BY DEF EndRecv
<1>1. PICK q \in Party : q = s.peer /\ Net!Connected(q, p) /\ Net!Connected(p, q)
  BY <1>0, AwaitedTags DEF IInv
<1> DEFINE l == Net!SendLink(q, p)
           r == Stream(q, p)
<1>2. Net!RecvReturn(p, q)
  BY <1>0, <1>1
<1>3. s \in StepsOf(p) /\ pc[p] <= Len(Body(p)) /\ n \in Nat
  BY <1>0, AwaitedTags DEF IInv
<1>4. waiting[p] = [src |-> q, n |-> n]
  <2>1. waiting[p].src = q /\ q # -1
    BY <1>2, Parties DEF Net!RecvReturn
  <2>2. waiting[p] # Net!Idle
    BY <2>1 DEF Net!Idle
  <2> QED
    BY <1>1, <2>2 DEF IInv, Waits
<1>5. l \in Net!Link /\ Net!RecvLink(p, q) = l
  BY <1>1, FlowLink
<1>7. ReadOff(wire, l, n, wire') /\ out' = out
  BY <1>2, <1>4, <1>5 DEF Net!RecvReturn, ReadOff
<1>8. PICK S : Buffered(Net!Link, S, wire, out)
  BY DEF IInv, Streams
<1> DEFINE c == Contents(wire, out, l)
<1>9. /\ Buffered(Net!Link, S, wire', out)
      /\ Contents(wire', out, l) = SubSeq(c, n + 1, Len(c))
      /\ \A m \in Net!Link : m # l => Contents(wire', out, m) = Contents(wire, out, m)
      /\ c \in Seq(S) /\ n <= Len(c) /\ SubSeq(wire[l], 1, n) = SubSeq(c, 1, n)
  <2> HIDE DEF l, n
  <2> QED
    BY ONLY <1>3, <1>5, <1>7, <1>8, StreamRead
<1>10. c = r
  BY DEF Stream, l
<1>11. Net!Received(p, q) = SubSeq(wire[l], 1, n)
  BY <1>4, <1>5 DEF Net!Received
<1> HIDE DEF c, r, s, n
<1>12. Shortened(S, p, q, n)
  BY <1>3, <1>7, <1>9, <1>10, <1>11 DEF Shortened, l, r
<1> QED
  BY <1>0, <1>1, <1>3, <1>12 DEF s, n

\* The other steps leave the streams as they are.
StreamsSame == \A x, y \in Party : Net!Connected(x, y) => Stream(x, y)' = Stream(x, y)

\* A flush moves what is buffered to the wire: the streams stay.
LEMMA FlushEffect ==
    ASSUME IInv, NEW L, Net!FlushLinks(L)
    PROVE  StreamsSame
<1>1. PICK S : Buffered(Net!Link, S, wire, out)
  BY DEF IInv, Streams
<1>2. Flushed(Net!Link, wire, out, L, wire', out')
  BY DEF Net!FlushLinks, Flushed
<1>3. \A m \in Net!Link : Contents(wire', out', m) = Contents(wire, out, m)
  BY ONLY <1>1, <1>2, StreamFlush
<1> QED
  BY <1>3, FlowLink DEF StreamsSame, Stream

\* Nor does a step change them that leaves the network alone.
LEMMA NetEffect ==
    ASSUME wire' = wire, out' = out
    PROVE  StreamsSame
BY DEF StreamsSame, Stream, Contents
-----------------------------------------------------------------------------
(***************************************************************************)
(* The parts of what a party holds, after a step.                          *)
(***************************************************************************)
\* A step that touches neither preprocessing, wires, arrays nor results.
LEMMA PreKept ==
    ASSUME NEW p, NEW g, NEW x, NEW h, AfterIs(p, g, x, h), NEW c, NEW m, PreRight(c, p, g, m),
           ~ Wait(x, "preproc")
    PROVE  PreRight(c, p, h, m)
BY DEF AfterIs, PreRight

\* A step that sets no wires leaves them right: only inputs and the end of a level do.
LEMMA WiresKept ==
    ASSUME NEW p, NEW g, NEW x, NEW h, AfterIs(p, g, x, h), NEW c, NEW v, WiresRight(c, p, g, v),
           x.what # "input", ~ EndsLevel(x)
    PROVE  WiresRight(c, p, h, v)
BY DEF AfterIs, WiresRight

\* A step that reads nothing keeps what was read last.
LEMMA ArraysKept ==
    ASSUME NEW p, NEW g, NEW x, NEW h, AfterIs(p, g, x, h), NEW c, NEW b, ArraysRight(c, p, g, b),
           x.op # "recv"
    PROVE  ArraysRight(c, p, h, b)
BY DEF AfterIs, ArraysRight

\* A step before the output leaves the results as they are.
LEMMA ResultsKept ==
    ASSUME NEW p, NEW g \in Has, NEW x, NEW h, AfterIs(p, g, x, h), NEW c, NEW o,
           ResultsRight(c, p, g, o), ~ Wait(x, "output")
    PROVE  ResultsRight(c, p, h, o)
<1>1. h.round = g.round /\ h.read = g.read /\ (g.pre = 1 => h.pre = 1)
  BY DEF AfterIs
<1> QED
  BY <1>1 DEF ResultsRight

\* A new round.
LEMMA StartRight ==
    ASSUME NEW p \in Party, NEW g \in Has, NEW x, x.what = "start", NEW c, c.tape \in Tapes,
           NEW m, p = 0 => m.mask = SPMask[c.tape] /\ m.rho = c.rho /\ m.rho \in Rho,
           p \in Net!Rider => m = RiderMasks[c.tape][p],
           p \in Net!Driver => m = <<>>,
           NEW b
    PROVE  PartyRight(c, p, After(p, g, x), m, <<>>, b, <<>>)
<1> DEFINE h == After(p, g, x)
           G == [q \in Party |-> NoArray]
           P == IF p \in Net!Driver THEN 0 ELSE 1
<1>1. h = [round |-> x.round, pre |-> P, known |-> {}, got |-> G, read |-> 0]
  BY DEF After
<1>2. \A q \in Party : G[q] = NoArray
  OBVIOUS
<1> HIDE DEF G
<1>3. h.pre = P /\ h.known = {} /\ h.got = G /\ h.read = 0
  BY <1>1
<1> HIDE DEF h
<1>4. PreRight(c, p, h, m)
  <2>1. CASE p \in Net!Driver
    BY <1>3, <2>1 DEF PreRight
  <2>2. CASE p = 0
    <3>1. p \notin Net!Driver
      BY <2>2, Roles
    <3> QED
      BY <1>3, <2>2, <3>1 DEF PreRight
  <2>3. CASE p \in Net!Rider
    <3>1. p \notin Net!Driver /\ p # 0 /\ p \in Peers
      BY <2>3, Roles
    <3>2. Corrections(p, c.tape, <<>>, <<>>)
      BY <3>1 DEF Corrections
    <3>3. MasksRight(p, c.tape, PartyMasks(p, c.tape, <<>>, <<>>))
      BY <3>1, <3>2, PartyMasksRight
    <3>4. RiderMasks[c.tape][p] = PartyMasks(p, c.tape, <<>>, <<>>)
      BY <2>3 DEF RiderMasks
    <3>5. MasksRight(p, c.tape, m)
      BY <2>3, <3>3, <3>4
    <3> QED
      BY <1>3, <3>1, <3>5 DEF PreRight
  <2> QED
    BY <2>1, <2>2, <2>3, Roles
<1>5. WiresRight(c, p, h, <<>>)
  BY <1>3 DEF WiresRight
<1>6. ArraysRight(c, p, h, b)
  <2>1. NoArray.ws = Nil /\ Len(Nil) = 0
    BY NilType DEF NoArray
  <2> QED
    BY <1>2, <1>3, <2>1 DEF ArraysRight, ArrayFits
<1>7. ResultsRight(c, p, h, <<>>)
  <2>1. <<>> \in Seq(Field) /\ Len(<<>>) = 0 /\ Len(circ.outputs) \in Nat
    <3>1. circ.outputs \in Seq(Wires)
      BY CircuitAssumption
    <3> QED
      BY <3>1, LenProperties
  <2> QED
    BY <1>3, <2>1 DEF ResultsRight
<1> QED
  BY <1>4, <1>5, <1>6, <1>7 DEF PartyRight, h

\* An input's wire is set.
LEMMA InputRight ==
    ASSUME NEW p \in Peers, NEW g \in Has, NEW x, NEW h, AfterIs(p, g, x, h), x.what = "input",
           NEW w \in OwnWires[p], x.ws[1] = w,
           NEW c, NEW v, WiresRight(c, p, g, v)
    PROVE  WiresRight(c, p, h, With(v, w, Masked(c.tape, c.inputs)[w]))
<1> DEFINE y == Masked(c.tape, c.inputs)[w]
           u == With(v, w, y)
<1>1. h.known = g.known \cup {w}
  BY DEF AfterIs
<1>2. DOMAIN v = g.known /\ g.known \subseteq OwnWires[p] /\ Own(p) = OwnWires[p]
  BY DEF WiresRight, Own
<1>3. DOMAIN u = g.known \cup {w} /\ \A k \in g.known \cup {w} : u[k] = IF k = w THEN y ELSE v[k]
  <2> HIDE DEF y
  <2> QED
    BY <1>2 DEF With
<1> HIDE DEF u
<1> QED
  BY <1>1, <1>2, <1>3 DEF WiresRight, u

\* An array is read.
LEMMA ArrayRight ==
    ASSUME NEW p, NEW g, NEW x, NEW h, AfterIs(p, g, x, h), x.op = "recv", x.peer \in Party,
           NEW c, NEW b, DOMAIN b = Party, ArraysRight(c, p, g, b),
           NEW a, \A j \in 1 .. Len(x.ws) : Fits(c, x.peer, x.what, x.ws[j], g.round, a[j])
    PROVE  ArraysRight(c, p, h, [b EXCEPT ![x.peer] = a])
<1> DEFINE e == [b EXCEPT ![x.peer] = a]
<1>1. \A q \in Party : e[q] = IF q = x.peer THEN a ELSE b[q]
  OBVIOUS
<1>2. h.round = g.round /\ \A q \in Party : h.got[q] = IF q = x.peer THEN Array(x) ELSE g.got[q]
  BY DEF AfterIs
<1>3. Array(x).what = x.what /\ Array(x).ws = x.ws
  BY DEF Array
<1> HIDE DEF e
<1>4. ASSUME NEW q \in Party PROVE ArrayFits(c, q, h.round, h.got[q], e[q])
  <2>1. CASE q = x.peer
    BY <1>1, <1>2, <1>3, <2>1 DEF ArrayFits
  <2>2. CASE q # x.peer
    BY <1>1, <1>2, <2>2 DEF ArraysRight
  <2> QED
    BY <2>1, <2>2
<1> QED
  BY <1>4 DEF ArraysRight, e

\* The preprocessing is read: the product shares of the driver's gates, then the shares of
\* the input masks.
LEMMA PreprocRight ==
    ASSUME NEW p \in Net!Driver, NEW g, NEW x, NEW h, AfterIs(p, g, x, h), Wait(x, "preproc"),
           x.ws = PreprocWires(p), NEW c, c.tape \in Tapes,
           NEW a, Len(a) = Len(x.ws), NEW V, a \in Seq(V),
           \A j \in 1 .. Len(x.ws) : Fits(c, 0, "preproc", x.ws[j], g.round, a[j]),
           NEW n, n = LengthValues(p)
    PROVE  PreRight(c, p, h, PartyMasks(p, c.tape, SubSeq(a, 1, n[2]), SubSeq(a, n[2] + 1, n[1])))
<1> DEFINE S == SecWires[p]
           P == ParWires[p]
           i == Len(S)
           k == Len(P)
           sec == SubSeq(a, 1, i)
           par == SubSeq(a, i + 1, i + k)
<1>1. n[1] = i + k /\ n[2] = i
  BY DEF LengthValues
<1>2. /\ S \in Seq(Wires) /\ Elements(S) = {w \in Wires : Gate(w).driver_id = p /\ w \in Products}
      /\ P \in Seq(Wires) /\ Elements(P) = {w \in Wires : Gate(w).driver_id = p /\ Gate(w).type = "kInp"}
  BY CorrectedWires
<1>3. x.ws = S \o P
  BY DEF PreprocWires
<1> HIDE DEF S, P
<1>4. i \in Nat /\ k \in Nat /\ Len(x.ws) = i + k
      /\ (\A j \in 1 .. i : x.ws[j] = S[j]) /\ \A j \in 1 .. k : x.ws[i + j] = P[j]
  BY <1>2, <1>3, LenProperties
<1> HIDE DEF i, k
<1>5. \A j \in 1 .. Len(x.ws) :
         a[j] = IF x.ws[j] \in Products THEN SPProd2[c.tape][x.ws[j]] ELSE SPShare2[c.tape][x.ws[j]]
  BY DEF Fits, Expected, WithKeys
<1>6. (\A j \in 1 .. i : sec[j] = a[j]) /\ \A j \in 1 .. k : par[j] = a[i + j]
  BY <1>4
<1> HIDE DEF sec, par
<1>7. ASSUME NEW j \in 1 .. i PROVE sec[j] = SPProd2[c.tape][S[j]]
  <2>1. S[j] \in Products
    BY <1>2 DEF Elements, i
  <2> QED
    BY <1>4, <1>5, <1>6, <2>1
<1>8. ASSUME NEW j \in 1 .. k PROVE par[j] = SPShare2[c.tape][P[j]]
  <2>1. P[j] \notin Products
    <3>1. Gate(P[j]).type = "kInp"
      BY <1>2 DEF Elements, k
    <3> QED
      BY <3>1 DEF Products, Communicating
  <2>2. i + j \in 1 .. Len(x.ws)
    BY <1>4
  <2> QED
    BY <1>4, <1>5, <1>6, <2>1, <2>2
<1>9. Corrections(p, c.tape, sec, par)
  BY <1>7, <1>8 DEF Corrections, S, P, i, k
<1>10. p \in Peers /\ p # 0
  BY Roles
<1>11. MasksRight(p, c.tape, PartyMasks(p, c.tape, sec, par))
  BY <1>9, <1>10, PartyMasksRight
<1>12. h.pre = 1
  BY DEF AfterIs
<1> QED
  BY <1>1, <1>10, <1>11, <1>12 DEF PreRight, sec, par

\* The last array read from q, if it is `what' for the wires ws.
LEMMA HasArray ==
    ASSUME NEW c, NEW p, NEW g, NEW b, ArraysRight(c, p, g, b), NEW q \in Party, NEW what, NEW ws,
           g.got[q] = [what |-> what, ws |-> ws]
    PROVE  \A j \in 1 .. Len(ws) : Fits(c, q, what, ws[j], g.round, b[q][j])
<1> DEFINE r == g.got[q]
<1>1. r.what = what /\ r.ws = ws
  OBVIOUS
<1>2. ArrayFits(c, q, g.round, r, b[q])
  BY DEF ArraysRight
<1> HIDE DEF r
<1> QED
  BY <1>1, <1>2 DEF ArrayFits

\* The other owner of a wire.
LEMMA OtherOwner ==
    ASSUME NEW p \in Peers, NEW w \in OwnWires[p]
    PROVE  PeerOf(p, w) \in Peers /\ Between(p, PeerOf(p, w), w)
<1>1. w \in Wires /\ (p = Gate(w).rider_id \/ p = Gate(w).driver_id)
  BY OwnWiresOf
<1>2. Gate(w).rider_id \in Peers /\ Gate(w).driver_id \in Peers
  BY <1>1, Owners, Roles
<1> QED
  BY <1>1, <1>2 DEF PeerOf, Between

\* The end of a level: every wire of the level has its masked value.
LEMMA LevelRight ==
    ASSUME NEW p \in Peers, NEW g \in Has, NEW l \in 1 .. Len(Levels), g.pre = 1,
           g.known \subseteq Until[l][p], LevelArrays(p, g, l),
           tape \in Tapes, inputs \in Inputs, NEW c, c.tape = tape, c.inputs = inputs,
           PreRight(c, p, g, pre[p]), WiresRight(c, p, g, wires[p]), ArraysRight(c, p, g, buf[p]),
           NEW x, x.peer = l, EndsLevel(x), NEW h, AfterIs(p, g, x, h)
    PROVE  WiresRight(c, p, h, AfterLevel(p, l))
<1> DEFINE t == c.tape
           i == c.inputs
           U == Until[l][p]
<1>0. t \in Tapes /\ i \in Inputs
  OBVIOUS
<1>1. MasksRight(p, t, pre[p])
  BY Roles DEF PreRight
<1>2. DOMAIN wires[p] = g.known /\ \A w \in g.known : wires[p][w] = Masked(t, i)[w]
  BY DEF WiresRight
<1>3. U = {w \in OwnWires[p] : Lev(w) < l}
  BY LevelParts
<1>4. ASSUME NEW w \in U
      PROVE  /\ Lev(w) < l - 1 \/ Gate(w).type = "kInp" => w \in DOMAIN wires[p]
             /\ w \in Products /\ Lev(w) = l - 1 =>
                   LET q == PeerOf(p, w)
                   IN  buf[p][q][Position(LevelWires[l][p][q], w)] = QRight(q, w, t, i)
  <2>1. Lev(w) < l - 1 \/ Gate(w).type = "kInp" => w \in DOMAIN wires[p]
    BY <1>2 DEF LevelArrays
  <2>2. ASSUME w \in Products, Lev(w) = l - 1
        PROVE  LET q == PeerOf(p, w)
               IN  buf[p][q][Position(LevelWires[l][p][q], w)] = QRight(q, w, t, i)
    <3> DEFINE q == PeerOf(p, w)
               ws == LevelWires[l][p][q]
               j == Position(ws, w)
    <3>1. w \in OwnWires[p] /\ w \in Wires
      BY <1>3, OwnWiresOf
    <3>2. q \in Peers /\ Between(p, q, w) /\ q \in Party
      BY <3>1, OtherOwner, Roles
    <3>3. g.got[q] = [what |-> "level", ws |-> ws]
      BY <2>2 DEF LevelArrays
    <3>4. ws \in Seq(Wires) /\ w \in Elements(ws)
      BY <2>2, <3>1, <3>2, LevelProducts
    <3>5. j \in 1 .. Len(ws) /\ ws[j] = w
      BY <3>4, PositionOf
    <3> HIDE DEF q, ws, j
    <3>6. Fits(c, q, "level", ws[j], g.round, buf[p][q][j])
      <4> DEFINE b == buf[p]
                 what == "level"
      <4>1. ArraysRight(c, p, g, b) /\ g.got[q] = [what |-> what, ws |-> ws]
        BY <3>3
      <4> HIDE DEF b, what
      <4>2. \A k \in 1 .. Len(ws) : Fits(c, q, what, ws[k], g.round, b[q][k])
        BY <3>2, <4>1, HasArray
      <4> QED
        BY <3>5, <4>2 DEF b, what
    <3>7. buf[p][q][j] = QRight(q, w, t, i)
      BY <3>5, <3>6 DEF Fits, Expected, WithKeys
    <3> QED
      BY <3>7 DEF q, ws, j
  <2> QED
    BY <2>1, <2>2
<1>5. LevelReady(p, l, t, i)
  BY <1>1, <1>2, <1>4 DEF LevelReady
<1> HIDE DEF t, i
<1>6. AfterLevel(p, l) = [w \in U |-> Masked(t, i)[w]]
  BY <1>0, <1>5, AfterLevelRight
<1>7. h.known = U
  BY DEF AfterIs, EndsLevel
<1>8. U \subseteq Own(p)
  BY <1>3 DEF Own
<1> HIDE DEF U
<1> QED
  BY <1>6, <1>7, <1>8 DEF WiresRight, t, i

\* The SP reads an output and takes its mask off.
LEMMA OutputRight ==
    ASSUME NEW g \in Has, g.pre = 1, g.read < Len(circ.outputs), Mode = "Distance",
           NEW c, c.tape \in Tapes, c.inputs \in Inputs, NEW m, PreRight(c, 0, g, m),
           NEW o, ResultsRight(c, 0, g, o), NEW w, w = circ.outputs[g.read + 1],
           NEW x, Wait(x, "output"), NEW h, AfterIs(0, g, x, h),
           NEW v, v = Masked(c.tape, c.inputs)[w]
    PROVE  ResultsRight(c, 0, h, Append(o, (v - m.mask[w]) % Modulus))
<1> DEFINE y == (v - m.mask[w]) % Modulus
           e == Append(o, y)
           n == g.read
           P == Plain[c.inputs]
<1>1. /\ o \in Seq(Field) /\ Len(o) = n /\ n \in Nat /\ n + 1 <= Len(circ.outputs)
      /\ \A j \in 1 .. n : o[j] = P[circ.outputs[j]]
  <2>1. Len(circ.outputs) \in Nat
    BY CircuitAssumption, LenProperties
  <2> QED
    BY <2>1 DEF ResultsRight, Has
<1>2. w \in Wires
  <2>1. n + 1 \in 1 .. Len(circ.outputs) /\ circ.outputs \in Seq(Wires)
    BY <1>1, CircuitAssumption
  <2> QED
    BY <2>1, ElementOfSeq
<1>3. y = P[w] /\ y \in Field
  <2> DEFINE a == P[w]
             k == SPMask[c.tape][w]
  <2>1. m.mask[w] = k
    BY DEF PreRight
  <2>2. v = (a + k) % Modulus /\ a \in Int /\ k \in Int
    BY <1>2, MaskedField
  <2>3. a \in Field
    BY <1>2, PlainOf
  <2> HIDE DEF a, k
  <2>4. y = (((a + k) % Modulus) - k) % Modulus
    BY <2>1, <2>2
  <2>5. (((a + k) % Modulus) - k) % Modulus = ((a + k) - k) % Modulus
    <3> DEFINE s == a + k
               z == -k
    <3>1. s \in Int /\ z \in Int
      BY <2>2
    <3> HIDE DEF s, z
    <3>2. ((s % Modulus) + z) % Modulus = (s + z) % Modulus
      BY <3>1, ModulusAssumption, ModAbsorbs
    <3>3. (s % Modulus) \in Int
      BY <3>1, ModulusAssumption, ModRange
    <3>4. (s % Modulus) + z = (s % Modulus) - k /\ s + z = s - k
      BY <2>2, <3>1, <3>3 DEF z
    <3> QED
      BY <3>2, <3>4 DEF s
  <2>6. (a + k) - k = a
    BY <2>2
  <2>7. a % Modulus = a
    BY <2>3, ModulusAssumption, ModSmall DEF Field
  <2> QED
    BY <2>3, <2>4, <2>5, <2>6, <2>7 DEF a
<1> HIDE DEF y, n, P
<1>4. /\ e \in Seq(Field) /\ Len(e) = n + 1 /\ e[n + 1] = y
      /\ \A j \in 1 .. n : e[j] = o[j]
  BY <1>1, <1>3
<1> HIDE DEF e
<1>5. h.read = n + 1
  BY DEF AfterIs, n
<1>6. \A j \in 1 .. n + 1 : e[j] = P[circ.outputs[j]]
  <2>1. \A j \in 1 .. n + 1 : j \in 1 .. n \/ j = n + 1
    BY <1>1
  <2> QED
    BY <1>1, <1>3, <1>4, <2>1 DEF n
<1> QED
  BY <1>1, <1>4, <1>5, <1>6, ModeAssumption DEF ResultsRight, e, y, P

\* p's result of a comparison, from its key and its masked wire.
LEMMA ComparisonFits ==
    ASSUME NEW p \in Peers, NEW g \in Has, NEW c, ArraysRight(c, p, g, buf[p]),
           WiresRight(c, p, g, wires[p]), g.got[0] = [what |-> "key", ws |-> MyOutputs[p]],
           Elements(MyOutputs[p]) \subseteq g.known, NEW i \in 1 .. Len(MyOutputs[p])
    PROVE  Fits(c, p, "share", MyOutputs[p][i], g.round, Comparison(p, i))
<1> DEFINE w == MyOutputs[p][i]
           k == buf[p][0][i]
           r == g.round
<1>1. 0 \in Party
  BY Roles
<1>2. Fits(c, 0, "key", w, r, k)
  <2> DEFINE b == buf[p]
             what == "key"
             ws == MyOutputs[p]
  <2>1. ArraysRight(c, p, g, b) /\ g.got[0] = [what |-> what, ws |-> ws]
    OBVIOUS
  <2> HIDE DEF b, what, ws
  <2>2. \A j \in 1 .. Len(ws) : Fits(c, 0, what, ws[j], g.round, b[0][j])
    BY <1>1, <2>1, HasArray
  <2> QED
    BY <2>2 DEF b, what, ws
<1>3. wires[p][w] = Masked(c.tape, c.inputs)[w]
  <2>1. w \in g.known
    BY DEF Elements
  <2> QED
    BY <2>1 DEF WiresRight
<1>4. Comparison(p, i) = ToField(DCFEval(IF p \in Net!Rider THEN 0 ELSE 1, k, wires[p][w] - Threshold))
  BY DEF Comparison
<1> HIDE DEF w, k, r
<1>5. r <= c.round /\ (r = c.round => k = KeyFor(c, w))
  BY <1>2 DEF Fits, Expected, WithKeys
<1>6. r = c.round => Comparison(p, i) = ShareOf(c, p, w)
  BY <1>3, <1>4, <1>5 DEF ShareOf
<1> QED
  BY <1>5, <1>6 DEF Fits, Expected, WithKeys, w, r

\* A party's own outputs.
LEMMA OwnOutput ==
    ASSUME NEW p \in Peers, NEW j \in 1 .. Len(circ.outputs), Mine(p, circ.outputs[j])
    PROVE  /\ Position(MyOutputs[p], circ.outputs[j]) \in 1 .. Len(MyOutputs[p])
           /\ MyOutputs[p][Position(MyOutputs[p], circ.outputs[j])] = circ.outputs[j]
<1> DEFINE s == circ.outputs
           w == s[j]
           S == OwnWires[p]
<1>1. s \in Seq(Wires) /\ w \in Wires
  BY CircuitAssumption, ElementOfSeq
<1>2. w \in Elements(s) /\ w \in S
  BY <1>1 DEF Elements, OwnWires
<1>3. MyOutputs[p] = Pick(s, S)
  BY DEF MyOutputs
<1> HIDE DEF s, w, S
<1>4. MyOutputs[p] \in Seq(Wires) /\ w \in Elements(MyOutputs[p])
  BY <1>1, <1>2, <1>3, PickProperties
<1>5. Position(MyOutputs[p], w) \in 1 .. Len(MyOutputs[p]) /\ MyOutputs[p][Position(MyOutputs[p], w)] = w
  BY <1>4, PositionOf
<1> QED
  BY <1>5 DEF s, w

\* The SP's answers, from the parties' shares.
LEMMA MatchRight ==
    ASSUME NEW g \in Has, NEW c, c.round = g.round, NEW b, ArraysRight(c, 0, g, b),
           \A q \in Peers : g.got[q] = [what |-> "share", ws |-> MyOutputs[q]]
    PROVE  MatchOf(b) = Answers(c)
<1>1. ASSUME NEW q \in Peers, NEW j \in 1 .. Len(circ.outputs), Mine(q, circ.outputs[j])
      PROVE  b[q][Position(MyOutputs[q], circ.outputs[j])] = ShareOf(c, q, circ.outputs[j])
  <2> DEFINE w == circ.outputs[j]
             ws == MyOutputs[q]
             i == Position(ws, w)
             what == "share"
  <2>1. i \in 1 .. Len(ws) /\ ws[i] = w
    BY <1>1, OwnOutput
  <2>2. q \in Party /\ g.got[q] = [what |-> what, ws |-> ws]
    BY Roles
  <2> HIDE DEF w, ws, i, what
  <2>3. \A n \in 1 .. Len(ws) : Fits(c, q, what, ws[n], g.round, b[q][n])
    BY <2>2, HasArray
  <2>4. Fits(c, q, "share", w, c.round, b[q][i])
    BY <2>1, <2>3 DEF what
  <2>5. b[q][i] = ShareOf(c, q, w)
    BY <2>4 DEF Fits, Expected, WithKeys
  <2> QED
    BY <2>5 DEF w, ws, i
<1>2. ASSUME NEW j \in 1 .. Len(circ.outputs)
      PROVE  Reconstruct(b, circ.outputs[j]) = Both(c, circ.outputs[j])
  <2> DEFINE w == circ.outputs[j]
             r == Gate(w).rider_id
             d == Gate(w).driver_id
  <2>1. w \in Wires
    BY CircuitAssumption, ElementOfSeq
  <2>2. r \in Peers /\ d \in Peers /\ Mine(r, w) /\ Mine(d, w)
    BY <2>1, Owners, Roles DEF Mine
  <2>3. b[r][Position(MyOutputs[r], w)] = ShareOf(c, r, w)
    <3> HIDE DEF r, d
    <3> QED
      BY <1>1, <2>2
  <2>4. b[d][Position(MyOutputs[d], w)] = ShareOf(c, d, w)
    <3> HIDE DEF r, d
    <3> QED
      BY <1>1, <2>2
  <2> QED
    BY <2>3, <2>4 DEF Reconstruct, Both
<1> DEFINE n == Len(circ.outputs) \div 2
<1>3. n \in Nat /\ \A k \in 1 .. n : 2 * k - 1 \in 1 .. Len(circ.outputs) /\ 2 * k \in 1 .. Len(circ.outputs)
  <2> DEFINE m == Len(circ.outputs)
  <2>1. m \in Nat
    BY CircuitAssumption, LenProperties
  <2> HIDE DEF m
  <2>2. m \div 2 \in Nat /\ 2 * (m \div 2) <= m
    BY <2>1
  <2> DEFINE h == m \div 2
  <2>3. h \in Nat /\ 2 * h <= m
    BY <2>2
  <2> HIDE DEF h
  <2>4. \A k \in 1 .. h : 2 * k - 1 \in 1 .. m /\ 2 * k \in 1 .. m
    BY <2>1, <2>3
  <2> QED
    BY <2>3, <2>4 DEF h, m
<1>4. \A k \in 1 .. n : /\ Reconstruct(b, circ.outputs[2 * k - 1]) = Both(c, circ.outputs[2 * k - 1])
                        /\ Reconstruct(b, circ.outputs[2 * k]) = Both(c, circ.outputs[2 * k])
  BY <1>2, <1>3
<1> HIDE DEF n
<1>5. MatchOf(b) = [k \in 1 .. n |-> (Reconstruct(b, circ.outputs[2 * k - 1])
                                      * Reconstruct(b, circ.outputs[2 * k])) % Modulus]
  BY DEF MatchOf, n
<1>6. Answers(c) = [k \in 1 .. n |-> (Both(c, circ.outputs[2 * k - 1])
                                      * Both(c, circ.outputs[2 * k])) % Modulus]
  BY DEF Answers, n
<1> QED
  BY <1>4, <1>5, <1>6
-----------------------------------------------------------------------------
(***************************************************************************)
(* What is sent fits.                                                      *)
(***************************************************************************)
\* What a sender has.
SenderReady(c, p, g, x) ==
    /\ x \in StepsOf(p) /\ x.op = "send" /\ g \in Has /\ Allowed(p, g, x)
    /\ tape \in Tapes /\ inputs \in Inputs /\ c.tape = tape /\ c.inputs = inputs
    /\ p = 0 => c.round = g.round /\ c.rho = pre[0].rho
    /\ PreRight(c, p, g, pre[p]) /\ WiresRight(c, p, g, wires[p]) /\ ArraysRight(c, p, g, buf[p])

\* The array for a driver.
LEMMA PreprocFits ==
    ASSUME NEW c, NEW p \in Party, NEW g, NEW x, SenderReady(c, p, g, x), x.what = "preproc",
           NEW i \in 1 .. Len(x.ws)
    PROVE  Fits(c, p, x.what, x.ws[i], x.round, Value(p, x, i))
<1> DEFINE d == x.peer
           S == SecWires[d]
           P == ParWires[d]
           n == Len(S)
           k == Len(P)
<1>1. d \in Net!Driver /\ x.ws = S \o P
  BY DEF SenderReady, Allowed, RoundAllowed, Sends, PreprocWires
<1>2. /\ S \in Seq(Wires) /\ Elements(S) = {w \in Wires : Gate(w).driver_id = d /\ w \in Products}
      /\ P \in Seq(Wires) /\ Elements(P) = {w \in Wires : Gate(w).driver_id = d /\ Gate(w).type = "kInp"}
  BY <1>1, CorrectedWires
<1>3. Value(p, x, i) = SPArray(tape, d, i)
  BY DEF Value
<1>4. SPArray(tape, d, i) = IF i <= n THEN SPProd2[tape][S[i]] ELSE SPShare2[tape][P[i - n]]
  BY DEF SPArray
<1> HIDE DEF d, S, P
<1>5. /\ n \in Nat /\ k \in Nat /\ Len(x.ws) = n + k
      /\ (\A j \in 1 .. n : x.ws[j] = S[j]) /\ \A j \in n + 1 .. n + k : x.ws[j] = P[j - n]
  BY <1>1, <1>2, LenProperties
<1>6. Value(p, x, i) = IF x.ws[i] \in Products THEN SPProd2[tape][x.ws[i]] ELSE SPShare2[tape][x.ws[i]]
  <2>1. CASE i <= n
    <3>1. i \in 1 .. n
      BY <1>5, <2>1
    <3>2. S[i] \in Products
      BY <1>2, <3>1 DEF Elements, n
    <3> QED
      BY <1>3, <1>4, <1>5, <2>1, <3>1, <3>2
  <2>2. CASE ~ i <= n
    <3> DEFINE j == i - n
    <3>1. i \in n + 1 .. n + k /\ j \in 1 .. k
      BY <1>5, <2>2
    <3>2. P[j] \notin Products
      <4>1. Gate(P[j]).type = "kInp"
        BY <1>2, <3>1 DEF Elements, k
      <4> QED
        BY <4>1 DEF Products, Communicating
    <3>3. x.ws[i] = P[j]
      BY <1>5, <3>1
    <3> QED
      BY <1>3, <1>4, <2>2, <3>2, <3>3
  <2> QED
    BY <2>1, <2>2
<1>7. c.tape = tape
  BY DEF SenderReady
<1> QED
  BY <1>6, <1>7 DEF Fits, Expected, WithKeys

\* The masked value of an input.
LEMMA InputFits ==
    ASSUME NEW c, NEW p \in Party, NEW g, NEW x, SenderReady(c, p, g, x), x.what = "input"
    PROVE  /\ \A i \in 1 .. Len(x.ws) : Fits(c, p, x.what, x.ws[i], x.round, Value(p, x, i))
           /\ Value(p, x, 1) = Masked(c.tape, c.inputs)[x.ws[1]] /\ x.ws[1] \in OwnWires[p]
           /\ p \in Peers /\ Len(x.ws) = 1
<1>1. PICK w \in OwnWires[p] : Gate(w).type = "kInp" /\ x.ws = One(w) /\ input_pid[w] = p
                               /\ g.pre = 1 /\ p \in Peers
  BY DEF SenderReady, Allowed, InputAllowed
<1>2. Len(x.ws) = 1 /\ x.ws[1] = w
  BY <1>1 DEF One
<1>3. c.tape = tape /\ c.inputs = inputs /\ tape \in Tapes /\ inputs \in Inputs
  BY DEF SenderReady
<1>4. w \in Wires
  BY <1>1, OwnWiresOf
<1>5. MasksRight(p, c.tape, pre[p])
  BY <1>1, Roles DEF SenderReady, PreRight
<1>6. pre[p].secret[w] = SPMask[c.tape][w]
  BY <1>1, <1>5 DEF MasksRight
<1>7. Value(p, x, 1) = (pre[p].secret[w] + inputs[w]) % Modulus
  BY <1>2 DEF Value
<1>8. Value(p, x, 1) = Masked(c.tape, c.inputs)[w]
  BY <1>1, <1>3, <1>4, <1>6, <1>7, InputMasked
<1>9. \A i \in 1 .. Len(x.ws) : i = 1
  BY <1>2
<1> QED
  BY <1>1, <1>2, <1>8, <1>9 DEF Fits, Expected, WithKeys

\* The shares of the products of a level.
LEMMA SharesFit ==
    ASSUME NEW c, NEW p \in Party, NEW g, NEW x, SenderReady(c, p, g, x), x.what = "level",
           NEW i \in 1 .. Len(x.ws)
    PROVE  Fits(c, p, x.what, x.ws[i], x.round, Value(p, x, i))
<1> DEFINE w == x.ws[i]
<1>1. /\ g.pre = 1 /\ p \in Peers /\ x.peer \in Peers
      /\ \E l \in 1 .. Len(Levels) : x.ws = LevelWires[l][p][x.peer]
      /\ Reads(Gate(w)) \subseteq g.known
  BY DEF SenderReady, Allowed, LevelAllowed, Sends, Elements
<1>2. PICK l \in 1 .. Len(Levels) : x.ws = LevelWires[l][p][x.peer]
  BY <1>1
<1>3. Elements(x.ws) = {v \in Wires : v \in Products /\ Lev(v) = l - 1 /\ Between(p, x.peer, v)}
  BY <1>1, <1>2, LevelProducts
<1>4. w \in Elements(x.ws)
  BY DEF Elements
<1> HIDE DEF w
<1>5. w \in Products /\ w \in Wires /\ Between(p, x.peer, w)
  BY <1>3, <1>4
<1>6. w \in OwnWires[p]
  BY <1>1, <1>5 DEF OwnWires, Between, Mine
<1>7. c.tape = tape /\ c.inputs = inputs /\ tape \in Tapes /\ inputs \in Inputs
  BY DEF SenderReady
<1>8. MasksRight(p, tape, pre[p])
  BY <1>1, <1>7, Roles DEF SenderReady, PreRight
<1>9. \A k \in Reads(Gate(w)) : wires[p][k] = Masked(tape, inputs)[k]
  <2>1. Reads(Gate(w)) \subseteq g.known
    BY <1>1 DEF w
  <2> QED
    BY <1>7, <2>1 DEF SenderReady, WiresRight
<1>10. QShare(p, w) = QRight(p, w, tape, inputs)
  BY <1>1, <1>5, <1>6, <1>7, <1>8, <1>9, QShareRight
<1>11. Value(p, x, i) = QShare(p, w)
  BY DEF Value, w
<1> QED
  BY <1>7, <1>10, <1>11 DEF Fits, Expected, WithKeys, w

\* An output.
LEMMA OutputFits ==
    ASSUME NEW c, NEW p \in Party, NEW g, NEW x, SenderReady(c, p, g, x), x.what = "output",
           NEW i \in 1 .. Len(x.ws)
    PROVE  Fits(c, p, x.what, x.ws[i], x.round, Value(p, x, i))
<1>1. PICK w \in g.known : x.ws = One(w)
  BY DEF SenderReady, Allowed, OutputAllowed, Sends
<1>2. x.ws[i] = w
  BY <1>1 DEF One
<1>3. Value(p, x, i) = wires[p][w]
  BY <1>2 DEF Value
<1>4. wires[p][w] = Masked(c.tape, c.inputs)[w]
  BY DEF SenderReady, WiresRight
<1> QED
  BY <1>2, <1>3, <1>4 DEF Fits, Expected, WithKeys

\* A key, in the SP's round.
LEMMA KeyFits ==
    ASSUME NEW c, NEW p \in Party, NEW g, NEW x, SenderReady(c, p, g, x), x.what = "key",
           NEW i \in 1 .. Len(x.ws)
    PROVE  Fits(c, p, x.what, x.ws[i], x.round, Value(p, x, i))
<1> DEFINE w == x.ws[i]
<1>1. p = 0 /\ g.pre = 1
  BY DEF SenderReady, Allowed, ComparisonAllowed, Sends
<1>2. x.round = g.round /\ g.round \in Nat
  BY DEF SenderReady, Allowed, RoundAllowed, Has
<1>3. c.round = g.round /\ c.rho = pre[0].rho
  BY <1>1 DEF SenderReady
<1>4. pre[0].mask = SPMask[c.tape]
  BY <1>1 DEF SenderReady, PreRight
<1>5. Value(p, x, i) = [alpha |-> pre[0].mask[w] % RtModulus, rho |-> pre[0].rho[w]]
  BY DEF Value
<1> HIDE DEF w
<1>6. Value(p, x, i) = KeyFor(c, w)
  BY <1>3, <1>4, <1>5 DEF KeyFor
<1>7. x.round <= c.round
  BY <1>2, <1>3
<1> QED
  BY <1>6, <1>7 DEF Fits, Expected, WithKeys, w

\* The result of a comparison.
LEMMA ResultFits ==
    ASSUME NEW c, NEW p \in Party, NEW g, NEW x, SenderReady(c, p, g, x), x.what = "share",
           NEW i \in 1 .. Len(x.ws)
    PROVE  Fits(c, p, x.what, x.ws[i], x.round, Value(p, x, i))
<1>1. /\ p \in Peers /\ g.got[0] = [what |-> "key", ws |-> MyOutputs[p]]
      /\ Elements(MyOutputs[p]) \subseteq g.known /\ x.ws = MyOutputs[p]
  BY DEF SenderReady, Allowed, ComparisonAllowed, Sends
<1>2. x.round = g.round
  BY DEF SenderReady, Allowed, RoundAllowed
<1>3. g \in Has /\ ArraysRight(c, p, g, buf[p]) /\ WiresRight(c, p, g, wires[p])
  BY DEF SenderReady
<1>4. Fits(c, p, "share", MyOutputs[p][i], g.round, Comparison(p, i))
  BY <1>1, <1>3, ComparisonFits
<1>5. Value(p, x, i) = Comparison(p, i)
  BY DEF Value
<1> QED
  BY <1>1, <1>2, <1>4, <1>5

\* Whatever is sent.
LEMMA ItemsFit ==
    ASSUME NEW c, NEW p \in Party, NEW g, NEW x, SenderReady(c, p, g, x)
    PROVE  AllFit(c, p, Items(p, x))
<1> DEFINE data == Items(p, x)
<1>1. x \in StepsOf(p) /\ x.op = "send" /\ x \in AnyStep
  BY StepsSubset DEF SenderReady
<1>2. x.what \in Whats /\ x.what \notin {"start", "match", "compare"}
  BY <1>1 DEF AnyStep, StepsOf, Moves
<1>3. ASSUME NEW i \in 1 .. Len(x.ws)
      PROVE  Fits(c, p, x.what, x.ws[i], x.round, Value(p, x, i))
  <2>1. CASE x.what \in {"lengths", ""}
    BY <2>1 DEF Fits, WithKeys
  <2>2. CASE x.what = "preproc"
    BY <2>2, PreprocFits
  <2>3. CASE x.what = "input"
    BY <2>3, InputFits
  <2>4. CASE x.what = "level"
    BY <2>4, SharesFit
  <2>5. CASE x.what = "output"
    BY <2>5, OutputFits
  <2>6. CASE x.what = "key"
    BY <2>6, KeyFits
  <2>7. CASE x.what = "share"
    BY <2>7, ResultFits
  <2> QED
    BY <1>2, <2>1, <2>2, <2>3, <2>4, <2>5, <2>6, <2>7 DEF Whats
<1>4. Len(data) = Len(x.ws) /\ DOMAIN x.ws = 1 .. Len(x.ws)
  BY <1>1, SentArray, LenProperties DEF AnyStep
<1>5. \A i \in 1 .. Len(x.ws) :
         data[i].v = Value(p, x, i) /\ data[i].tag = <<x.what, x.ws[i], x.round>>
  BY <1>4 DEF Items, Tag
<1> HIDE DEF data
<1>6. \A i \in 1 .. Len(x.ws) : /\ data[i].v = Value(p, x, i) /\ data[i].tag[1] = x.what
                                /\ data[i].tag[2] = x.ws[i] /\ data[i].tag[3] = x.round
  BY <1>5
<1>7. \A i \in 1 .. Len(data) : ElementFits(c, p, data[i])
  BY <1>3, <1>4, <1>6 DEF ElementFits
<1> QED
  BY <1>7 DEF AllFit, data
-----------------------------------------------------------------------------
(***************************************************************************)
(* The invariant about the values.  The context is that of the SP's round; *)
(* what every party and every stream holds is right in it.                 *)
(***************************************************************************)
Context == [round |-> Ghost(0).round, tape |-> tape, inputs |-> inputs, rho |-> pre[0].rho]
\* What p holds is right.
PartyOK(p) == PartyRight(Context, p, Ghost(p), pre[p], wires[p], buf[p], outvals[p])
\* What is under way is right, too.
StreamsFit == \A p, q \in Party : Net!Connected(p, q) => AllFit(Context, p, Stream(p, q))
\* The inputs and the tape are those of the setting, and every party has its part.
Typed == /\ inputs \in Inputs /\ tape \in Tapes
         /\ DOMAIN pre = Party /\ DOMAIN wires = Party /\ DOMAIN outvals = Party
\* The invariant.
ValuesRight == Typed /\ StreamsFit /\ \A p \in Party : PartyOK(p)

\* The others hold what they held.
OthersKept(p) ==
    /\ inputs' = inputs /\ tape' = tape
    /\ DOMAIN pre' = Party /\ DOMAIN wires' = Party /\ DOMAIN outvals' = Party
    /\ \A q \in Party : q # p => /\ pre'[q] = pre[q] /\ wires'[q] = wires[q]
                                 /\ buf'[q] = buf[q] /\ outvals'[q] = outvals[q]
\* p takes the next step of its script.
GoesOn(p) == pc[p] <= Len(Body(p)) /\ pc' = [pc EXCEPT ![p] = @ + 1]

\* What is known of a party.
LEMMA PartyFacts ==
    ASSUME IInv, ValuesRight, NEW p \in Party
    PROVE  /\ PreRight(Context, p, Ghost(p), pre[p]) /\ WiresRight(Context, p, Ghost(p), wires[p])
           /\ ArraysRight(Context, p, Ghost(p), buf[p]) /\ ResultsRight(Context, p, Ghost(p), outvals[p])
           /\ Context.tape = tape /\ Context.inputs = inputs /\ tape \in Tapes /\ inputs \in Inputs
           /\ Context.round = Ghost(0).round /\ Context.rho = pre[0].rho
           /\ Ghost(p) \in Has /\ Context.round \in Nat
<1>1. PartyOK(p) /\ tape \in Tapes /\ inputs \in Inputs
  BY DEF ValuesRight, Typed
<1>2. ASSUME NEW q \in Party PROVE Ghost(q) \in Has
  <2>1. pc[q] - 1 \in 0 .. Len(Body(q))
    <3>1. pc[q] \in 1 .. Len(Body(q)) + 1 /\ Len(Body(q)) \in Nat
      BY AtFacts DEF IInv
    <3> QED
      BY <3>1
  <2>2. Trace(q) \in [0 .. Len(Body(q)) -> Has]
    BY TraceOf DEF IsTrace
  <2> QED
    BY <2>1, <2>2 DEF Ghost
<1>3. 0 \in Party
  BY Roles
<1>4. Ghost(0).round \in Nat
  BY <1>2, <1>3 DEF Has
<1>5. /\ Context.round = Ghost(0).round /\ Context.rho = pre[0].rho
      /\ Context.tape = tape /\ Context.inputs = inputs
  BY DEF Context
<1> QED
  BY <1>1, <1>2, <1>4, <1>5 DEF PartyOK, PartyRight

\* The context changes only when the SP starts a round, and follows the old one then.
LEMMA ContextNext ==
    ASSUME IInv, NEW p \in Party, GoesOn(p), inputs' = inputs, tape' = tape,
           \A q \in Party : q # p => pre'[q] = pre[q],
           p = 0 /\ At(p).what # "start" => pre'[0].rho = pre[0].rho
    PROVE  /\ Follows(Context, Context')
           /\ p # 0 \/ At(p).what # "start" => Context' = Context
           /\ Context'.tape = tape /\ Context'.inputs = inputs /\ Context'.rho = pre'[0].rho
           /\ Context'.round = Ghost(0)'.round
<1> DEFINE g == Ghost(0)
           x == At(0)
<1>1. 0 \in Party
  BY Roles
<1>2. /\ Ghost(p) \in Has /\ Allowed(p, Ghost(p), At(p))
      /\ Ghost(p)' = After(p, Ghost(p), At(p))
      /\ \A q \in Party : q # p => Ghost(q)' = Ghost(q)
  BY GhostNext DEF IInv, GoesOn
<1>3. g.round \in Nat
  <2>1. pc[0] \in 1 .. Len(Body(0)) + 1 /\ Len(Body(0)) \in Nat
    BY <1>1, AtFacts DEF IInv
  <2>2. pc[0] - 1 \in 0 .. Len(Body(0))
    BY <2>1
  <2>3. Trace(0) \in [0 .. Len(Body(0)) -> Has]
    BY <1>1, TraceOf DEF IsTrace
  <2>4. g \in Has
    BY <2>2, <2>3 DEF Ghost
  <2> QED
    BY <2>4 DEF Has
<1>4. /\ Context'.tape = tape /\ Context'.inputs = inputs /\ Context'.rho = pre'[0].rho
      /\ Context'.round = Ghost(0)'.round
  BY DEF Context
<1>5. /\ Context.tape = tape /\ Context.inputs = inputs /\ Context.rho = pre[0].rho
      /\ Context.round = g.round
  BY DEF Context
<1>6. CASE p # 0
  <2>1. Context' = Context
    BY <1>1, <1>2, <1>6 DEF Context
  <2> QED
    BY <1>3, <1>4, <1>5, <2>1 DEF Follows
<1>7. CASE p = 0 /\ x.what # "start"
  <2>1. Ghost(0)'.round = g.round
    BY <1>2, <1>7 DEF After
  <2>2. Context' = Context
    BY <1>7, <2>1 DEF Context
  <2> QED
    BY <1>3, <1>4, <1>5, <1>7, <2>2 DEF Follows
<1>8. CASE p = 0 /\ x.what = "start"
  <2>1. Ghost(0)'.round = x.round
    BY <1>2, <1>8 DEF After
  <2>2. x.round = g.round + 1
    BY <1>2, <1>8 DEF Allowed, RoundAllowed
  <2>3. Context.round < Context'.round /\ Context'.round \in Nat
    <3> DEFINE r == g.round
    <3>1. r \in Nat /\ Context'.round = r + 1 /\ Context.round = r
      BY <1>3, <1>4, <1>5, <2>1, <2>2
    <3> HIDE DEF r
    <3> QED
      BY <3>1
  <2> QED
    BY <1>3, <1>4, <1>5, <1>8, <2>3 DEF Follows
<1> QED
  BY <1>6, <1>7, <1>8

\* A stream that fits still fits later.
LEMMA StreamLater ==
    ASSUME IInv, NEW p \in Party, NEW q \in Party, Net!Connected(p, q), NEW c, NEW d,
           Follows(c, d), AllFit(c, p, Stream(p, q))
    PROVE  AllFit(d, p, Stream(p, q))
<1> DEFINE s == Stream(p, q)
<1>1. ASSUME NEW i \in 1 .. Len(s) PROVE s[i].tag[3] \in Nat
  <2>1. s[i].tag \in AnyTag
    BY DEF IInv, Streams, StreamRight, Right
  <2> QED
    BY <2>1 DEF AnyTag
<1>2. \A i \in 1 .. Len(s) : ElementFits(c, p, s[i])
  BY DEF AllFit
<1> HIDE DEF s
<1>3. ASSUME NEW i \in 1 .. Len(s) PROVE ElementFits(d, p, s[i])
  BY <1>1, <1>2, FitsLater DEF ElementFits
<1> QED
  BY <1>3 DEF AllFit, s

\* A step keeps the values right if what it makes of its party and of the streams is right.
LEMMA PartyMoves ==
    ASSUME IInv, ValuesRight, NEW p \in Party, GoesOn(p), OthersKept(p),
           p = 0 /\ At(p).what # "start" => pre'[0].rho = pre[0].rho,
           PartyRight(Context', p, After(p, Ghost(p), At(p)), pre'[p], wires'[p], buf'[p], outvals'[p]),
           StreamsFit'
    PROVE  ValuesRight'
<1>1. Follows(Context, Context') /\ (p # 0 => Context' = Context)
  <2>1. inputs' = inputs /\ tape' = tape /\ \A q \in Party : q # p => pre'[q] = pre[q]
    BY DEF OthersKept
  <2> QED
    BY <2>1, ContextNext
<1>2. /\ Ghost(p)' = After(p, Ghost(p), At(p))
      /\ \A q \in Party : q # p => Ghost(q)' = Ghost(q)
  BY GhostNext DEF IInv, GoesOn
<1>3. Typed'
  BY DEF Typed, OthersKept, ValuesRight
<1>4. PartyOK(p)'
  BY <1>2 DEF PartyOK
<1>5. ASSUME NEW q \in Party, q # p PROVE PartyOK(q)'
  <2>1. PartyRight(Context, q, Ghost(q), pre[q], wires[q], buf[q], outvals[q])
    BY DEF ValuesRight, PartyOK
  <2>2. PartyRight(Context', q, Ghost(q), pre[q], wires[q], buf[q], outvals[q])
    <3>1. CASE p # 0
      BY <1>1, <2>1, <3>1
    <3>2. CASE p = 0
      <4>1. q # 0 /\ Ghost(q) \in Has
        BY <1>5, <3>2, PartyFacts
      <4> QED
        BY <1>1, <2>1, <4>1, PartyLater
    <3> QED
      BY <3>1, <3>2
  <2> QED
    BY <1>2, <1>5, <2>2 DEF PartyOK, OthersKept
<1> QED
  BY <1>3, <1>4, <1>5 DEF ValuesRight

\* The streams fit after a step that leaves them as they are,
LEMMA SameFit ==
    ASSUME IInv, StreamsFit, Follows(Context, Context'), StreamsSame
    PROVE  StreamsFit'
<1>1. ASSUME NEW p \in Party, NEW q \in Party, Net!Connected(p, q)
      PROVE  AllFit(Context', p, Stream(p, q)')
  <2>1. AllFit(Context, p, Stream(p, q)) /\ Stream(p, q)' = Stream(p, q)
    BY <1>1 DEF StreamsFit, StreamsSame
  <2>2. AllFit(Context', p, Stream(p, q))
    BY <1>1, <2>1, StreamLater
  <2> QED
    BY <2>1, <2>2
<1> QED
  BY <1>1 DEF StreamsFit

\* after one that appends what fits,
LEMMA SentFit ==
    ASSUME StreamsFit, Context' = Context, NEW p \in Party, NEW q \in Party, Net!Connected(p, q),
           NEW S, NEW data, Extended(S, p, q, data), AllFit(Context, p, data)
    PROVE  StreamsFit'
<1> DEFINE l == Net!SendLink(p, q)
           c == Context
<1>1. /\ data \in Seq(S)
      /\ Stream(p, q)' = Stream(p, q) \o data
      /\ \A m \in Net!Link : m # l => Contents(wire', out', m) = Contents(wire, out, m)
  BY DEF Extended, Stream
<1>2. Stream(p, q) \in Seq(S)
  <2>1. l \in Net!Link
    BY FlowLink
  <2>2. Buffered(Net!Link, S, wire, out)
    BY DEF Extended
  <2>3. wire[l] \in Seq(S) /\ out[l] \in Seq(S)
    BY <2>1, <2>2 DEF Buffered
  <2> HIDE DEF l
  <2>4. wire[l] \o out[l] \in Seq(S)
    BY <2>3, ConcatProperties
  <2> QED
    BY <2>4 DEF Stream, Contents, l
<1>3. AllFit(c, p, Stream(p, q) \o data)
  <2> DEFINE s == Stream(p, q)
             n == Len(s)
             k == Len(data)
  <2>1. s \in Seq(S) /\ data \in Seq(S) /\ AllFit(c, p, s) /\ AllFit(c, p, data)
    BY <1>1, <1>2 DEF StreamsFit
  <2> HIDE DEF s, c
  <2>2. /\ n \in Nat /\ k \in Nat /\ Len(s \o data) = n + k
        /\ \A i \in 1 .. n + k : (s \o data)[i] = IF i <= n THEN s[i] ELSE data[i - n]
    BY <2>1, ConcatProperties
  <2>3. /\ \A i \in 1 .. n : ElementFits(c, p, s[i])
        /\ \A i \in 1 .. k : ElementFits(c, p, data[i])
    BY <2>1 DEF AllFit
  <2> HIDE DEF n, k
  <2>4. ASSUME NEW i \in 1 .. n + k PROVE ElementFits(c, p, (s \o data)[i])
    <3>1. CASE i <= n
      BY <2>2, <2>3, <3>1
    <3>2. CASE ~ i <= n
      <4>1. i - n \in 1 .. k
        BY <2>2, <3>2
      <4> QED
        BY <2>2, <2>3, <3>2, <4>1
    <3> QED
      BY <3>1, <3>2
  <2> QED
    BY <2>2, <2>4 DEF AllFit, s
<1>4. ASSUME NEW x \in Party, NEW y \in Party, Net!Connected(x, y)
      PROVE  AllFit(Context', x, Stream(x, y)')
  <2>1. CASE x = p /\ y = q
    BY <1>1, <1>3, <2>1
  <2>2. CASE ~ (x = p /\ y = q)
    <3>1. Net!SendLink(x, y) # l /\ Net!SendLink(x, y) \in Net!Link
      BY <1>4, <2>2, FlowLink
    <3>2. Stream(x, y)' = Stream(x, y)
      BY <1>1, <3>1 DEF Stream
    <3> QED
      BY <1>4, <3>2 DEF StreamsFit
  <2> QED
    BY <2>1, <2>2
<1> QED
  BY <1>4 DEF StreamsFit

\* and after one that takes the first elements off.
LEMMA ReadFit ==
    ASSUME StreamsFit, Context' = Context, NEW p \in Party, NEW q \in Party, Net!Connected(q, p),
           NEW S, NEW n, Shortened(S, p, q, n)
    PROVE  StreamsFit'
<1> DEFINE l == Net!SendLink(q, p)
           r == Stream(q, p)
           b == SubSeq(r, n + 1, Len(r))
           c == Context
<1>1. /\ r \in Seq(S) /\ n \in Nat /\ n <= Len(r)
      /\ Stream(q, p)' = b
      /\ \A m \in Net!Link : m # l => Contents(wire', out', m) = Contents(wire, out, m)
  BY DEF Shortened, Stream
<1>2. AllFit(c, q, b)
  <2>1. AllFit(c, q, r)
    BY DEF StreamsFit
  <2> HIDE DEF r, c
  <2> DEFINE k == Len(r)
  <2>2. k \in Nat /\ Len(b) = k - n /\ \A i \in 1 .. k - n : b[i] = r[n + i]
    <3>1. k \in Nat
      BY <1>1
    <3>2. SubSeq(r, n + 1, k) \in Seq(S) /\ Len(b) = k - n
      BY <1>1, <3>1
    <3> QED
      BY <1>1, <3>1, <3>2
  <2> HIDE DEF b
  <2>3. \A i \in 1 .. k : ElementFits(c, q, r[i])
    BY <2>1 DEF AllFit
  <2> HIDE DEF k
  <2>4. ASSUME NEW i \in 1 .. k - n PROVE ElementFits(c, q, b[i])
    <3>1. n + i \in 1 .. k
      BY <1>1, <2>2
    <3> QED
      BY <2>2, <2>3, <3>1
  <2> QED
    BY <2>2, <2>4 DEF AllFit
<1>3. ASSUME NEW x \in Party, NEW y \in Party, Net!Connected(x, y)
      PROVE  AllFit(Context', x, Stream(x, y)')
  <2>1. CASE x = q /\ y = p
    BY <1>1, <1>2, <2>1
  <2>2. CASE ~ (x = q /\ y = p)
    <3>1. Net!SendLink(x, y) # l /\ Net!SendLink(x, y) \in Net!Link
      BY <1>3, <2>2, FlowLink
    <3>2. Stream(x, y)' = Stream(x, y)
      BY <1>1, <3>1 DEF Stream
    <3> QED
      BY <1>3, <3>2 DEF StreamsFit
  <2> QED
    BY <2>1, <2>2
<1> QED
  BY <1>3 DEF StreamsFit

\* A step other than the start of a round, and what is there after it.
LEMMA StepFacts ==
    ASSUME IInv, NEW p \in Party, pc[p] <= Len(Body(p))
    PROVE  LET x == At(p)
               g == Ghost(p)
           IN  /\ x \in StepsOf(p) /\ x \in AnyStep /\ g \in Has /\ Allowed(p, g, x)
               /\ x.what # "start" => AfterIs(p, g, x, After(p, g, x))
<1> DEFINE x == At(p)
           g == Ghost(p)
<1>1. x \in StepsOf(p) /\ x \in AnyStep
  BY AtFacts DEF IInv
<1>2. g \in Has /\ Allowed(p, g, x)
  BY GhostNext DEF IInv
<1>3. x.what = "input" => x.ws[1] \in Nat
  <2>1. ASSUME x.what = "input" PROVE x.ws[1] \in Nat
    <3>1. p \in Peers /\ \E w \in OwnWires[p] : x.ws = One(w)
      BY <1>2, <2>1 DEF Allowed, InputAllowed
    <3>2. PICK w \in OwnWires[p] : x.ws = One(w)
      BY <3>1
    <3>3. w \in Wires
      BY <3>1, OwnWiresOf
    <3> QED
      BY <3>2, <3>3, TheCircuit DEF One
  <2> QED
    BY <2>1
<1>4. EndsLevel(x) => Until[x.peer][p] \subseteq Nat
  <2>1. ASSUME EndsLevel(x) PROVE Until[x.peer][p] \subseteq Nat
    <3>1. p \in Peers /\ x.peer \in 1 .. Len(Levels)
      BY <1>2, <2>1 DEF Allowed, LevelAllowed
    <3>2. Until[x.peer][p] \subseteq OwnWires[p]
      BY <3>1, LevelParts
    <3> QED
      BY <3>1, <3>2, OwnWiresOf, TheCircuit
  <2> QED
    BY <2>1
<1> HIDE DEF x, g
<1>5. x.what # "start" => AfterIs(p, g, x, After(p, g, x))
  BY <1>1, <1>2, <1>3, <1>4, AfterStep DEF Ordinary
<1> QED
  BY <1>1, <1>2, <1>5 DEF x, g

\* The start of a round keeps the values right: the SP's new round is a new context.
LEMMA StartMoves ==
    ASSUME IInv, ValuesRight, NEW p \in Party, Start(p)
    PROVE  ValuesRight'
<1> DEFINE x == At(p)
           empty == [q \in Party |-> <<>>]
<1>1. /\ x.what = "start" /\ pc' = [pc EXCEPT ![p] = @ + 1] /\ inputs' = inputs /\ tape' = tape
      /\ wires' = [wires EXCEPT ![p] = <<>>] /\ buf' = [buf EXCEPT ![p] = empty]
      /\ outvals' = [outvals EXCEPT ![p] = <<>>] /\ wire' = wire /\ out' = out
  BY DEF Start, Advance, netVars
<1>2. PICK rho \in Rho :
         pre' = [pre EXCEPT ![p] = IF p = 0 THEN [mask |-> SPMask[tape], rho |-> rho]
                                  ELSE IF p \in Net!Rider THEN RiderMasks[tape][p]
                                  ELSE <<>>]
  BY DEF Start
<1>3. DOMAIN pre = Party /\ DOMAIN wires = Party /\ DOMAIN outvals = Party
  BY DEF ValuesRight, Typed
<1>4. DOMAIN buf = Party
  BY DEF IInv, LengthsRead
<1>5. GoesOn(p)
  BY <1>1, LocalFacts DEF IInv, GoesOn
<1> DEFINE m == IF p = 0 THEN [mask |-> SPMask[tape], rho |-> rho]
                ELSE IF p \in Net!Rider THEN RiderMasks[tape][p] ELSE <<>>
<1>6. pre'[p] = m /\ wires'[p] = <<>> /\ buf'[p] = empty /\ outvals'[p] = <<>>
  BY <1>1, <1>2, <1>3, <1>4
<1>7. OthersKept(p)
  BY <1>1, <1>2, <1>3, <1>4 DEF OthersKept
<1>8. /\ Follows(Context, Context') /\ Context'.tape = tape /\ Context'.rho = pre'[0].rho
  BY <1>1, <1>5, <1>7, ContextNext DEF OthersKept
<1>9. StreamsFit'
  BY <1>1, <1>8, NetEffect, SameFit DEF ValuesRight
<1>10. p = 0 => m.mask = SPMask[tape] /\ m.rho = Context'.rho /\ m.rho \in Rho
  <2>1. ASSUME p = 0 PROVE m.mask = SPMask[tape] /\ m.rho = Context'.rho /\ m.rho \in Rho
    BY <1>6, <1>8, <2>1
  <2> QED
    BY <2>1
<1>11. (p \in Net!Rider => m = RiderMasks[tape][p]) /\ (p \in Net!Driver => m = <<>>)
  BY Roles
<1>12. Ghost(p) \in Has /\ tape \in Tapes
  BY PartyFacts
<1>13. PartyRight(Context', p, After(p, Ghost(p), x), m, <<>>, empty, <<>>)
  <2> DEFINE c == Context'
             g == Ghost(p)
  <2>1. /\ c.tape \in Tapes /\ g \in Has /\ x.what = "start"
        /\ p = 0 => m.mask = SPMask[c.tape] /\ m.rho = c.rho /\ m.rho \in Rho
        /\ p \in Net!Rider => m = RiderMasks[c.tape][p]
        /\ p \in Net!Driver => m = <<>>
    BY <1>1, <1>8, <1>10, <1>11, <1>12
  <2> HIDE DEF c, g, x, m, empty
  <2>2. PartyRight(c, p, After(p, g, x), m, <<>>, empty, <<>>)
    BY <2>1, StartRight
  <2> QED
    BY <2>2 DEF c, g
<1> HIDE DEF m, empty
<1> QED
  BY <1>1, <1>5, <1>6, <1>7, <1>9, <1>13, PartyMoves

\* The parts of what a party holds that a step of another kind does not touch.
LEMMA SameHoldings ==
    ASSUME IInv, ValuesRight, NEW p \in Party, GoesOn(p), At(p).what # "start",
           At(p).what # "input", ~ EndsLevel(At(p)), At(p).op # "recv",
           OthersKept(p), pre' = pre, wires' = wires, buf' = buf, outvals' = outvals, StreamsFit'
    PROVE  ValuesRight'
<1> DEFINE x == At(p)
           g == Ghost(p)
           h == After(p, g, x)
           c == Context
<1>1. AfterIs(p, g, x, h) /\ g \in Has
  BY StepFacts DEF GoesOn
<1>2. /\ PreRight(c, p, g, pre[p]) /\ WiresRight(c, p, g, wires[p])
      /\ ArraysRight(c, p, g, buf[p]) /\ ResultsRight(c, p, g, outvals[p])
  BY PartyFacts
<1>3. Context' = Context
  BY ContextNext DEF OthersKept
<1>4. ~ Wait(x, "preproc") /\ ~ Wait(x, "output") /\ x.op # "recv"
      /\ x.what # "input" /\ ~ EndsLevel(x)
  BY DEF Wait
<1> HIDE DEF x, g, h, c
<1>5. PreRight(c, p, h, pre[p])
  BY <1>1, <1>2, <1>4, PreKept
<1>6. WiresRight(c, p, h, wires[p])
  BY <1>1, <1>2, <1>4, WiresKept
<1>7. ArraysRight(c, p, h, buf[p])
  BY <1>1, <1>2, <1>4, ArraysKept
<1>8. ResultsRight(c, p, h, outvals[p])
  BY <1>1, <1>2, <1>4, ResultsKept
<1>9. PartyRight(c, p, h, pre[p], wires[p], buf[p], outvals[p])
  BY <1>5, <1>6, <1>7, <1>8 DEF PartyRight
<1>10. PartyRight(Context', p, After(p, Ghost(p), At(p)), pre'[p], wires'[p], buf'[p], outvals'[p])
  BY <1>3, <1>9 DEF c, g, h, x
<1> QED
  BY <1>10, PartyMoves

\* A step that changes neither streams nor holdings.
LEMMA NothingMoves ==
    ASSUME IInv, ValuesRight, pc' = pc, inputs' = inputs, tape' = tape,
           pre' = pre, wires' = wires, buf' = buf, outvals' = outvals, StreamsSame
    PROVE  ValuesRight'
<1>1. \A p : Ghost(p)' = Ghost(p)
  BY GhostKept
<1>2. Context' = Context
  BY <1>1 DEF Context
<1>3. Context.round \in Nat
  BY PartyFacts, Roles
<1>4. StreamsFit'
  BY <1>2, <1>3, SameFit DEF ValuesRight, Follows
<1>5. Typed'
  BY DEF ValuesRight, Typed
<1>6. \A p \in Party : PartyOK(p)'
  BY <1>1, <1>2 DEF ValuesRight, PartyOK
<1> QED
  BY <1>4, <1>5, <1>6 DEF ValuesRight

\* A flush keeps the values right,
LEMMA FlushMoves ==
    ASSUME IInv, ValuesRight, NEW p \in Party, DoFlush(p)
    PROVE  ValuesRight'
<1> DEFINE x == At(p)
<1>1. /\ x.op = "flush" /\ Net!FlushAll(p) /\ pc' = [pc EXCEPT ![p] = @ + 1]
      /\ inputs' = inputs /\ tape' = tape
      /\ pre' = pre /\ wires' = wires /\ buf' = buf /\ outvals' = outvals
  BY DEF DoFlush, Advance
<1>2. GoesOn(p)
  BY <1>1, LocalFacts DEF IInv, GoesOn
<1>3. OthersKept(p)
  BY <1>1 DEF OthersKept, ValuesRight, Typed
<1>4. x.what = ""
  BY <1>1, <1>2, StepFacts DEF GoesOn, Allowed, RoundAllowed
<1>5. x.what # "start" /\ x.what # "input" /\ ~ EndsLevel(x) /\ x.op # "recv"
  BY <1>1, <1>4 DEF EndsLevel
<1>6. Follows(Context, Context')
  BY <1>1, <1>2, <1>5, ContextNext
<1>7. StreamsSame
  BY <1>1, FlushEffect DEF Net!FlushAll
<1>8. StreamsFit'
  BY <1>6, <1>7, SameFit DEF ValuesRight
<1> QED
  BY <1>1, <1>2, <1>3, <1>5, <1>8, SameHoldings

\* so does the call of recv, which at most flushes,
LEMMA CallMoves ==
    ASSUME IInv, ValuesRight, NEW p \in Party, CallRecv(p)
    PROVE  ValuesRight'
<1>1. /\ Net!RecvCall(p, At(p).peer, Wanted(p, At(p)))
      /\ inputs' = inputs /\ tape' = tape /\ pc' = pc
      /\ pre' = pre /\ wires' = wires /\ buf' = buf /\ outvals' = outvals
  BY DEF CallRecv
<1>2. StreamsSame
  BY <1>1, FlushEffect DEF Net!RecvCall
<1> QED
  BY <1>1, <1>2, NothingMoves

\* and so does the destructor.
LEMMA CloseMoves ==
    ASSUME IInv, ValuesRight, NEW p \in Party, Close(p)
    PROVE  ValuesRight'
<1>1. /\ Net!Close(p) /\ inputs' = inputs /\ tape' = tape /\ pc' = pc
      /\ pre' = pre /\ wires' = wires /\ buf' = buf /\ outvals' = outvals
  BY DEF Close
<1>2. StreamsSame
  BY <1>1, FlushEffect DEF Net!Close
<1> QED
  BY <1>1, <1>2, NothingMoves

\* A send keeps the values right: what it appends to the stream fits.
LEMMA SendMoves ==
    ASSUME IInv, ValuesRight, NEW p \in Party, DoSend(p)
    PROVE  ValuesRight'
<1> DEFINE x == At(p)
           g == Ghost(p)
           h == After(p, g, x)
           c == Context
           data == Items(p, x)
<1>1. /\ x.op = "send" /\ pc' = [pc EXCEPT ![p] = @ + 1] /\ inputs' = inputs /\ tape' = tape
      /\ wires' = IF x.what = "input" THEN [wires EXCEPT ![p] = With(@, x.ws[1], data[1].v)] ELSE wires
      /\ pre' = pre /\ buf' = buf /\ outvals' = outvals
  BY DEF DoSend, Advance
<1>2. /\ pc[p] <= Len(Body(p)) /\ x \in StepsOf(p) /\ x.peer \in Party
      /\ Net!Connected(p, x.peer) /\ \E S : Extended(S, p, x.peer, data)
  BY SendEffect
<1>3. GoesOn(p)
  BY <1>1, <1>2 DEF GoesOn
<1>4. x \in AnyStep /\ g \in Has /\ Allowed(p, g, x)
      /\ (x.what # "start" => AfterIs(p, g, x, h))
  BY <1>2, StepFacts
<1>5. /\ PreRight(c, p, g, pre[p]) /\ WiresRight(c, p, g, wires[p])
      /\ ArraysRight(c, p, g, buf[p]) /\ ResultsRight(c, p, g, outvals[p])
      /\ c.tape = tape /\ c.inputs = inputs /\ tape \in Tapes /\ inputs \in Inputs
      /\ c.round = Ghost(0).round /\ c.rho = pre[0].rho
  BY PartyFacts
<1>6. x.what # "start"
  BY <1>1, <1>4 DEF Allowed, RoundAllowed
<1>7. OthersKept(p)
  <2>1. DOMAIN wires' = Party /\ \A q \in Party : q # p => wires'[q] = wires[q]
    BY <1>1 DEF ValuesRight, Typed
  <2> QED
    BY <1>1, <2>1 DEF OthersKept, ValuesRight, Typed
<1>8. Context' = Context
  BY <1>1, <1>3, <1>6, ContextNext
<1>9. SenderReady(c, p, g, x)
  BY <1>1, <1>2, <1>4, <1>5 DEF SenderReady
<1>10. AllFit(c, p, data)
  BY <1>9, ItemsFit
<1>11. StreamsFit'
  <2>1. PICK S : Extended(S, p, x.peer, data)
    BY <1>2
  <2>2. StreamsFit /\ Net!Connected(p, x.peer) /\ x.peer \in Party
    BY <1>2 DEF ValuesRight
  <2> HIDE DEF x, data
  <2> QED
    BY <1>8, <1>10, <2>1, <2>2, SentFit DEF c
<1>12. ~ EndsLevel(x) /\ x.op # "recv"
  BY <1>1 DEF EndsLevel
<1>13. CASE x.what # "input"
  BY <1>1, <1>3, <1>6, <1>7, <1>11, <1>12, <1>13, SameHoldings
<1>14. CASE x.what = "input"
  <2>1. /\ Value(p, x, 1) = Masked(c.tape, c.inputs)[x.ws[1]] /\ x.ws[1] \in OwnWires[p]
        /\ p \in Peers /\ Len(x.ws) = 1
    BY <1>9, <1>14, InputFits
  <2>2. data[1].v = Value(p, x, 1)
    <3>1. DOMAIN x.ws = 1 .. 1
      BY <1>4, <2>1 DEF AnyStep
    <3> QED
      BY <3>1 DEF Items
  <2>3. wires'[p] = With(wires[p], x.ws[1], Masked(c.tape, c.inputs)[x.ws[1]])
    BY <1>1, <1>14, <2>1, <2>2 DEF ValuesRight, Typed
  <2>4. AfterIs(p, g, x, h)
    BY <1>4, <1>6
  <2>5. ~ Wait(x, "preproc") /\ ~ Wait(x, "output")
    BY <1>12 DEF Wait
  <2> DEFINE w == x.ws[1]
  <2>6. w \in OwnWires[p] /\ w = x.ws[1]
    BY <2>1
  <2>7. pre'[p] = pre[p] /\ buf'[p] = buf[p] /\ outvals'[p] = outvals[p]
        /\ wires'[p] = With(wires[p], w, Masked(c.tape, c.inputs)[w])
    BY <1>1, <2>3
  <2> HIDE DEF x, g, h, c, w
  <2>8. PreRight(c, p, h, pre[p])
    BY <1>5, <2>4, <2>5, PreKept
  <2>9. WiresRight(c, p, h, With(wires[p], w, Masked(c.tape, c.inputs)[w]))
    BY <1>4, <1>5, <1>14, <2>1, <2>4, <2>6, InputRight
  <2>10. ArraysRight(c, p, h, buf[p])
    BY <1>5, <1>12, <2>4, ArraysKept
  <2>11. ResultsRight(c, p, h, outvals[p])
    BY <1>4, <1>5, <2>4, <2>5, ResultsKept
  <2>12. PartyRight(c, p, h, pre'[p], wires'[p], buf'[p], outvals'[p])
    BY <2>7, <2>8, <2>9, <2>10, <2>11 DEF PartyRight
  <2>13. PartyRight(Context', p, After(p, Ghost(p), At(p)), pre'[p], wires'[p], buf'[p], outvals'[p])
    BY <1>8, <2>12 DEF c, g, h, x
  <2> QED
    BY <1>1, <1>3, <1>7, <1>11, <2>13, PartyMoves
<1> QED
  BY <1>13, <1>14

\* The end of a level keeps the values right,
LEMMA EndLevelMoves ==
    ASSUME IInv, ValuesRight, NEW p \in Party, EndLevel(p)
    PROVE  ValuesRight'
<1> DEFINE x == At(p)
           g == Ghost(p)
           h == After(p, g, x)
           c == Context
           l == x.peer
<1>1. /\ x.what = "level" /\ x.op = "local" /\ pc' = [pc EXCEPT ![p] = @ + 1]
      /\ inputs' = inputs /\ tape' = tape
      /\ wires' = [wires EXCEPT ![p] = AfterLevel(p, l)]
      /\ pre' = pre /\ buf' = buf /\ outvals' = outvals /\ wire' = wire /\ out' = out
  BY DEF EndLevel, Advance, netVars
<1>2. GoesOn(p)
  BY <1>1, LocalFacts DEF IInv, GoesOn
<1>3. EndsLevel(x) /\ x.what # "start" /\ x.what # "input" /\ x.op # "recv"
      /\ ~ Wait(x, "preproc") /\ ~ Wait(x, "output")
  BY <1>1 DEF EndsLevel, Wait
<1>4. x \in AnyStep /\ g \in Has /\ Allowed(p, g, x) /\ AfterIs(p, g, x, h)
  BY <1>2, <1>3, StepFacts DEF GoesOn
<1>5. /\ PreRight(c, p, g, pre[p]) /\ WiresRight(c, p, g, wires[p])
      /\ ArraysRight(c, p, g, buf[p]) /\ ResultsRight(c, p, g, outvals[p])
      /\ c.tape = tape /\ c.inputs = inputs /\ tape \in Tapes /\ inputs \in Inputs
  BY PartyFacts
<1>6. OthersKept(p)
  <2>1. DOMAIN wires' = Party /\ \A q \in Party : q # p => wires'[q] = wires[q]
    BY <1>1 DEF ValuesRight, Typed
  <2> QED
    BY <1>1, <2>1 DEF OthersKept, ValuesRight, Typed
<1>7. Context' = Context /\ Follows(Context, Context')
  BY <1>1, <1>2, <1>3, ContextNext
<1>8. StreamsFit'
  BY <1>1, <1>7, NetEffect, SameFit DEF ValuesRight
<1>9. /\ g.pre = 1 /\ p \in Peers /\ l \in 1 .. Len(Levels)
      /\ g.known \subseteq Until[l][p] /\ LevelArrays(p, g, l)
  BY <1>3, <1>4 DEF Allowed, LevelAllowed
<1>10. /\ pre'[p] = pre[p] /\ buf'[p] = buf[p] /\ outvals'[p] = outvals[p]
       /\ wires'[p] = AfterLevel(p, l) /\ x.peer = l
  BY <1>1 DEF ValuesRight, Typed
<1> HIDE DEF x, g, h, c, l
<1>11. PreRight(c, p, h, pre[p])
  BY <1>3, <1>4, <1>5, PreKept
<1>12. WiresRight(c, p, h, AfterLevel(p, l))
  BY <1>3, <1>4, <1>5, <1>9, <1>10, LevelRight
<1>13. ArraysRight(c, p, h, buf[p])
  BY <1>3, <1>4, <1>5, ArraysKept
<1>14. ResultsRight(c, p, h, outvals[p])
  BY <1>3, <1>4, <1>5, ResultsKept
<1>15. PartyRight(c, p, h, pre'[p], wires'[p], buf'[p], outvals'[p])
  BY <1>10, <1>11, <1>12, <1>13, <1>14 DEF PartyRight
<1>16. PartyRight(Context', p, After(p, Ghost(p), At(p)), pre'[p], wires'[p], buf'[p], outvals'[p])
  BY <1>7, <1>15 DEF c, g, h, x
<1> QED
  BY <1>1, <1>2, <1>6, <1>8, <1>16, PartyMoves

\* What a party makes of the comparison.
LEMMA ConcludeRight ==
    ASSUME NEW p \in Party, NEW g \in Has, NEW x, x.what \in {"match", "compare"},
           Allowed(p, g, x), NEW h, AfterIs(p, g, x, h), NEW c, p = 0 => c.round = g.round,
           WiresRight(c, p, g, wires[p]), ArraysRight(c, p, g, buf[p])
    PROVE  ResultsRight(c, p, h, IF p = 0 THEN MatchOf(buf[0])
                                 ELSE [i \in DOMAIN MyOutputs[p] |-> Comparison(p, i)])
<1>1. x.op = "local"
  BY DEF Allowed, ComparisonAllowed
<1>2. h.round = g.round /\ h.pre = g.pre
  BY <1>1 DEF AfterIs, Wait
<1>3. CASE x.what = "match"
  <2>1. /\ p = 0 /\ g.pre = 1 /\ Mode = "Matching"
        /\ \A q \in Peers : g.got[q] = [what |-> "share", ws |-> MyOutputs[q]]
    BY <1>3 DEF Allowed, ComparisonAllowed
  <2>2. MatchOf(buf[0]) = Answers(c)
    BY <2>1, MatchRight
  <2>3. 0 \notin Peers
    BY Roles
  <2> QED
    BY <1>2, <2>1, <2>2, <2>3 DEF ResultsRight
<1>4. CASE x.what = "compare"
  <2> DEFINE o == [i \in DOMAIN MyOutputs[p] |-> Comparison(p, i)]
  <2>1. /\ p \in Peers /\ g.got[0] = [what |-> "key", ws |-> MyOutputs[p]]
        /\ Elements(MyOutputs[p]) \subseteq g.known /\ Mode = "Pair" /\ g.round >= 1
    BY <1>4 DEF Allowed, ComparisonAllowed
  <2>2. MyOutputs[p] = circ.outputs /\ p # 0
    BY <2>1, PairOutputs, Roles
  <2>3. DOMAIN circ.outputs = 1 .. Len(circ.outputs)
    BY CircuitAssumption
  <2>4. ASSUME NEW j \in 1 .. Len(circ.outputs)
        PROVE  Fits(c, p, "share", circ.outputs[j], g.round, o[j])
    <3>1. Fits(c, p, "share", MyOutputs[p][j], g.round, Comparison(p, j))
      BY <2>1, <2>2, ComparisonFits
    <3> QED
      BY <2>2, <2>3, <3>1
  <2>5. DOMAIN o = 1 .. Len(circ.outputs)
    BY <2>2, <2>3
  <2> HIDE DEF o
  <2>6. ResultsRight(c, p, h, o)
    BY <1>2, <2>1, <2>2, <2>4, <2>5 DEF ResultsRight
  <2> QED
    BY <2>2, <2>6 DEF o
<1> QED
  BY <1>3, <1>4

\* so does the conclusion of the comparison.
LEMMA ConcludeMoves ==
    ASSUME IInv, ValuesRight, NEW p \in Party, Conclude(p)
    PROVE  ValuesRight'
<1> DEFINE x == At(p)
           g == Ghost(p)
           h == After(p, g, x)
           c == Context
           o == IF p = 0 THEN MatchOf(buf[0]) ELSE [i \in DOMAIN MyOutputs[p] |-> Comparison(p, i)]
<1>1. /\ x.what \in {"match", "compare"} /\ pc' = [pc EXCEPT ![p] = @ + 1]
      /\ inputs' = inputs /\ tape' = tape /\ outvals' = [outvals EXCEPT ![p] = o]
      /\ pre' = pre /\ buf' = buf /\ wires' = wires /\ wire' = wire /\ out' = out
  BY DEF Conclude, Advance, netVars
<1>2. GoesOn(p)
  BY <1>1, LocalFacts DEF IInv, GoesOn
<1>3. x.what # "start" /\ x.what # "input" /\ ~ EndsLevel(x)
      /\ ~ Wait(x, "preproc") /\ ~ Wait(x, "output")
  BY <1>1 DEF EndsLevel, Wait
<1>4. x \in AnyStep /\ g \in Has /\ Allowed(p, g, x) /\ AfterIs(p, g, x, h)
  BY <1>2, <1>3, StepFacts DEF GoesOn
<1>5. /\ PreRight(c, p, g, pre[p]) /\ WiresRight(c, p, g, wires[p])
      /\ ArraysRight(c, p, g, buf[p]) /\ c.round = Ghost(0).round
  BY PartyFacts
<1>6. OthersKept(p)
  <2>1. DOMAIN outvals' = Party /\ \A q \in Party : q # p => outvals'[q] = outvals[q]
    BY <1>1 DEF ValuesRight, Typed
  <2> QED
    BY <1>1, <2>1 DEF OthersKept, ValuesRight, Typed
<1>7. Context' = Context /\ Follows(Context, Context')
  BY <1>1, <1>2, <1>3, ContextNext
<1>8. StreamsFit'
  BY <1>1, <1>7, NetEffect, SameFit DEF ValuesRight
<1>9. /\ pre'[p] = pre[p] /\ buf'[p] = buf[p] /\ wires'[p] = wires[p] /\ outvals'[p] = o
  BY <1>1 DEF ValuesRight, Typed
<1>10. x.op # "recv"
  BY <1>1, <1>4 DEF Allowed, ComparisonAllowed
<1>11. p = 0 => c.round = g.round
  BY <1>5
<1>12. ResultsRight(c, p, h, o)
  <2> HIDE DEF x, g, h, c
  <2> QED
    BY <1>1, <1>4, <1>5, <1>11, ConcludeRight
<1> HIDE DEF x, g, h, c, o
<1>13. PreRight(c, p, h, pre[p])
  BY <1>3, <1>4, <1>5, PreKept
<1>14. WiresRight(c, p, h, wires[p])
  BY <1>3, <1>4, <1>5, WiresKept
<1>15. ArraysRight(c, p, h, buf[p])
  BY <1>4, <1>5, <1>10, ArraysKept
<1>16. PartyRight(c, p, h, pre'[p], wires'[p], buf'[p], outvals'[p])
  BY <1>9, <1>12, <1>13, <1>14, <1>15 DEF PartyRight
<1>17. PartyRight(Context', p, After(p, Ghost(p), At(p)), pre'[p], wires'[p], buf'[p], outvals'[p])
  BY <1>7, <1>16 DEF c, g, h, x
<1> QED
  BY <1>1, <1>2, <1>3, <1>6, <1>8, <1>17, PartyMoves

\* The values of an array read in step x, in round k.
ReadRightly(c, x, k, a) ==
    /\ \E V : a \in Seq(V) /\ Len(a) = Len(x.ws)
    /\ \A j \in 1 .. Len(x.ws) : Fits(c, x.peer, x.what, x.ws[j], k, a[j])

\* The array a recv returns fits: it has the tags of the step, and what was in the stream fits.
LEMMA ReceivedFits ==
    ASSUME IInv, ValuesRight, NEW p \in Party, EndRecv(p),
           NEW x, x = At(p), NEW got, got = Net!Received(p, x.peer)
    PROVE  ReadRightly(Context, x, Ghost(p).round, [i \in DOMAIN got |-> got[i].v])
<1> DEFINE q == x.peer
           n == Len(x.ws)
           r == Stream(q, p)
           c == Context
           k == Ghost(p).round
           a == [i \in DOMAIN got |-> got[i].v]
<1>1. /\ pc[p] <= Len(Body(p)) /\ x \in StepsOf(p) /\ x.op = "recv" /\ q \in Party
      /\ Net!Connected(q, p) /\ \E S : Shortened(S, p, q, n)
  BY EndEffect
<1>2. PICK S : r \in Seq(S) /\ n \in Nat /\ n <= Len(r) /\ got = SubSeq(r, 1, n)
  BY <1>1 DEF Shortened
<1>3. x \in AnyStep /\ Allowed(p, Ghost(p), x)
  BY <1>1, StepFacts
<1>4. x.round = k
  <2>1. x.what # "start"
    BY <1>1, <1>3 DEF Allowed, RoundAllowed
  <2> QED
    BY <1>3, <2>1 DEF Allowed, RoundAllowed
<1>5. ASSUME NEW i \in 1 .. n PROVE r[i].tag = <<x.what, x.ws[i], k>>
  <2>1. /\ Tags(x) \in Seq(AnyTag) /\ Len(Tags(x)) = n /\ Tags(x)[i] = Tag(x, i)
        /\ TagsOf(r) \in Seq(AnyTag) /\ Len(TagsOf(r)) = Len(r)
        /\ \E t, u \in Seq(AnyTag) : Cat(TagsOf(r), t) = Cat(Tags(x), u)
    BY <1>1, AwaitedTags DEF IInv
  <2>2. r[i].tag = TagsOf(r)[i]
    BY <1>1, <1>2, AwaitedTags DEF IInv
  <2>3. PICK t \in Seq(AnyTag), u \in Seq(AnyTag) : Cat(TagsOf(r), t) = Cat(Tags(x), u)
    BY <2>1
  <2> DEFINE T == TagsOf(r)
             U == Tags(x)
  <2>4. T \in Seq(AnyTag) /\ U \in Seq(AnyTag) /\ Cat(T, t) = Cat(U, u)
        /\ i \in 1 .. Len(T) /\ i <= Len(U)
    <3>1. Len(r) \in Nat
      BY <1>2
    <3> QED
      BY <1>2, <2>1, <2>3, <3>1
  <2> HIDE DEF T, U, r, n
  <2>5. T[i] = U[i]
    BY <2>4, SameBeginning
  <2>6. Tag(x, i) = <<x.what, x.ws[i], k>>
    BY <1>4 DEF Tag
  <2> QED
    BY <2>1, <2>2, <2>5, <2>6 DEF T, U
<1>6. AllFit(c, q, r)
  BY <1>1 DEF ValuesRight, StreamsFit
<1> HIDE DEF r, c, n, k
<1>7. DOMAIN got = 1 .. n /\ \A i \in 1 .. n : got[i] = r[i]
  <2>1. Len(r) \in Nat
    BY <1>2
  <2>2. got \in Seq(S) /\ Len(got) = n
    BY <1>2, <2>1
  <2> QED
    BY <1>2, <2>1, <2>2
<1>8. ASSUME NEW j \in 1 .. n PROVE Fits(c, q, x.what, x.ws[j], k, a[j])
  <2>1. j \in 1 .. Len(r)
    <3>1. Len(r) \in Nat
      BY <1>2
    <3> QED
      BY <1>2, <3>1
  <2>2. ElementFits(c, q, r[j])
    BY <1>6, <2>1 DEF AllFit
  <2>3. a[j] = r[j].v
    BY <1>7
  <2>4. r[j].tag = <<x.what, x.ws[j], k>>
    BY <1>5
  <2> HIDE DEF a
  <2>5. r[j].tag[1] = x.what /\ r[j].tag[2] = x.ws[j] /\ r[j].tag[3] = k
    BY <2>4
  <2> QED
    BY <2>2, <2>3, <2>5 DEF ElementFits
<1>9. a \in Seq({a[i] : i \in 1 .. n}) /\ Len(a) = n
  <2>1. DOMAIN a = 1 .. n
    BY <1>7
  <2>2. a = [i \in 1 .. n |-> a[i]]
    BY <1>7
  <2> HIDE DEF a
  <2>3. a \in [1 .. n -> {a[i] : i \in 1 .. n}]
    BY <2>1, <2>2
  <2>4. a \in Seq({a[i] : i \in 1 .. n})
    BY <1>2, <2>3
  <2> QED
    BY <1>2, <2>1, <2>4
<1> QED
  BY <1>8, <1>9 DEF ReadRightly, q, n, c, k

\* The return of recv keeps the values right: the array is what its step is for.
LEMMA ReadMoves ==
    ASSUME IInv, ValuesRight, NEW p \in Party, EndRecv(p)
    PROVE  ValuesRight'
<1> DEFINE x == At(p)
           g == Ghost(p)
           h == After(p, g, x)
           c == Context
           q == x.peer
           got == Net!Received(p, q)
           a == [i \in DOMAIN got |-> got[i].v]
           n == buf[p][0]
<1>1. /\ x.op = "recv" /\ pc' = [pc EXCEPT ![p] = @ + 1] /\ inputs' = inputs /\ tape' = tape
      /\ buf' = [buf EXCEPT ![p][q] = a]
      /\ wires' = IF x.what = "input" THEN [wires EXCEPT ![p] = With(@, x.ws[1], a[1])] ELSE wires
      /\ pre' = IF x.what = "preproc"
                THEN [pre EXCEPT ![p] = PartyMasks(p, tape, SubSeq(a, 1, n[2]), SubSeq(a, n[2] + 1, n[1]))]
                ELSE pre
      /\ outvals' = IF x.what = "output"
                    THEN [outvals EXCEPT ![0] = Append(@, (a[1] - pre[0].mask[x.ws[1]]) % Modulus)]
                    ELSE outvals
  BY DEF EndRecv, Advance
<1>2. /\ pc[p] <= Len(Body(p)) /\ x \in StepsOf(p) /\ q \in Party
      /\ Net!Connected(q, p) /\ \E S : Shortened(S, p, q, Len(x.ws))
  BY EndEffect
<1>3. GoesOn(p)
  BY <1>1, <1>2 DEF GoesOn
<1>4. x \in AnyStep /\ g \in Has /\ Allowed(p, g, x)
      /\ (x.what # "start" => AfterIs(p, g, x, h))
  BY <1>2, StepFacts
<1>5. x.what # "start" /\ ~ EndsLevel(x)
  BY <1>1, <1>4 DEF Allowed, RoundAllowed, EndsLevel
<1>6. AfterIs(p, g, x, h)
  BY <1>4, <1>5
<1>7. /\ PreRight(c, p, g, pre[p]) /\ WiresRight(c, p, g, wires[p])
      /\ ArraysRight(c, p, g, buf[p]) /\ ResultsRight(c, p, g, outvals[p])
      /\ c.tape = tape /\ c.inputs = inputs /\ tape \in Tapes /\ inputs \in Inputs
  BY PartyFacts
<1>8. ReadRightly(c, x, g.round, a)
  BY ReceivedFits
<1>9. PICK V : a \in Seq(V) /\ Len(a) = Len(x.ws)
  BY <1>8 DEF ReadRightly
<1>10. \A j \in 1 .. Len(x.ws) : Fits(c, q, x.what, x.ws[j], g.round, a[j])
  BY <1>8 DEF ReadRightly
<1>11. DOMAIN pre = Party /\ DOMAIN wires = Party /\ DOMAIN outvals = Party
  BY DEF ValuesRight, Typed
<1>12. DOMAIN buf = Party /\ DOMAIN buf[p] = Party
  BY DEF IInv, LengthsRead
<1>13. /\ x.what = "preproc" => p \in Net!Driver /\ q = 0 /\ x.ws = PreprocWires(p) /\ p # 0
       /\ x.what = "output" => /\ p = 0 /\ g.pre = 1 /\ g.read < Len(circ.outputs)
                               /\ Mode = "Distance" /\ x.ws = One(circ.outputs[g.read + 1])
       /\ x.what = "input" => p \in Peers /\ \E w \in OwnWires[p] : x.ws = One(w)
  <2>1. Wait(x, "preproc") => p \in Net!Driver /\ q = 0 /\ x.ws = PreprocWires(p)
    BY <1>2 DEF StepsOf, PreprocWires
  <2>2. Wait(x, "output") => /\ Mode = "Distance" /\ p = 0 /\ g.pre = 1 /\ g.read < Len(circ.outputs)
                             /\ x.ws = One(circ.outputs[g.read + 1])
    BY <1>4 DEF Allowed, OutputAllowed
  <2>3. x.what = "input" => p \in Peers /\ \E w \in OwnWires[p] : x.ws = One(w)
    BY <1>4 DEF Allowed, InputAllowed
  <2> QED
    BY <1>1, <2>1, <2>2, <2>3, Roles DEF Wait
<1> HIDE DEF a, got
<1>14. buf'[p] = [buf[p] EXCEPT ![q] = a]
  BY <1>1, <1>12
<1>15. OthersKept(p)
  <2>1. DOMAIN pre' = Party /\ \A y \in Party : y # p => pre'[y] = pre[y]
    BY <1>1, <1>11
  <2>2. DOMAIN wires' = Party /\ \A y \in Party : y # p => wires'[y] = wires[y]
    BY <1>1, <1>11
  <2>3. DOMAIN outvals' = Party /\ \A y \in Party : y # p => outvals'[y] = outvals[y]
    BY <1>1, <1>11, <1>13
  <2>4. \A y \in Party : y # p => buf'[y] = buf[y]
    BY <1>1, <1>12
  <2> QED
    BY <1>1, <2>1, <2>2, <2>3, <2>4 DEF OthersKept
<1>16. p = 0 => pre'[0].rho = pre[0].rho
  BY <1>1, <1>13
<1>17. Context' = Context
  BY <1>1, <1>3, <1>5, <1>15, <1>16, ContextNext DEF OthersKept
<1>18. StreamsFit'
  <2>1. PICK S : Shortened(S, p, q, Len(x.ws))
    BY <1>2
  <2>2. StreamsFit /\ Net!Connected(q, p) /\ q \in Party
    BY <1>2 DEF ValuesRight
  <2> DEFINE k == Len(x.ws)
  <2>3. Shortened(S, p, q, k)
    BY <2>1
  <2> HIDE DEF q, k, x
  <2> QED
    BY <1>17, <2>2, <2>3, ReadFit
<1> DEFINE masks == PartyMasks(p, tape, SubSeq(a, 1, n[2]), SubSeq(a, n[2] + 1, n[1]))
<1>19. PreRight(c, p, h, pre'[p])
  <2>1. CASE x.what = "preproc"
    <3>1. n = LengthValues(p) /\ Wait(x, "preproc")
      BY <1>1, <2>1 DEF Wait, IInv, LengthsRead
    <3>2. \A j \in 1 .. Len(x.ws) : Fits(c, 0, "preproc", x.ws[j], g.round, a[j])
      BY <1>10, <1>13, <2>1
    <3>3. p \in Net!Driver /\ x.ws = PreprocWires(p) /\ c.tape \in Tapes /\ c.tape = tape
      BY <1>7, <1>13, <2>1
    <3>4. pre'[p] = masks
      BY <1>1, <1>11, <2>1
    <3> HIDE DEF x, g, h, c, n
    <3>5. PreRight(c, p, h, PartyMasks(p, c.tape, SubSeq(a, 1, n[2]), SubSeq(a, n[2] + 1, n[1])))
      BY <1>6, <1>9, <3>1, <3>2, <3>3, PreprocRight
    <3> QED
      BY <3>3, <3>4, <3>5
  <2>2. CASE x.what # "preproc"
    <3>1. ~ Wait(x, "preproc") /\ pre'[p] = pre[p]
      BY <1>1, <2>2 DEF Wait
    <3> HIDE DEF x, g, h, c
    <3> QED
      BY <1>6, <1>7, <3>1, PreKept
  <2> QED
    BY <2>1, <2>2
<1>20. WiresRight(c, p, h, wires'[p])
  <2>1. CASE x.what = "input"
    <3>1. PICK w \in OwnWires[p] : x.ws = One(w)
      BY <1>13, <2>1
    <3>2. x.ws[1] = w /\ Len(x.ws) = 1 /\ p \in Peers
      BY <1>13, <2>1, <3>1 DEF One
    <3>3. Fits(c, q, x.what, x.ws[1], g.round, a[1])
      BY <1>10, <3>2
    <3>4. a[1] = Masked(c.tape, c.inputs)[w]
      BY <2>1, <3>2, <3>3 DEF Fits, Expected, WithKeys
    <3>5. wires'[p] = With(wires[p], w, Masked(c.tape, c.inputs)[w])
      BY <1>1, <1>11, <2>1, <3>2, <3>4
    <3> HIDE DEF x, g, h, c
    <3> QED
      BY <1>4, <1>6, <1>7, <2>1, <3>2, <3>5, InputRight
  <2>2. CASE x.what # "input"
    <3>1. wires'[p] = wires[p]
      BY <1>1, <2>2
    <3> HIDE DEF x, g, h, c
    <3> QED
      BY <1>5, <1>6, <1>7, <2>2, <3>1, WiresKept
  <2> QED
    BY <2>1, <2>2
<1>21. ArraysRight(c, p, h, buf'[p])
  <2> DEFINE b == buf[p]
  <2>1. DOMAIN b = Party /\ ArraysRight(c, p, g, b) /\ buf'[p] = [b EXCEPT ![x.peer] = a]
    BY <1>7, <1>12, <1>14
  <2>2. /\ x.op = "recv" /\ x.peer \in Party
        /\ \A j \in 1 .. Len(x.ws) : Fits(c, x.peer, x.what, x.ws[j], g.round, a[j])
    BY <1>1, <1>2, <1>10
  <2>3. AfterIs(p, g, x, h)
    BY <1>6
  <2> HIDE DEF x, g, h, c, q, b
  <2>4. ArraysRight(c, p, h, [b EXCEPT ![x.peer] = a])
    BY ONLY <2>1, <2>2, <2>3, ArrayRight
  <2> QED
    BY <2>1, <2>4
<1>22. ResultsRight(c, p, h, outvals'[p])
  <2>1. CASE x.what = "output"
    <3> DEFINE w == circ.outputs[g.read + 1]
               m == pre[0]
               o == outvals[0]
               v == a[1]
    <3>1. x.ws[1] = w /\ Len(x.ws) = 1 /\ p = 0 /\ Wait(x, "output")
          /\ g.pre = 1 /\ g.read < Len(circ.outputs) /\ Mode = "Distance"
      <4>1. x.ws = One(w) /\ p = 0 /\ g.pre = 1 /\ g.read < Len(circ.outputs) /\ Mode = "Distance"
        BY <1>13, <2>1
      <4>2. One(w)[1] = w /\ Len(One(w)) = 1
        BY DEF One
      <4> QED
        BY <1>1, <2>1, <4>1, <4>2 DEF Wait
    <3>2. Fits(c, q, x.what, x.ws[1], g.round, a[1])
      BY <1>10, <3>1
    <3>3. v = Masked(c.tape, c.inputs)[w]
      BY <2>1, <3>1, <3>2 DEF Fits, Expected, WithKeys
    <3>4. outvals'[0] = Append(o, (v - m.mask[w]) % Modulus)
      BY <1>1, <1>11, <2>1, <3>1, Roles
    <3>5. /\ g \in Has /\ c.tape \in Tapes /\ c.inputs \in Inputs /\ PreRight(c, 0, g, m)
          /\ ResultsRight(c, 0, g, o) /\ AfterIs(0, g, x, h) /\ w = circ.outputs[g.read + 1]
      BY <1>4, <1>6, <1>7, <3>1
    <3> HIDE DEF x, g, h, c, w, m, o, v
    <3>6. ResultsRight(c, 0, h, Append(o, (v - m.mask[w]) % Modulus))
      BY <3>1, <3>3, <3>5, OutputRight
    <3> QED
      BY <3>1, <3>4, <3>6
  <2>2. CASE x.what # "output"
    <3>1. ~ Wait(x, "output") /\ outvals'[p] = outvals[p]
      BY <1>1, <2>2 DEF Wait
    <3> HIDE DEF x, g, h, c
    <3> QED
      BY <1>4, <1>6, <1>7, <3>1, ResultsKept
  <2> QED
    BY <2>1, <2>2
<1> HIDE DEF masks
<1>23. PartyRight(c, p, h, pre'[p], wires'[p], buf'[p], outvals'[p])
  BY <1>19, <1>20, <1>21, <1>22 DEF PartyRight
<1> HIDE DEF n, q
<1>24. PartyRight(Context', p, After(p, Ghost(p), At(p)), pre'[p], wires'[p], buf'[p], outvals'[p])
  BY <1>17, <1>23
<1> QED
  BY <1>3, <1>15, <1>16, <1>18, <1>24, PartyMoves

\* Initially nobody holds anything, and nothing is under way.
LEMMA ValuesInitially ==
    Init => ValuesRight
<1> SUFFICES ASSUME Init PROVE ValuesRight
  OBVIOUS
<1>1. /\ out = [l \in Net!Link |-> Nil] /\ wire = [l \in Net!Link |-> Nil]
      /\ pc = [p \in Party |-> 1] /\ buf = [p \in Party |-> [q \in Party |-> <<>>]]
      /\ pre = [p \in Party |-> <<>>] /\ wires = [p \in Party |-> <<>>]
      /\ outvals = [p \in Party |-> <<>>] /\ inputs \in Inputs /\ tape \in Tapes
  BY DEF Init, Net!Init, Nil, Party
<1>2. Typed
  BY <1>1 DEF Typed
<1>3. StreamsFit
  <2>1. Nil \in Seq({}) /\ Len(Nil) = 0 /\ Cat(Nil, Nil) = Nil
    BY NilType, CatNil
  <2>2. \A l \in Net!Link : Contents(wire, out, l) = Nil
    BY <1>1, <2>1 DEF Contents, Cat
  <2>3. ASSUME NEW p \in Party, NEW q \in Party, Net!Connected(p, q)
        PROVE  AllFit(Context, p, Stream(p, q))
    <3>1. Stream(p, q) = Nil
      BY <2>2, <2>3, FlowLink DEF Stream
    <3> QED
      BY <2>1, <3>1 DEF AllFit
  <2> QED
    BY <2>3 DEF StreamsFit
<1>4. ASSUME NEW p \in Party PROVE PartyOK(p)
  <2> DEFINE g == Ghost(p)
             c == Context
             b == buf[p]
  <2>1. g = Nothing
    <3>1. pc[p] - 1 = 0
      BY <1>1
    <3> QED
      BY <3>1, TraceOf DEF Ghost, IsTrace
  <2>2. g.pre = 0 /\ g.known = {} /\ g.read = 0 /\ \A q \in Party : g.got[q] = NoArray
    BY <2>1 DEF Nothing
  <2>3. pre[p] = <<>> /\ wires[p] = <<>> /\ outvals[p] = <<>>
    BY <1>1
  <2> HIDE DEF g, c, b
  <2>4. PreRight(c, p, g, pre[p])
    BY <2>2, <2>3 DEF PreRight
  <2>5. WiresRight(c, p, g, wires[p])
    BY <2>2, <2>3 DEF WiresRight
  <2>6. ArraysRight(c, p, g, b)
    <3>1. NoArray.ws = Nil /\ Len(Nil) = 0
      BY NilType DEF NoArray
    <3> QED
      BY <2>2, <3>1 DEF ArraysRight, ArrayFits
  <2>7. ResultsRight(c, p, g, outvals[p])
    <3>1. <<>> \in Seq(Field) /\ Len(<<>>) = 0 /\ Len(circ.outputs) \in Nat
      <4>1. circ.outputs \in Seq(Wires)
        BY CircuitAssumption
      <4> QED
        BY <4>1, LenProperties
    <3> QED
      BY <2>2, <2>3, <3>1 DEF ResultsRight
  <2> QED
    BY <2>4, <2>5, <2>6, <2>7 DEF PartyOK, PartyRight, g, c, b
<1> QED
  BY <1>2, <1>3, <1>4 DEF ValuesRight

\* No step of any party makes a value wrong.
LEMMA ValuesStayRight ==
    IInv /\ ValuesRight /\ [Next]_vars => ValuesRight'
<1> SUFFICES ASSUME IInv, ValuesRight, [Next]_vars PROVE ValuesRight'
  OBVIOUS
<1>1. CASE UNCHANGED vars
  <2>1. /\ wire' = wire /\ out' = out /\ pc' = pc /\ inputs' = inputs /\ tape' = tape
        /\ pre' = pre /\ wires' = wires /\ buf' = buf /\ outvals' = outvals
    BY <1>1 DEF vars
  <2>2. StreamsSame
    BY <2>1, NetEffect
  <2> QED
    BY <2>1, <2>2, NothingMoves
<1>2. ASSUME NEW p \in Party, PartyNext(p)
      PROVE  ValuesRight'
  <2>1. CASE Start(p)
    BY <2>1, StartMoves
  <2>2. CASE DoSend(p)
    BY <2>2, SendMoves
  <2>3. CASE DoFlush(p)
    BY <2>3, FlushMoves
  <2>4. CASE CallRecv(p)
    BY <2>4, CallMoves
  <2>5. CASE EndRecv(p)
    BY <2>5, ReadMoves
  <2>6. CASE EndLevel(p)
    BY <2>6, EndLevelMoves
  <2>7. CASE Conclude(p)
    BY <2>7, ConcludeMoves
  <2>8. CASE Close(p)
    BY <2>8, CloseMoves
  <2> QED
    BY <1>2, <2>1, <2>2, <2>3, <2>4, <2>5, <2>6, <2>7, <2>8 DEF PartyNext
<1> QED
  BY <1>1, <1>2 DEF Next

\* In every reachable state every party holds, and every stream carries, the right values,
\* for every circuit, input, tape, number of parties and rounds, and entry point.
THEOREM ValuesInvariant == Spec => []ValuesRight
<1>1. Spec => [](IInv /\ ValuesRight)
  <2>1. Init => IInv /\ ValuesRight
    BY Initially, ValuesInitially
  <2>2. (IInv /\ ValuesRight) /\ [Next]_vars => (IInv /\ ValuesRight)'
    BY Inductive, ValuesStayRight
  <2> QED
    BY <2>1, <2>2, PTL DEF Spec
<1> QED
  BY <1>1, PTL

\* Masks are residues on the wires of their holder, at whoever has any.
LEMMA MasksHeld ==
    ASSUME IInv, ValuesRight, NEW p \in Party, pre[p] # <<>>
    PROVE  /\ Ghost(p).pre = 1
           /\ p = 0 => pre[p].mask = SPMask[tape]
           /\ p # 0 => p \in Peers /\ MasksRight(p, tape, pre[p])
           /\ \A w \in DOMAIN pre[p].mask : pre[p].mask[w] \in Field
<1>1. PreRight(Context, p, Ghost(p), pre[p]) /\ Context.tape = tape /\ tape \in Tapes /\ Ghost(p) \in Has
  BY PartyFacts
<1>2. Ghost(p).pre = 1
  BY <1>1 DEF PreRight, Has
<1>3. CASE p = 0
  <2>1. pre[p].mask = SPMask[tape]
    BY <1>1, <1>2, <1>3 DEF PreRight
  <2>2. SPMask[tape] \in [Wires -> Field]
    BY <1>1, SPMaskOf
  <2> QED
    BY <1>2, <1>3, <2>1, <2>2
<1>4. CASE p # 0
  <2>1. p \in Peers
    BY <1>4, Roles
  <2>2. MasksRight(p, tape, pre[p])
    BY <1>1, <1>2, <1>4 DEF PreRight
  <2>3. /\ DOMAIN pre[p].mask = OwnWires[p] /\ OwnWires[p] \subseteq Wires
        /\ \A w \in OwnWires[p] :
              pre[p].mask[w] = IF p = Gate(w).rider_id THEN SPShare1[tape][w] ELSE SPShare2[tape][w]
    BY <2>1, <2>2, OwnWiresOf DEF MasksRight
  <2>4. SPShare1[tape] \in [Wires -> Field] /\ SPShare2[tape] \in [Wires -> Field]
    BY <1>1, SPShare1Solves, SPShare2Solves
  <2>5. ASSUME NEW w \in DOMAIN pre[p].mask PROVE pre[p].mask[w] \in Field
    <3>1. w \in Wires
      BY <2>3
    <3> QED
      BY <2>3, <2>4, <3>1
  <2> QED
    BY <1>2, <1>4, <2>1, <2>2, <2>5
<1> QED
  BY <1>3, <1>4

\* What every party has is of its type: wires and masks are residues, and wires its own.
THEOREM TypeCorrect == Spec => []TypeOK
<1>1. IInv /\ ValuesRight => TypeOK
  <2> SUFFICES ASSUME IInv, ValuesRight, NEW p \in Party
               PROVE  /\ pc[p] \in DOMAIN Script[p]
                      /\ DOMAIN wires[p] \subseteq {w \in Wires : Mine(p, w)}
                      /\ \A w \in DOMAIN wires[p] : wires[p][w] \in 0 .. Modulus - 1
                      /\ pre[p] # <<>> =>
                            \A w \in DOMAIN pre[p].mask : pre[p].mask[w] \in 0 .. Modulus - 1
    BY DEF TypeOK, ValuesRight, Typed
  <2>1. pc[p] \in DOMAIN Script[p]
    <3>1. pc[p] \in 1 .. Len(Body(p)) + 1 /\ Len(Body(p)) \in Nat
      BY AtFacts DEF IInv
    <3>2. Script[p] = Push(Body(p), CloseStep) /\ Body(p) \in Seq(AnyStep)
      BY BodyType
    <3> DEFINE b == Body(p)
               U == AnyStep \cup {CloseStep}
    <3>3. b \in Seq(U) /\ CloseStep \in U
      BY <3>2, SeqMonotonic
    <3> HIDE DEF b, U
    <3>4. Push(b, CloseStep) \in Seq(U) /\ Len(Push(b, CloseStep)) = Len(b) + 1
      BY <3>3, PushType
    <3>5. DOMAIN Push(b, CloseStep) = 1 .. Len(b) + 1
      BY <3>4
    <3> QED
      BY <3>1, <3>2, <3>5 DEF b
  <2>2. /\ WiresRight(Context, p, Ghost(p), wires[p]) /\ Context.tape = tape
        /\ Context.inputs = inputs /\ tape \in Tapes /\ inputs \in Inputs
    BY PartyFacts
  <2>3. DOMAIN wires[p] = Ghost(p).known /\ Ghost(p).known \subseteq Own(p)
        /\ \A w \in Ghost(p).known : wires[p][w] = Masked(tape, inputs)[w]
    BY <2>2 DEF WiresRight
  <2>4. Own(p) \subseteq {w \in Wires : Mine(p, w)}
    BY DEF Own, OwnWires
  <2>5. Masked(tape, inputs) \in [Wires -> Field]
    BY <2>2, MaskedField
  <2>6. ASSUME NEW w \in DOMAIN wires[p] PROVE wires[p][w] \in Field
    BY <2>3, <2>4, <2>5
  <2> QED
    BY <2>1, <2>3, <2>4, <2>6, MasksHeld DEF Field
<1> QED
  BY <1>1, Invariant, ValuesInvariant, PTL

\* Rider, driver and SP, who draw from separate PRGs and exchange only what the driver
\* lacks, end up with the same masks.
THEOREM MasksAgreeHolds == Spec => []MasksAgree
<1>1. IInv /\ ValuesRight => MasksAgree
  <2> SUFFICES ASSUME IInv, ValuesRight, NEW w \in Wires,
                      pre[0] # <<>>, pre[Gate(w).rider_id] # <<>>, pre[Gate(w).driver_id] # <<>>
               PROVE  LET r == Gate(w).rider_id
                          d == Gate(w).driver_id
                          mask == pre[0].mask
                      IN  /\ (pre[r].mask[w] + pre[d].mask[w]) % Modulus = mask[w]
                          /\ Gate(w).type \in Communicating =>
                                (pre[r].prod[w] + pre[d].prod[w] - Dot(Gate(w), mask, mask)) % Modulus = 0
                          /\ Gate(w).type = "kInp" => pre[input_pid[w]].secret[w] = mask[w]
    BY DEF MasksAgree
  <2> DEFINE r == Gate(w).rider_id
             d == Gate(w).driver_id
             M == SPMask[tape]
  <2>1. r \in Net!Rider /\ d \in Net!Driver /\ r # d /\ r \in Peers /\ d \in Peers
        /\ r # 0 /\ d # 0 /\ 0 \in Party /\ r \in Party /\ d \in Party
    BY Owners, Roles
  <2>2. w \in OwnWires[r] /\ w \in OwnWires[d]
    BY <2>1 DEF OwnWires, Mine
  <2>3. pre[0].mask = M /\ MasksRight(r, tape, pre[r]) /\ MasksRight(d, tape, pre[d])
    BY <2>1, MasksHeld
  <2>4. tape \in Tapes
    BY DEF ValuesRight, Typed
  <2>5. pre[r].mask[w] = SPShare1[tape][w] /\ pre[d].mask[w] = SPShare2[tape][w]
    BY <2>1, <2>2, <2>3 DEF MasksRight
  <2>6. M[w] = (SPShare1[tape][w] + SPShare2[tape][w]) % Modulus
    BY <2>4, SPMaskOf
  <2>7. ASSUME Gate(w).type \in Communicating
        PROVE  (pre[r].prod[w] + pre[d].prod[w] - Dot(Gate(w), M, M)) % Modulus = 0
    <3> DEFINE a == SPDrawn(tape, r, w, "prod")
               b == SPProd2[tape][w]
               e == Dot(Gate(w), M, M)
    <3>1. w \in Products
      BY <2>7 DEF Products
    <3>2. pre[r].prod[w] = a /\ pre[d].prod[w] = b
      BY <2>1, <2>2, <2>3, <3>1 DEF MasksRight
    <3>3. a \in Field /\ b \in Field /\ e \in Int /\ Cong(Modulus, a + b, e)
      BY <2>4, <3>1, SPProductShares
    <3> HIDE DEF a, b, e
    <3>4. a \in Int /\ b \in Int
      BY <3>3, ModulusAssumption DEF Field
    <3>5. Cong(Modulus, a + b - e, 0)
      <4>1. (a + b - e) - 0 = (a + b) - e
        BY <3>3, <3>4
      <4> QED
        BY <3>3, <4>1 DEF Cong
    <3>6. (a + b - e) % Modulus = 0 % Modulus
      <4> DEFINE z == a + b - e
      <4>1. z \in Int /\ Cong(Modulus, z, 0) /\ 0 \in Int
        BY <3>3, <3>4, <3>5
      <4> HIDE DEF z
      <4>2. z % Modulus = 0 % Modulus
        BY <4>1, ModulusAssumption, CongMod
      <4> QED
        BY <4>2 DEF z
    <3>7. 0 % Modulus = 0
      BY ModulusAssumption, ModSmall
    <3> QED
      BY <3>2, <3>6, <3>7 DEF e
  <2>8. ASSUME Gate(w).type = "kInp"
        PROVE  pre[input_pid[w]].secret[w] = M[w]
    <3>1. input_pid[w] \in {r, d}
      BY <2>8, InputAssumption
    <3> QED
      BY <2>2, <2>3, <2>8, <3>1 DEF MasksRight
  <2> QED
    BY <2>3, <2>5, <2>6, <2>7, <2>8
<1> QED
  BY <1>1, Invariant, ValuesInvariant, PTL

\* At every moment every wire a party has set is the plaintext value plus the wire's mask.
THEOREM WiresMaskedHolds == Spec => []WiresMasked
<1>1. IInv /\ ValuesRight => WiresMasked
  <2> SUFFICES ASSUME IInv, ValuesRight, NEW p \in Party, NEW w \in DOMAIN wires[p]
               PROVE  wires[p][w] = (Plain[inputs][w] + SPMask[tape][w]) % Modulus
    BY DEF WiresMasked
  <2>1. /\ WiresRight(Context, p, Ghost(p), wires[p]) /\ Context.tape = tape
        /\ Context.inputs = inputs /\ tape \in Tapes /\ inputs \in Inputs
    BY PartyFacts
  <2>2. wires[p][w] = Masked(tape, inputs)[w] /\ w \in Own(p)
    BY <2>1 DEF WiresRight
  <2>3. w \in Wires
    BY <2>2 DEF Own, OwnWires
  <2> QED
    BY <2>1, <2>2, <2>3, MaskedField
<1> QED
  BY <1>1, Invariant, ValuesInvariant, PTL

\* The distances the SP obtains are those of the plaintext circuit, in order.
THEOREM DistancesCorrectHolds == Spec => []DistancesCorrect
<1>1. IInv /\ ValuesRight => DistancesCorrect
  <2> SUFFICES ASSUME IInv, ValuesRight, Mode = "Distance", NEW i \in DOMAIN outvals[0]
               PROVE  outvals[0][i] = Plain[inputs][circ.outputs[i]]
    BY DEF DistancesCorrect
  <2>1. ResultsRight(Context, 0, Ghost(0), outvals[0]) /\ Context.inputs = inputs
    BY PartyFacts, Roles
  <2>2. /\ outvals[0] \in Seq(Field) /\ Len(outvals[0]) = Ghost(0).read
        /\ \A j \in 1 .. Ghost(0).read : outvals[0][j] = Plain[inputs][circ.outputs[j]]
    BY <2>1 DEF ResultsRight
  <2>3. i \in 1 .. Ghost(0).read
    BY <2>2
  <2> QED
    BY <2>2, <2>3
<1> QED
  BY <1>1, Invariant, ValuesInvariant, PTL
-----------------------------------------------------------------------------
(***************************************************************************)
(* The comparison: what the two results of a DCF make of each other.       *)
(***************************************************************************)
Signed(o) == IF 2 * o >= RtModulus THEN o - RtModulus ELSE o

\* Congruence modulo the Field's size is congruence modulo R_t's.
LEMMA RtDivides ==
    ASSUME NEW a \in Multiples(Modulus)
    PROVE  a \in Multiples(RtModulus)
<1>1. PICK m \in Int : a = Modulus * m
  BY DEF Multiples
<1>2. RtModulus \in Nat \ {0} /\ Modulus \in Int /\ Modulus % RtModulus = 0
  BY RtAssumption, ModulusAssumption
<1>3. Cong(RtModulus, Modulus, 0)
  <2>1. Cong(RtModulus, Modulus, Modulus % RtModulus)
    BY <1>2, ModRange
  <2> QED
    BY <1>2, <2>1
<1>4. Modulus \in Multiples(RtModulus)
  BY <1>2, <1>3 DEF Cong
<1> QED
  BY <1>1, <1>2, <1>4, MultiplesTimes

\* Truncating the masked distance to R_t gives the distance plus the truncated mask.
LEMMA MaskedDistance ==
    ASSUME NEW t \in Tapes, NEW i \in Inputs, NEW w \in Wires,
           NEW alpha, alpha = SPMask[t][w] % RtModulus,
           NEW z, z = alpha + Plain[i][w] - Threshold, z \in 0 .. RtModulus - 1
    PROVE  /\ (Masked(t, i)[w] - Threshold) % RtModulus = z
           /\ z < alpha <=> Plain[i][w] < Threshold
<1> DEFINE m == Masked(t, i)[w]
           s == SPMask[t][w]
           x == Plain[i][w]
           h == Threshold
<1>1. m = (x + s) % Modulus /\ x \in Int /\ s \in Int
  BY MaskedField
<1>2. h \in Int /\ RtModulus \in Nat \ {0} /\ Modulus \in Nat \ {0}
  BY ComparisonAssumption, RtAssumption, ModulusAssumption
<1>3. alpha = s % RtModulus /\ z = alpha + x - h /\ z \in 0 .. RtModulus - 1
  OBVIOUS
<1> HIDE DEF m, s, x, h
<1>4. m \in Int /\ m - (x + s) \in Multiples(Modulus)
  <2> DEFINE y == x + s
  <2>1. y \in Int /\ m = y % Modulus
    BY <1>1
  <2> HIDE DEF y
  <2>2. y % Modulus \in 0 .. Modulus - 1 /\ Cong(Modulus, y % Modulus, y)
    BY <1>2, <2>1, ModRange
  <2> QED
    BY <1>2, <2>1, <2>2 DEF Cong, y
<1>5. alpha \in Int /\ alpha - s \in Multiples(RtModulus)
  <2>1. s % RtModulus \in 0 .. RtModulus - 1 /\ Cong(RtModulus, s % RtModulus, s)
    BY <1>1, <1>2, ModRange
  <2> QED
    BY <1>2, <1>3, <2>1 DEF Cong
<1>6. m - (x + s) \in Multiples(RtModulus)
  BY <1>4, RtDivides
<1> DEFINE M == Multiples(RtModulus)
<1>7. (m - (x + s)) - (alpha - s) \in M
  BY <1>2, <1>5, <1>6, MultiplesClosed
<1>8. (m - h) - z = (m - (x + s)) - (alpha - s)
  <2>1. m \in Int /\ h \in Int /\ x \in Int /\ s \in Int /\ alpha \in Int /\ z = alpha + x - h
    BY <1>1, <1>2, <1>3, <1>4, <1>5
  <2> QED
    BY ONLY <2>1
<1> DEFINE u == m - h
<1>9. u \in Int /\ z \in Int /\ Cong(RtModulus, u, z)
  <2>1. z \in Int
    BY <1>2, <1>3
  <2> QED
    BY <1>2, <1>4, <1>7, <1>8, <2>1 DEF Cong
<1> HIDE DEF u
<1>10. u % RtModulus = z % RtModulus
  BY <1>2, <1>9, CongMod
<1>11. z % RtModulus = z
  BY <1>2, <1>3, ModSmall
<1>12. z < alpha <=> x < h
  BY <1>1, <1>2, <1>3, <1>5
<1> QED
  BY <1>10, <1>11, <1>12 DEF u, m, x, h

\* Sign extension.
LEMMA ToFieldOf ==
    ASSUME NEW o \in 0 .. RtModulus - 1
    PROVE  Signed(o) \in Int /\ ToField(o) \in Int /\ Cong(Modulus, ToField(o), Signed(o))
<1>1. RtModulus \in Nat /\ Modulus \in Nat \ {0}
  BY RtAssumption, ModulusAssumption
<1>2. Signed(o) \in Int
  BY <1>1 DEF Signed
<1>3. ToField(o) = Signed(o) % Modulus
  BY DEF ToField, Signed
<1> DEFINE s == Signed(o)
<1> HIDE DEF s
<1>4. s % Modulus \in 0 .. Modulus - 1 /\ Cong(Modulus, s % Modulus, s)
  BY <1>1, <1>2, ModRange DEF s
<1> QED
  BY <1>1, <1>2, <1>3, <1>4 DEF s

\* The two results, as signed numbers, add up to less.
LEMMA SignedSum ==
    ASSUME NEW rho \in 0 .. RtModulus - 1, NEW less \in 0 .. 1,
           2 * (less - Signed(rho)) < RtModulus
    PROVE  /\ (less - rho) % RtModulus \in 0 .. RtModulus - 1
           /\ Signed((less - rho) % RtModulus) = less - Signed(rho)
<1> DEFINE n == RtModulus
           s == Signed(rho)
           e == less - s
           o == (less - rho) % n
<1>1. n \in Nat \ {0} /\ rho \in Int /\ rho >= 0 /\ rho < n /\ less \in Int /\ less >= 0
  BY RtAssumption
<1>2. (2 * rho >= n /\ s = rho - n) \/ (2 * rho < n /\ s = rho)
  BY <1>1 DEF Signed
<1>3. 2 * e < n
  OBVIOUS
<1>4. s \in Int /\ e \in Int /\ e = less - s
  BY <1>1, <1>2
<1> HIDE DEF s, e
<1>5. -n < 2 * e
  BY <1>1, <1>2, <1>4
<1> DEFINE d == less - rho
<1>6. d \in Int /\ (d = e \/ d = e - n) /\ o = d % n
  BY <1>1, <1>2, <1>4
<1> HIDE DEF d, o, n
<1>7. o \in 0 .. n - 1 /\ Cong(n, o, d)
  BY <1>1, <1>6, ModRange
<1>8. CASE e >= 0
  <2>1. e \in 0 .. n - 1
    BY <1>1, <1>3, <1>4, <1>8
  <2>2. Cong(n, e, d)
    <3>1. e - d = n * 0 \/ e - d = n * 1
      BY <1>1, <1>4, <1>6
    <3> QED
      BY <3>1 DEF Cong, Multiples
  <2>3. o % n = d % n /\ e % n = d % n
    <3>1. o \in Int
      BY <1>1, <1>7
    <3>2. o % n = d % n
      BY <1>1, <1>6, <1>7, <3>1, CongMod
    <3>3. e % n = d % n
      BY <1>1, <1>4, <1>6, <2>2, CongMod
    <3> QED
      BY <3>2, <3>3
  <2>4. o % n = o /\ e % n = e
    BY <1>1, <1>7, <2>1, ModSmall
  <2>5. o = e
    BY <2>3, <2>4
  <2>6. Signed(o) = e
    BY <1>1, <1>3, <1>4, <2>5 DEF Signed, n
  <2> QED
    BY <1>7, <2>6 DEF o, n, e, s
<1>9. CASE ~ e >= 0
  <2> DEFINE f == e + n
  <2>1. f \in 0 .. n - 1 /\ f \in Int
    BY <1>1, <1>4, <1>5, <1>9
  <2>2. Cong(n, f, d)
    <3>1. f - d = n * 1 \/ f - d = n * 2
      BY <1>1, <1>4, <1>6
    <3> QED
      BY <3>1 DEF Cong, Multiples
  <2>3. f = e + n
    OBVIOUS
  <2> HIDE DEF f
  <2>4. o % n = d % n /\ f % n = d % n
    <3>1. o \in Int
      BY <1>1, <1>7
    <3>2. o % n = d % n
      BY <1>1, <1>6, <1>7, <3>1, CongMod
    <3>3. f % n = d % n
      BY <1>1, <1>6, <2>1, <2>2, CongMod
    <3> QED
      BY <3>2, <3>3
  <2>5. o % n = o /\ f % n = f
    BY <1>1, <1>7, <2>1, ModSmall
  <2>6. o = e + n
    BY <2>3, <2>4, <2>5
  <2>7. 2 * o >= n
    BY <1>1, <1>4, <1>5, <2>6
  <2>8. Signed(o) = e
    BY <1>1, <1>4, <2>6, <2>7 DEF Signed, n
  <2> QED
    BY <1>7, <2>8 DEF o, n, e, s
<1> QED
  BY <1>4, <1>8, <1>9

\* Whether wire w is below the threshold.
Below(w) == IF Within(w) THEN 1 ELSE 0

\* The results of rider and driver for a comparable wire add up to whether it is below the
\* threshold.
LEMMA BothBelow ==
    ASSUME tape \in Tapes, inputs \in Inputs, NEW c, c.tape = tape, c.inputs = inputs,
           c.rho = pre[0].rho, c.rho \in Rho, NEW w \in Wires, Comparable(w)
    PROVE  /\ Both(c, w) \in Int /\ Below(w) \in 0 .. 1 /\ Cong(Modulus, Both(c, w), Below(w))
           /\ Below(w) = 1 => Modulus > 1
<1> DEFINE alpha == SPMask[tape][w] % RtModulus
           less == Below(w)
           rho == pre[0].rho[w]
           z == alpha + Plain[inputs][w] - Threshold
           r == Gate(w).rider_id
           d == Gate(w).driver_id
           n == RtModulus
           o == (less - rho) % n
           key == KeyFor(c, w)
           x == Masked(tape, inputs)[w] - Threshold
<1>1. rho \in 0 .. n - 1 /\ less \in 0 .. 1 /\ n \in Nat \ {0} /\ Modulus \in Nat \ {0}
  BY ComparisonAssumption, RtAssumption, ModulusAssumption DEF Below
<1>2. z \in 0 .. n - 1 /\ 2 * (less - Signed(rho)) < n
  BY DEF Comparable, Below, Signed
<1>3. x % n = z /\ (z < alpha <=> Within(w))
  <2>1. x % n = z /\ (z < alpha <=> Plain[inputs][w] < Threshold)
    <3> DEFINE a == alpha
               y == z
    <3>1. a = SPMask[tape][w] % RtModulus /\ y = a + Plain[inputs][w] - Threshold
          /\ y \in 0 .. RtModulus - 1
      BY <1>2
    <3> HIDE DEF alpha, a, y
    <3>2. /\ (Masked(tape, inputs)[w] - Threshold) % RtModulus = y
          /\ y < a <=> Plain[inputs][w] < Threshold
      BY <3>1, MaskedDistance
    <3> QED
      BY <3>2 DEF a, y
  <2> QED
    BY <2>1 DEF Within
<1>4. key = [alpha |-> alpha, rho |-> rho]
  BY DEF KeyFor
<1>5. key.alpha = alpha /\ key.rho = rho
  BY <1>4
<1> HIDE DEF key, alpha, rho, x, z
<1>6. less = IF x % n < key.alpha THEN 1 ELSE 0
  BY <1>3, <1>5 DEF Below
<1>7. DCFEval(0, key, x) = rho /\ DCFEval(1, key, x) = o
  <2> HIDE DEF less
  <2> QED
    BY <1>5, <1>6 DEF DCFEval
<1>8. r \in Net!Rider /\ d \notin Net!Rider
  BY Owners, Roles
<1>9. ShareOf(c, r, w) = ToField(rho) /\ ShareOf(c, d, w) = ToField(o)
  <2>1. ShareOf(c, r, w) = ToField(DCFEval(0, key, x))
    BY <1>8 DEF ShareOf, key, x
  <2>2. ShareOf(c, d, w) = ToField(DCFEval(1, key, x))
    BY <1>8 DEF ShareOf, key, x
  <2> QED
    BY <1>7, <2>1, <2>2
<1> HIDE DEF less
<1>10. o \in 0 .. n - 1 /\ Signed(o) = less - Signed(rho)
  <2> HIDE DEF rho
  <2> QED
    BY <1>1, <1>2, SignedSum
<1> HIDE DEF o
<1>11. /\ Signed(rho) \in Int /\ ToField(rho) \in Int /\ Cong(Modulus, ToField(rho), Signed(rho))
       /\ Signed(o) \in Int /\ ToField(o) \in Int /\ Cong(Modulus, ToField(o), Signed(o))
  <2>1. Signed(rho) \in Int /\ ToField(rho) \in Int /\ Cong(Modulus, ToField(rho), Signed(rho))
    BY <1>1, ToFieldOf
  <2>2. Signed(o) \in Int /\ ToField(o) \in Int /\ Cong(Modulus, ToField(o), Signed(o))
    BY <1>10, ToFieldOf
  <2> QED
    BY <2>1, <2>2
<1> DEFINE a == ToField(rho)
           b == ToField(o)
           e == Signed(rho)
           f == Signed(o)
<1>12. /\ a \in Int /\ b \in Int /\ e \in Int /\ f \in Int /\ less \in Int /\ f = less - e
       /\ a - e \in Multiples(Modulus) /\ b - f \in Multiples(Modulus) /\ Both(c, w) = a + b
  <2>1. Both(c, w) = a + b
    BY <1>9 DEF Both
  <2> QED
    BY <1>1, <1>10, <1>11, <2>1 DEF Cong
<1> HIDE DEF a, b, e, f
<1>13. (a + b) - less = (a - e) + (b - f)
  BY <1>12
<1>14. Cong(Modulus, a + b, less)
  <2>1. (a - e) + (b - f) \in Multiples(Modulus)
    BY <1>1, <1>12, MultiplesClosed
  <2> QED
    BY <1>13, <2>1 DEF Cong
<1>15. less = 1 => Modulus > 1
  <2>1. ASSUME less = 1, n = 1 PROVE FALSE
    <3>1. rho = 0
      BY <1>1, <2>1
    <3>2. Signed(rho) = 0
      BY <2>1, <3>1 DEF Signed
    <3> QED
      BY <1>2, <2>1, <3>2
  <2>2. ASSUME Modulus = 1 PROVE n = 1
    <3>1. Modulus % n = 0
      BY RtAssumption
    <3>2. n > 1 => 1 % n = 1
      <4> HIDE DEF n
      <4>1. ASSUME n > 1 PROVE 1 % n = 1
        <5>1. 1 \in 0 .. n - 1
          BY <1>1, <4>1
        <5> QED
          BY <1>1, <5>1, ModSmall
      <4> QED
        BY <4>1
    <3> QED
      BY <1>1, <2>2, <3>1, <3>2
  <2> QED
    BY <1>1, <2>1, <2>2
<1> QED
  BY <1>1, <1>12, <1>14, <1>15 DEF less

\* The product of two such sums is whether both wires are below.
LEMMA BothMatch ==
    ASSUME NEW x \in Int, NEW y \in Int, NEW a \in 0 .. 1, NEW b \in 0 .. 1,
           Cong(Modulus, x, a), Cong(Modulus, y, b), a = 1 => Modulus > 1
    PROVE  (x * y) % Modulus = IF a = 1 /\ b = 1 THEN 1 ELSE 0
<1> DEFINE n == Modulus
           M == Multiples(n)
           m == IF a = 1 /\ b = 1 THEN 1 ELSE 0
<1>1. n \in Nat \ {0} /\ x - a \in M /\ y - b \in M /\ a \in Int /\ b \in Int
  BY ModulusAssumption DEF Cong
<1> HIDE DEF n
<1>2. (x - a) * y \in M /\ (y - b) * a \in M
  BY <1>1, MultiplesTimes
<1>3. (x - a) * y + (y - b) * a \in M
  BY <1>1, <1>2, MultiplesClosed
<1>4. x * y - a * b = (x - a) * y + (y - b) * a
  BY <1>1
<1>5. a * b = m
  BY <1>1
<1> DEFINE z == x * y
<1>6. z \in Int /\ m \in Int /\ Cong(n, z, m)
  BY <1>1, <1>3, <1>4, <1>5 DEF Cong
<1>7. m \in 0 .. n - 1
  BY <1>1 DEF n
<1> HIDE DEF z, m
<1>8. z % n = m % n /\ m % n = m
  <2>1. z % n = m % n
    BY <1>1, <1>6, CongMod
  <2>2. m % n = m
    BY <1>1, <1>7, ModSmall
  <2> QED
    BY <2>1, <2>2
<1> QED
  BY <1>8 DEF z, m, n

\* Nobody is beyond the last round, and the SP has its preprocessing as soon as it started one.
LEMMA GhostRounds ==
    ASSUME Places, NEW p \in Party
    PROVE  /\ Ghost(p).round <= Repeat
           /\ p = 0 => Ghost(p).round = 0 \/ Ghost(p).pre = 1
<1> DEFINE f == Trace(p)
           b == Body(p)
           n == Len(b)
           k == pc[p] - 1
           r == [i \in 0 .. n |-> f[i].round]
<1>1. /\ f \in [0 .. n -> Has] /\ f[0] = Nothing /\ Run(p, Id, f, b) /\ f[n].round = Repeat
  BY TraceOf DEF IsTrace
<1>2. n \in Nat /\ b \in Seq(AnyStep) /\ k \in 0 .. n
  <2>1. b \in Seq(AnyStep)
    BY BodyType
  <2>2. pc[p] \in 1 .. n + 1 /\ n \in Nat
    BY AtFacts
  <2> QED
    BY <2>1, <2>2
<1> HIDE DEF f, b, n
<1>3. ASSUME NEW i \in 1 .. n
      PROVE  /\ i - 1 \in 0 .. n /\ r[i - 1] <= r[i]
             /\ p = 0 /\ (f[i - 1].round = 0 \/ f[i - 1].pre = 1) => f[i].round = 0 \/ f[i].pre = 1
  <2> DEFINE x == b[i]
             g == f[i - 1]
  <2>1. i - 1 \in 0 .. n /\ i \in 0 .. n
    BY <1>2
  <2>2. x \in AnyStep /\ Id[x] = x
    <3>1. x \in AnyStep
      BY <1>2 DEF n
    <3> HIDE DEF x
    <3> QED
      BY <3>1 DEF Id
  <2>3. Allowed(p, g, x) /\ f[i] = After(p, g, x)
    BY <1>1, <2>2 DEF Run, OneRun, n
  <2>4. g \in Has /\ f[i] \in Has
    BY <1>1, <2>1
  <2> DEFINE h == f[i]
  <2>5. r[i - 1] = g.round /\ r[i] = h.round
    BY <2>1
  <2>6. h = After(p, g, x)
    BY <2>3
  <2> HIDE DEF x, g, h
  <2>7. CASE x.what = "start"
    <3>1. h.round = x.round /\ x.round = g.round + 1
      BY <2>3, <2>6, <2>7 DEF After, Allowed, RoundAllowed
    <3>2. p = 0 => h.pre = 1
      <4>1. h.pre = IF p \in Net!Driver THEN 0 ELSE 1
        BY <2>6, <2>7 DEF After
      <4> QED
        BY <4>1, Roles
    <3>3. g.round \in Nat
      BY <2>4 DEF Has
    <3>4. g.round <= h.round
      <4> DEFINE y == g.round
                 z == h.round
      <4>1. y \in Nat /\ z = y + 1
        BY <3>1, <3>3
      <4> HIDE DEF y, z
      <4>2. y <= z
        BY <4>1
      <4> QED
        BY <4>2 DEF y, z
    <3> QED
      BY <2>1, <2>5, <3>2, <3>4 DEF h
  <2>8. CASE x.what # "start"
    <3>1. h.round = g.round /\ h.pre = IF Wait(x, "preproc") THEN 1 ELSE g.pre
      BY <2>6, <2>8 DEF After
    <3>2. g.round \in Nat
      BY <2>4 DEF Has
    <3>3. g.round <= h.round
      <4> DEFINE y == g.round
      <4>1. y \in Nat /\ h.round = y
        BY <3>1, <3>2
      <4> HIDE DEF y
      <4>2. y <= y
        BY <4>1
      <4> QED
        BY <4>1, <4>2 DEF y
    <3> QED
      BY <2>1, <2>5, <3>1, <3>3 DEF g, h
  <2> QED
    BY <2>7, <2>8
<1>4. \A i \in 0 .. n : r[i] = f[i].round /\ r[i] \in Nat
  BY <1>1 DEF Has
<1> HIDE DEF r
<1> DEFINE T == {m \in Nat : \A i \in 0 .. n : i + m <= n => r[i] <= r[i + m]}
           U == {m \in Nat : m <= n /\ p = 0 => f[m].round = 0 \/ f[m].pre = 1}
<1>5. Nat \subseteq T
  <2>1. 0 \in T
    <3>1. \A i \in 0 .. n : i + 0 = i /\ r[i] <= r[i]
      BY <1>2, <1>4
    <3> QED
      BY <3>1
  <2>2. ASSUME NEW m \in Nat, m \in T PROVE m + 1 \in T
    <3>1. ASSUME NEW i \in 0 .. n, i + (m + 1) <= n PROVE r[i] <= r[i + (m + 1)]
      <4> DEFINE j == i + m
                 l == i + (m + 1)
      <4>1. i + m <= n /\ j \in 0 .. n /\ l \in 1 .. n /\ l - 1 = j /\ l \in 0 .. n
        BY <1>2, <3>1
      <4>2. r[i] <= r[j]
        BY <2>2, <4>1
      <4>3. r[l - 1] <= r[l]
        BY <1>3, <4>1
      <4> HIDE DEF j, l, T
      <4>4. r[j] <= r[l]
        BY <4>1, <4>3
      <4>5. r[i] \in Nat /\ r[j] \in Nat /\ r[l] \in Nat
        BY <1>4, <4>1
      <4>6. r[i] <= r[l]
        BY <4>2, <4>4, <4>5
      <4> QED
        BY <4>6 DEF l
    <3> QED
      BY <3>1
  <2> HIDE DEF T
  <2> QED
    BY <2>1, <2>2, SetInduction
<1>6. r[k] <= r[n]
  <2> DEFINE m == n - k
  <2>1. m \in Nat /\ k + m = n /\ k + m <= n
    BY <1>2
  <2> HIDE DEF m
  <2>2. m \in T
    BY <1>5, <2>1
  <2>3. r[k] <= r[k + m]
    BY <1>2, <2>1, <2>2
  <2> QED
    BY <2>1, <2>3
<1>7. Nat \subseteq U
  <2>1. 0 \in U
    BY <1>1 DEF Nothing
  <2>2. ASSUME NEW m \in Nat, m \in U PROVE m + 1 \in U
    <3>1. ASSUME m + 1 <= n, p = 0 PROVE f[m + 1].round = 0 \/ f[m + 1].pre = 1
      <4> DEFINE l == m + 1
      <4>1. l \in 1 .. n /\ l - 1 = m /\ m <= n
        BY <1>2, <3>1
      <4>2. f[m].round = 0 \/ f[m].pre = 1
        BY <2>2, <3>1, <4>1
      <4> HIDE DEF l, U
      <4>3. f[l].round = 0 \/ f[l].pre = 1
        BY <1>3, <3>1, <4>1, <4>2
      <4> QED
        BY <4>3 DEF l
    <3> QED
      BY <3>1
  <2> HIDE DEF U
  <2> QED
    BY <2>1, <2>2, SetInduction
<1>8. p = 0 => f[k].round = 0 \/ f[k].pre = 1
  <2>1. k \in U /\ k <= n
    BY <1>2, <1>7
  <2> QED
    BY <2>1
<1>9. f[k] = Ghost(p)
  BY DEF f, Ghost
<1>10. n \in 0 .. n /\ k \in 0 .. n
  BY <1>2
<1> HIDE DEF k
<1>11. r[k] = Ghost(p).round /\ r[n] = Repeat
  BY <1>1, <1>4, <1>9, <1>10
<1> QED
  BY <1>6, <1>8, <1>9, <1>11

\* Which outputs pair k stands for.
LEMMA PairOfOutputs ==
    ASSUME NEW k \in 1 .. Len(circ.outputs) \div 2
    PROVE  /\ 2 * k - 1 \in 1 .. Len(circ.outputs) /\ 2 * k \in 1 .. Len(circ.outputs)
           /\ circ.outputs[2 * k - 1] \in Wires /\ circ.outputs[2 * k] \in Wires
<1> DEFINE m == Len(circ.outputs)
           h == m \div 2
<1>1. m \in Nat
  BY CircuitAssumption, LenProperties
<1>2. h \in Int /\ 2 * h <= m
  <2> HIDE DEF m
  <2> QED
    BY <1>1
<1>3. k \in 1 .. h
  OBVIOUS
<1> HIDE DEF m, h
<1>4. 2 * k - 1 \in 1 .. m /\ 2 * k \in 1 .. m
  BY <1>1, <1>2, <1>3
<1>5. circ.outputs \in Seq(Wires)
  BY CircuitAssumption
<1> QED
  BY <1>4, <1>5, ElementOfSeq DEF m

\* The answer, from the sums of the two results for both outputs of the pair.
LEMMA AnswerRight ==
    ASSUME IInv, ValuesRight, Ghost(0).pre = 1, NEW k \in 1 .. Len(circ.outputs) \div 2,
           Comparable(circ.outputs[2 * k - 1]), Comparable(circ.outputs[2 * k])
    PROVE  (Both(Context, circ.outputs[2 * k - 1]) * Both(Context, circ.outputs[2 * k])) % Modulus
              = IsMatch(k)
<1> DEFINE v == circ.outputs[2 * k - 1]
           w == circ.outputs[2 * k]
           c == Context
<1>1. v \in Wires /\ w \in Wires
  BY PairOfOutputs
<1>2. /\ PreRight(c, 0, Ghost(0), pre[0]) /\ c.tape = tape /\ c.inputs = inputs
      /\ tape \in Tapes /\ inputs \in Inputs /\ c.rho = pre[0].rho
  BY PartyFacts, Roles
<1>3. c.rho \in Rho
  BY <1>2 DEF PreRight
<1> HIDE DEF c
<1> DEFINE x == Both(c, v)
           y == Both(c, w)
           a == Below(v)
           b == Below(w)
<1>4. x \in Int /\ a \in 0 .. 1 /\ Cong(Modulus, x, a) /\ (a = 1 => Modulus > 1)
  BY <1>1, <1>2, <1>3, BothBelow
<1>5. y \in Int /\ b \in 0 .. 1 /\ Cong(Modulus, y, b)
  BY <1>1, <1>2, <1>3, BothBelow
<1>6. IsMatch(k) = IF a = 1 /\ b = 1 THEN 1 ELSE 0
  BY DEF IsMatch, Below
<1> HIDE DEF x, y, a, b
<1>7. (x * y) % Modulus = IF a = 1 /\ b = 1 THEN 1 ELSE 0
  BY <1>4, <1>5, BothMatch
<1> QED
  BY <1>6, <1>7 DEF x, y, c

\* The results a pair holds in the only round are those of the SP's keys.
LEMMA PairResults ==
    ASSUME IInv, ValuesRight, Mode = "Pair", Repeat = 1, NEW p \in Peers,
           NEW j \in 1 .. Len(circ.outputs), NEW i, i \in DOMAIN outvals[p]
    PROVE  Ghost(0).pre = 1 /\ outvals[p][j] = ShareOf(Context, p, circ.outputs[j])
<1> DEFINE c == Context
           o == outvals[p]
           g == Ghost(p)
<1>0. p \in Party /\ 0 \in Party
  BY Roles
<1>1. /\ ResultsRight(c, p, g, o) /\ c.round = Ghost(0).round /\ c.round \in Nat /\ g \in Has
  BY <1>0, PartyFacts
<1>2. o # <<>>
  <2>1. DOMAIN <<>> = {}
    OBVIOUS
  <2> QED
    BY <2>1
<1>3. g.round >= 1 /\ Fits(c, p, "share", circ.outputs[j], g.round, o[j])
  BY <1>1, <1>2 DEF ResultsRight
<1>4. g.round <= c.round
  BY <1>3 DEF Fits, WithKeys
<1>5. c.round <= 1 /\ (c.round = 0 \/ Ghost(0).pre = 1)
  BY <1>0, <1>1, GhostRounds DEF IInv
<1>6. g.round = c.round /\ c.round # 0
  <2> DEFINE x == g.round
             y == c.round
  <2>1. x \in Nat /\ y \in Nat /\ x >= 1 /\ x <= y /\ y <= 1
    BY <1>1, <1>3, <1>4, <1>5 DEF Has
  <2> HIDE DEF x, y
  <2>2. x = y /\ y # 0
    BY <2>1
  <2> QED
    BY <2>2 DEF x, y
<1>7. o[j] = Expected(c, p, "share", circ.outputs[j])
  BY <1>3, <1>6 DEF Fits
<1> QED
  BY <1>5, <1>6, <1>7 DEF Expected

\* What the SP, or the pair in its only round, learns is whether both distances are below the
\* threshold, wherever the masked comparisons are decided by the distances.  (With several
\* rounds, rider and driver of a pair may be in different ones.)
THEOREM MatchesCorrectHolds ==
    ASSUME Mode = "Pair" => Repeat = 1
    PROVE  Spec => []MatchesCorrect
<1>1. IInv /\ ValuesRight => MatchesCorrect
  <2> SUFFICES ASSUME IInv, ValuesRight, NEW k \in 1 .. Len(circ.outputs) \div 2, Answered(k),
                      Comparable(circ.outputs[2 * k - 1]), Comparable(circ.outputs[2 * k])
               PROVE  Answer(k) = IsMatch(k)
    BY DEF MatchesCorrect
  <2> DEFINE v == circ.outputs[2 * k - 1]
             w == circ.outputs[2 * k]
             c == Context
  <2>1. /\ 2 * k - 1 \in 1 .. Len(circ.outputs) /\ 2 * k \in 1 .. Len(circ.outputs)
        /\ v \in Wires /\ w \in Wires
    BY PairOfOutputs
  <2>2. CASE Mode = "Matching"
    <3>1. ResultsRight(c, 0, Ghost(0), outvals[0])
      BY PartyFacts, Roles
    <3>2. k \in DOMAIN outvals[0]
      BY <2>2 DEF Answered
    <3>3. outvals[0] # <<>>
      <4>1. DOMAIN <<>> = {}
        OBVIOUS
      <4> QED
        BY <3>2, <4>1
    <3>4. Ghost(0).pre = 1 /\ outvals[0] = Answers(c)
      BY <2>2, <3>1, <3>3 DEF ResultsRight
    <3>5. Answers(c)[k] = (Both(c, v) * Both(c, w)) % Modulus
      BY DEF Answers
    <3> QED
      BY <2>2, <3>4, <3>5, AnswerRight DEF Answer
  <2>3. CASE Mode # "Matching"
    <3>1. Mode = "Pair" /\ Repeat = 1 /\ 2 * k \in DOMAIN outvals[1] /\ 2 * k \in DOMAIN outvals[2]
      BY <2>3 DEF Answered
    <3>2. 1 \in Peers /\ 2 \in Peers /\ Gate(v).rider_id = 1 /\ Gate(v).driver_id = 2
          /\ Gate(w).rider_id = 1 /\ Gate(w).driver_id = 2
      BY <2>1, <3>1, PairOutputs
    <3>3. /\ outvals[1][2 * k - 1] = ShareOf(c, 1, v) /\ outvals[1][2 * k] = ShareOf(c, 1, w)
          /\ outvals[2][2 * k - 1] = ShareOf(c, 2, v) /\ outvals[2][2 * k] = ShareOf(c, 2, w)
          /\ Ghost(0).pre = 1
      BY <2>1, <3>1, <3>2, PairResults
    <3>4. /\ outvals[1][2 * k - 1] + outvals[2][2 * k - 1] = Both(c, v)
          /\ outvals[1][2 * k] + outvals[2][2 * k] = Both(c, w)
      BY <3>2, <3>3 DEF Both
    <3>5. Answer(k) = (Both(c, v) * Both(c, w)) % Modulus
      BY <2>3, <3>4 DEF Answer
    <3> QED
      BY <3>3, <3>5, AnswerRight
  <2> QED
    BY <2>2, <2>3
<1> QED
  BY <1>1, Invariant, ValuesInvariant, PTL
=============================================================================
