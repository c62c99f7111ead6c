------------------------------ MODULE Circuit ------------------------------
(***************************************************************************)
(* Arithmetic circuits (src/src/utils/circuit.h): the gates, their         *)
(* multiplicative levels, the plaintext evaluation and the Euclidean-      *)
(* distance circuit.  A circuit's gates are kept in the order they were    *)
(* added; a gate's output wire is its position, counted from 1 here and    *)
(* from 0 in the code.  Operand lists are sequences of wires for every     *)
(* gate type: one wire each for a fan-in-2 gate, in1 alone for a constant  *)
(* operation, none for an input.                                           *)
(***************************************************************************)
EXTENDS Integers, SequencesExt

CONSTANT Modulus  \* 2^width of the ring the wires range over
ASSUME ModulusAssumption == Modulus \in Nat \ {0}

FIn2Types == {"kAdd", "kSub", "kMul"}
ConstOpTypes == {"kConstAdd", "kConstMul"}
GateTypes == FIn2Types \cup ConstOpTypes \cup {"kInp", "kDotprod"}
Communicating == {"kMul", "kDotprod"}  \* the gates the parties talk for

NewGate(type, in1, in2, cval, rider, driver) ==
    [type |-> type, in1 |-> in1, in2 |-> in2, cval |-> cval,
     rider_id |-> rider, driver_id |-> driver]
Reads(g) == Range(g.in1) \cup Range(g.in2)

\* Gate g has the operands its type takes.
HasOperands(g) ==
    /\ g.type \in GateTypes /\ g.in1 \in Seq(Nat) /\ g.in2 \in Seq(Nat)
    /\ g.type \in FIn2Types => Len(g.in1) = 1
    /\ g.type \in FIn2Types \cup {"kDotprod"} => Len(g.in2) = Len(g.in1)
    /\ g.type \in ConstOpTypes => Len(g.in1) = 1

\* The partial sums of the products a[i] * b[j] over the operand pairs i, j of gate g.
DotSums(g, a, b) ==
    LET sum[i \in 0 .. Len(g.in1)] ==
            IF i = 0 THEN 0 ELSE sum[i - 1] + a[g.in1[i]] * b[g.in2[i]]
    IN  sum
Dot(g, a, b) == DotSums(g, a, b)[Len(g.in1)]
-----------------------------------------------------------------------------
\* Mutated form of LevelOf: multiplication does not open a new level.
LevelOfFlat(g, level) == Max({0} \cup {level[r] : r \in Reads(g)})

\* The level of gate g, given those of the gates before it.
LevelOf(g, level) ==
    Max({0} \cup {level[r] : r \in Reads(g)})
        + (IF g.type \in Communicating THEN 1 ELSE 0)

GateLevel(gates) ==
    LET level[w \in DOMAIN gates] == LevelOf(gates[w], level)
    IN  level

\* The elements of s that are in S, in their order.  (SelectSeq, in a form that can be
\* reasoned about.)
Pick(s, S) ==
    LET picked[n \in 0 .. Len(s)] ==
            IF n = 0 THEN <<>>
            ELSE IF s[n] \in S THEN Append(picked[n - 1], s[n]) ELSE picked[n - 1]
    IN  picked[Len(s)]

\* Mutated form of ByLevel: a level's gates come out last gate first.
ByLevelReversed(gates) ==
    LET level == GateLevel(gates)
        depth == Max({0} \cup Range(level))
        all == [w \in DOMAIN gates |-> Len(gates) + 1 - w]
    IN  [l \in 1 .. depth + 1 |-> Pick(all, {w \in DOMAIN gates : level[w] = l - 1})]

\* orderGatesByLevel: per level (level l at index l+1) its gates, oldest first.
ByLevel(gates) ==
    LET level == GateLevel(gates)
        depth == Max({0} \cup Range(level))
        all == [w \in DOMAIN gates |-> w]
    IN  [l \in 1 .. depth + 1 |-> Pick(all, {w \in DOMAIN gates : level[w] = l - 1})]

\* What gate g with output wire w computes.
GateValue(g, w, vals, inp) ==
    (CASE g.type = "kInp"         -> inp[w]
       [] g.type = "kAdd"         -> vals[g.in1[1]] + vals[g.in2[1]]
       [] g.type = "kSub"         -> vals[g.in1[1]] - vals[g.in2[1]]
       [] g.type = "kConstAdd"    -> vals[g.in1[1]] + g.cval
       [] g.type = "kConstMul"    -> vals[g.in1[1]] * g.cval
       [] g.type \in Communicating -> Dot(g, vals, vals)) % Modulus

\* The wires after the gates of the sequence order have been evaluated in turn.
EvaluateInOrder(gates, inp, order) ==
    LET vals[n \in 0 .. Len(order)] ==
            IF n = 0 THEN [w \in DOMAIN gates |-> 0]
            ELSE [vals[n - 1] EXCEPT ![order[n]] =
                     GateValue(gates[order[n]], order[n], vals[n - 1], inp)]
    IN  vals[Len(order)]

\* Circuit::evaluate, before it picks the outputs from the wires.
Evaluate(gates, inp) ==
    EvaluateInOrder(gates, inp, FlattenSeq(ByLevel(gates)))
-----------------------------------------------------------------------------
(***************************************************************************)
(* generateEDSCircuit: for every rider and driver the squared distance of  *)
(* their start points and of their end points.  The 14 gates of a pair     *)
(* start after wire b: per coordinate i the four inputs (rider start,      *)
(* rider end, driver start, driver end), four differences, two dot         *)
(* products.                                                               *)
(***************************************************************************)
PairGates(b, r, d) ==
    LET Inp == NewGate("kInp", <<>>, <<>>, 0, r, d)
        Sub(x, y) == NewGate("kSub", <<b + x>>, <<b + y>>, 0, r, d)
        Square(x, y) == NewGate("kDotprod", <<b + x, b + y>>, <<b + x, b + y>>, 0, r, d)
    IN  [i \in 1 .. 8 |-> Inp]
        \o <<Sub(1, 3), Sub(2, 4), Sub(5, 7), Sub(6, 8)>>
        \o <<Square(9, 11), Square(10, 12)>>

\* The pairs, riders in the outer loop.
Pairs(riders, drivers) ==
    [k \in 1 .. riders * drivers |->
        <<1 + (k - 1) \div drivers, 1 + riders + ((k - 1) % drivers)>>]

EDSCircuit(riders, drivers) ==
    LET pairs == Pairs(riders, drivers)
    IN  [gates |-> FlattenSeq([k \in DOMAIN pairs |->
                       PairGates(14 * (k - 1), pairs[k][1], pairs[k][2])]),
         outputs |-> FlattenSeq([k \in DOMAIN pairs |->
                       <<14 * (k - 1) + 13, 14 * (k - 1) + 14>>])]
=============================================================================
