---------------------------- MODULE MC_Funshade ----------------------------
(***************************************************************************)
(* A ring of three bits.                                                   *)
(*                                                                         *)
(* Comparison: all masks, inputs and seed pairs, for three PRGs: one that  *)
(* mixes its seed, one that repeats it, and a constant one, for which the  *)
(* seeds of the two parties collide.                                       *)
(* Intervals: all intervals p .. q, masks and inputs.                      *)
(* Scalar products: vectors of two elements, of both signs, with masks     *)
(* that wrap and thresholds on both sides of the product.                  *)
(***************************************************************************)
EXTENDS Funshade, FiniteSetsExt

MCSeed == SUBSET {1, 2}
Code(s) == SumSet(s)  \* a number for a seed
MCTO_R_t == [s \in MCSeed |-> (3 * Code(s) + 1) % R]

Mixing == [s \in MCSeed |->
    [s |-> [c \in {0, 1} |-> {k \in {1, 2} : (Code(s) + k + c) % 3 # 0}],
     v |-> [c \in {0, 1} |-> (5 * Code(s) + 3 * c + 2) % R],
     t |-> [c \in {0, 1} |-> (Code(s) + c) % 2 = 0]]]
Repeating == [s \in MCSeed |->
    [s |-> [c \in {0, 1} |-> s], v |-> [c \in {0, 1} |-> Code(s) % R],
     t |-> [c \in {0, 1} |-> 1 \in s]]]
Constant == [s \in MCSeed |->
    [s |-> [c \in {0, 1} |-> {1}], v |-> [c \in {0, 1} |-> R - 1],
     t |-> [c \in {0, 1} |-> TRUE]]]
MCGs == {Mixing, Repeating, Constant}

\* The gate alone: no vectors; with theta = -x, the input is x.
IntervalSetup(p, q, x, r, r_out) ==
    [p |-> p, q |-> q, r_out |-> r_out, r_in |-> [j \in {0, 1} |-> If(j = 0, r)],
     theta |-> (-x) % R, l |-> 0, x |-> <<>>, y |-> <<>>, d_x |-> [j \in {0, 1} |-> <<>>],
     d_y |-> [j \in {0, 1} |-> <<>>], d_xy0 |-> <<>>, z0 |-> 5]

IntervalSetups ==
    {IntervalSetup(p, q, x, r, x) : p \in Ring, q \in Ring, x \in Ring, r \in Ring}
SignSetups == {IntervalSetup(SIGN.p, SIGN.q, x, r, 0) : x \in Ring, r \in Ring}

ProductSetups ==
    {[p |-> SIGN.p, q |-> SIGN.q, r_out |-> 0, r_in |-> [j \in {0, 1} |-> IF j = 0 THEN r ELSE 6],
      theta |-> theta, l |-> 2, x |-> <<x1, 7>>, y |-> <<y1, 1>>,
      d_x |-> [j \in {0, 1} |-> <<d, 3 + j>>], d_y |-> [j \in {0, 1} |-> <<3, d + j>>],
      d_xy0 |-> <<d, 4>>, z0 |-> 2] :
        r \in {1, 4}, theta \in Ring, x1 \in {0, 1, 2, 6}, y1 \in {1, 7}, d \in {0, 5}}

MCSetups == {s \in IntervalSetups : s.p <= s.q} \cup SignSetups \cup ProductSetups

\* All seeds and PRGs for the sign gate, one choice of them for the others.
MCInit == /\ GateInit
          /\ in \in SignSetups \/ (G = Mixing /\ gen[1].s = [b \in {0, 1} |-> {1 + b}])
MCSpec == MCInit /\ [][GateNext]_<<vars, gateVars>>
=============================================================================
