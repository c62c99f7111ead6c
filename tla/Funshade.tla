------------------------------ MODULE Funshade ------------------------------
(***************************************************************************)
(* The interval and sign gates and the two-party comparison of a scalar    *)
(* product with a threshold (src/src/funshade/fss.cpp), on top of the      *)
(* comparison function DCF.  A dealer draws the masks and makes the keys   *)
(* (funshade_setup, or IC_gen alone), each party computes its share of the *)
(* masked product (funshade_eval_dist), the shares are exchanged, and each *)
(* party evaluates the gate (IC_eval, of which SIGN_eval is a case), which *)
(* walks its key twice, at two different inputs.                           *)
(*                                                                         *)
(* Values of R_t are the numbers of Ring: US(x) is x itself.  The loops    *)
(* keep their partial sums, of which the code keeps the last.              *)
(***************************************************************************)
EXTENDS DCF

CONSTANT Setups  \* inputs and random draws: records of the interval p .. q, the output
                 \* mask r_out, the shares r_in[j] of the input mask, the threshold
                 \* theta, the length l and the vectors x and y, the shares d_x[j] and
                 \* d_y[j] of their masks, and party 0's d_xy0 and z0

VARIABLES in,     \* the inputs and what the dealer drew
          plain,  \* the partial sums of x times y, as the caller adds them up
          z,      \* z[b]: the value at Z_PTR of party b's key, or NotYet
          z_hat,  \* z_hat[j]: the partial sums of funshade_eval_dist at party j
          o       \* o[b]: what IC_eval returned at party b, or NotYet
gateVars == <<in, plain, z, z_hat, o>>

Vectors(l) == [1 .. l -> Int]

\* bit_decomposition
BitsOf(n) == [i \in 1 .. N_BITS |-> (n \div 2 ^ (N_BITS - i)) % 2]

ASSUME BetaAssumption == BETA = 1

\* Bits compare as the numbers they stand for, which is so because R = 2^N_BITS.
ASSUME BitsAssumption ==
    \A a, b \in Ring : BitsOf(a) \in Bits /\ (Less(BitsOf(a), BitsOf(b)) <=> a < b)

ASSUME SetupsAssumption ==
    \A s \in Setups : /\ s.p \in Ring /\ s.q \in Ring /\ s.r_out \in Int /\ s.z0 \in Ring
                      /\ s.r_in \in [{0, 1} -> Int] /\ s.theta \in Int /\ s.l \in Nat
                      /\ s.x \in Vectors(s.l) /\ s.y \in Vectors(s.l)
                      /\ s.d_x \in [{0, 1} -> Vectors(s.l)]
                      /\ s.d_y \in [{0, 1} -> Vectors(s.l)] /\ s.d_xy0 \in Vectors(s.l)

Greater(a, b) == If(a % R > b % R, 1)  \* US(a) > US(b)
r_in == in.r_in[0] + in.r_in[1]        \* the gate's input mask
-----------------------------------------------------------------------------
\* An iteration of the caller's own sum of products.
Plain == /\ Len(plain) <= in.l
         /\ LET i == Len(plain)
            IN  plain' = Append(plain, (plain[i] + in.x[i] * in.y[i]) % R)
         /\ UNCHANGED <<vars, in, z, z_hat, o>>

\* Mutated form of IC_gen: no term for q + r_in + 1 = 0.
IC_genNoWrap(b) ==
    IF b = 0 THEN in.z0
    ELSE (-in.z0 + in.r_out + Greater(in.p + r_in, in.q + r_in)
          - Greater(in.p + r_in, in.p) + Greater(in.q + r_in + 1, in.q + 1)) % R

\* What IC_gen puts at Z_PTR of party b's key.
IC_gen(b) ==
    IF b = 0 THEN in.z0
    ELSE (-in.z0 + in.r_out + Greater(in.p + r_in, in.q + r_in)
          - Greater(in.p + r_in, in.p) + Greater(in.q + r_in + 1, in.q + 1)
          + If((in.q + r_in + 1) % R = 0, 1)) % R

\* Mutated form of SIGN: the interval goes one number too far.
SIGNOneMore == [p |-> 0, q |-> R \div 2]

\* SIGN_gen's interval: the numbers that are not negative.
SIGN == [p |-> 0, q |-> (R \div 2) - 1]

\* An iteration of DCF_gen_seeded, inside IC_gen.
Generate == /\ Len(plain) = in.l + 1
            /\ GenBit
            /\ UNCHANGED gateVars

\* The end of DCF_gen_seeded and the rest of IC_gen.
FinishKeys == /\ Len(plain) = in.l + 1
              /\ GenLast
              /\ z' = [b \in {0, 1} |-> IC_gen(b)]
              /\ UNCHANGED <<in, plain, z_hat, o>>
-----------------------------------------------------------------------------
\* funshade_share of element i of vector v, masked by the two shares of d.
funshade_share(v, d, i) == (d[0][i] + d[1][i] + v[i]) % R

\* Party j's share of the product of the masks: funshade_setup draws that of party 0
\* and makes that of party 1 fit.
d_xy(j, i) == IF j = 0 THEN in.d_xy0[i]
              ELSE ((in.d_x[0][i] + in.d_x[1][i]) * (in.d_y[0][i] + in.d_y[1][i])
                    - in.d_xy0[i]) % R

\* Mutated form of Summand: both parties add the product of the shared inputs.
SummandBoth(j, i) ==
    LET D_x == funshade_share(in.x, in.d_x, i)
        D_y == funshade_share(in.y, in.d_y, i)
    IN  D_x * D_y - D_x * in.d_y[j][i] - D_y * in.d_x[j][i] + d_xy(j, i)

\* What iteration i of funshade_eval_dist adds at party j.
Summand(j, i) ==
    LET D_x == funshade_share(in.x, in.d_x, i)
        D_y == funshade_share(in.y, in.d_y, i)
    IN  If(j = 1, D_x * D_y) - D_x * in.d_y[j][i] - D_y * in.d_x[j][i] + d_xy(j, i)

\* An iteration of funshade_eval_dist at party j.
EvalDist(j) == /\ KeysReady /\ Len(z_hat[j]) <= in.l
               /\ LET i == Len(z_hat[j])
                  IN  z_hat' = [z_hat EXCEPT ![j] = Append(@, (@[i] + Summand(j, i)) % R)]
               /\ UNCHANGED <<vars, in, plain, z, o>>

Exchanged == Len(z_hat[0]) = in.l + 1 /\ Len(z_hat[1]) = in.l + 1
x_hat == (z_hat[0][in.l + 1] + z_hat[1][in.l + 1]) % R
-----------------------------------------------------------------------------
\* IC_eval at party b: the first evaluation of the key ...
CallP(b) == /\ KeysReady /\ Exchanged /\ Len(out[b]) = 0
            /\ Call(b, BitsOf((x_hat - in.p - 1) % R))
            /\ UNCHANGED gateVars

\* ... the second ...
CallQ(b) == /\ Len(out[b]) = 1
            /\ Call(b, BitsOf((x_hat - in.q - 2) % R))
            /\ UNCHANGED gateVars

\* ... the steps of both ...
Walk(b) == (EvalBit(b) \/ Return(b)) /\ UNCHANGED gateVars

\* ... and what it returns.
IC_eval(b) == (If(b = 1, Greater(x_hat, in.p) - Greater(x_hat, in.q + 1))
               - out[b][1] + out[b][2] + z[b]) % R

Combine(b) == /\ Len(out[b]) = 2 /\ o[b] = NotYet
              /\ o' = [o EXCEPT ![b] = IC_eval(b)]
              /\ UNCHANGED <<vars, in, plain, z, z_hat>>

\* funshade_setup has taken the threshold off party 1's share of the mask.
GateInit == /\ Init
            /\ in \in Setups
            /\ alpha = BitsOf((r_in - 1) % R)
            /\ plain = <<0>>
            /\ z = [b \in {0, 1} |-> NotYet]
            /\ z_hat = [j \in {0, 1} |-> <<(in.r_in[j] - If(j = 1, in.theta)) % R>>]
            /\ o = [b \in {0, 1} |-> NotYet]

GateNext == \/ Plain \/ Generate \/ FinishKeys
            \/ \E b \in {0, 1} : EvalDist(b) \/ CallP(b) \/ CallQ(b) \/ Walk(b) \/ Combine(b)

GateSpec == GateInit /\ [][GateNext]_<<vars, gateVars>>
-----------------------------------------------------------------------------
\* As far as both parties have come in funshade_eval_dist, the masks cancel but for
\* the gate's input mask and the threshold: what the correlated draws are for.
DistanceMasked ==
    \A i \in DOMAIN z_hat[0] \cap DOMAIN z_hat[1] :
        i \in DOMAIN plain =>
            (z_hat[0][i] + z_hat[1][i]) % R = (r_in - in.theta + plain[i]) % R

Ended == o[0] # NotYet /\ o[1] # NotYet
Output == (o[0] + o[1]) % R

\* The shares returned by the interval gate add up to the output mask, plus 1 if the
\* unmasked input lies in the interval: for every interval, up to both ends of R_t,
\* where q + 1, p + r_in and q + r_in + 1 wrap (fss.h:138; the bounds are unsigned).
GateCorrect ==
    Ended /\ in.p <= in.q =>
        Output = (in.r_out + If((x_hat - r_in) % R \in in.p .. in.q, 1)) % R

SignedValue(n) == IF n % R < R \div 2 THEN n % R ELSE (n % R) - R

\* The two parties learn whether the scalar product of x and y reaches the threshold,
\* provided the difference of the two is a value of R_t (test_fss.cpp:220).
FunshadeCorrect ==
    LET product == SignedValue(plain[in.l + 1])
        theta == SignedValue(in.theta)
    IN  Ended /\ in.p = SIGN.p /\ in.q = SIGN.q /\ in.r_out = 0
        /\ product - theta \in -(R \div 2) .. (R \div 2) - 1
            => Output = If(product >= theta, 1)
=============================================================================
