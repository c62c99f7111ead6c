-------------------------------- MODULE DCF --------------------------------
(***************************************************************************)
(* The distributed comparison function (src/src/funshade/fss.cpp): from a  *)
(* mask alpha a dealer makes two keys; each of two parties evaluates its   *)
(* key at public inputs x, without talking to the other, and the results   *)
(* of the two at the same x add up in R_t to BETA if x < alpha (unsigned)  *)
(* and to 0 otherwise.                                                     *)
(*                                                                         *)
(* A key is a seed and one correction word per bit.  Both key generation   *)
(* and evaluation walk down a binary tree, most significant bit first, in  *)
(* each node expanding a seed with the PRG G.  A seed is a set of bit      *)
(* positions, so that xor is symmetric difference; bit 0 stands for the    *)
(* left child, bit 1 for the right one.  The walks keep the nodes they     *)
(* have passed, of which the code keeps the last.                          *)
(***************************************************************************)
EXTENDS Integers, Sequences

CONSTANTS N_BITS,   \* width of R_t
          R,        \* number of values of R_t: 2^N_BITS
          BETA,     \* output of the comparison
          Seed,     \* the seeds: a set of sets closed under symmetric difference
          Gs,       \* the PRGs to try: G[s] = [s, v, t], each a function on {0, 1}
          TO_R_t,   \* TO_R_t[s]: the first bytes of seed s read as an R_t
          MaxCalls  \* how often a party evaluates a key (bound)

Ring == 0 .. R - 1
Bits == [1 .. N_BITS -> {0, 1}]  \* what bit_decomposition makes of an R_t
Xor(a, b) == (a \ b) \cup (b \ a)
Expansion == [s : [{0, 1} -> Seed], v : [{0, 1} -> Int], t : [{0, 1} -> BOOLEAN]]

ASSUME WidthAssumption == /\ N_BITS \in Nat /\ R \in Nat \ {0}
                          /\ BETA \in Int /\ MaxCalls \in Nat
ASSUME SeedAssumption == /\ \A a, b \in Seed : Xor(a, b) \in Seed
                         /\ TO_R_t \in [Seed -> Int]
ASSUME PRGAssumption == \A g \in Gs : g \in [Seed -> Expansion]

VARIABLES alpha,  \* the mask, as bits
          G,      \* the PRG
          gen,    \* the nodes DCF_gen_seeded has passed: s, t of both parties and V
          cw,     \* the correction words appended to both keys so far
          last,   \* the last correction word, or NotYet
          xs,     \* xs[b]: the inputs party b has called DCF_eval with, as bits
          ev,     \* ev[b][c]: the nodes call c of DCF_eval has passed: s, t and V
          out     \* out[b]: what the calls of DCF_eval that have ended returned
vars == <<alpha, G, gen, cw, last, xs, ev, out>>

XorCond(a, b, c) == IF c THEN Xor(a, b) ELSE a
Signed(t, v) == IF t THEN -v ELSE v  \* (t?-1:1) * v
If(t, v) == IF t THEN v ELSE 0       \* t * v
NotYet == -1
-----------------------------------------------------------------------------
\* Mutated form of Correction: the correction bits do not depend on alpha.
CorrectionSymmetric(g, a, e0, e1) ==
    [s |-> Xor(e0.s[1 - a], e1.s[1 - a]),
     v |-> Signed(g.t[1], e1.v[1 - a] - e0.v[1 - a] - g.V + If(a = 1, BETA)) % R,
     t |-> [c \in {0, 1} |-> e0.t[c] # e1.t[c]]]

\* Mutated form of Correction: the value is not reduced to R_t.
CorrectionUnreduced(g, a, e0, e1) ==
    [s |-> Xor(e0.s[1 - a], e1.s[1 - a]),
     v |-> Signed(g.t[1], e1.v[1 - a] - e0.v[1 - a] - g.V + If(a = 1, BETA)),
     t |-> [c \in {0, 1} |-> (e0.t[c] # e1.t[c]) # (c = a)]]

\* What one iteration of DCF_gen_seeded appends to the keys at node g, for bit a of
\* alpha; e0 and e1 are the expansions of the two seeds, 1 - a is the side to lose.
Correction(g, a, e0, e1) ==
    [s |-> Xor(e0.s[1 - a], e1.s[1 - a]),
     v |-> Signed(g.t[1], e1.v[1 - a] - e0.v[1 - a] - g.V + If(a = 1, BETA)) % R,
     t |-> [c \in {0, 1} |-> (e0.t[c] # e1.t[c]) # (c = a)]]

\* The node of DCF_gen_seeded after g, the correction word being w.
GenNode(g, a, e0, e1, w) ==
    [s |-> [b \in {0, 1} |-> XorCond(IF b = 0 THEN e0.s[a] ELSE e1.s[a], w.s, g.t[b])],
     t |-> [b \in {0, 1} |-> (IF b = 0 THEN e0.t[a] ELSE e1.t[a]) # (g.t[b] /\ w.t[a])],
     V |-> (g.V + e0.v[a] - e1.v[a] + Signed(g.t[1], w.v)) % R]

\* One iteration of DCF_gen_seeded's loop.
GenBit ==
    /\ Len(cw) < N_BITS
    /\ LET i == Len(cw) + 1
           g == gen[i]
           e0 == G[g.s[0]]
           e1 == G[g.s[1]]
       IN  \E w \in {Correction(g, alpha[i], e0, e1)} :
              /\ cw' = Append(cw, w)
              /\ gen' = Append(gen, GenNode(g, alpha[i], e0, e1, w))
    /\ UNCHANGED <<alpha, G, last, xs, ev, out>>

\* The last correction word, from the last node.
LastWord(g) == Signed(g.t[1], TO_R_t[g.s[1]] - TO_R_t[g.s[0]] - g.V) % R

\* The end of DCF_gen_seeded: the keys are complete.
GenLast ==
    /\ Len(cw) = N_BITS /\ last = NotYet
    /\ last' = LastWord(gen[N_BITS + 1])
    /\ UNCHANGED <<alpha, G, gen, cw, xs, ev, out>>

KeysReady == last # NotYet
-----------------------------------------------------------------------------
InCall(b) == Len(out[b]) < Len(xs[b])

\* Where party b starts: with the seed in its key.
Root(b) == [s |-> gen[1].s[b], t |-> b = 1, V |-> 0]

\* Party b calls DCF_eval on input x.
Call(b, x) ==
    /\ KeysReady /\ ~InCall(b) /\ Len(xs[b]) < MaxCalls
    /\ xs' = [xs EXCEPT ![b] = Append(@, x)]
    /\ ev' = [ev EXCEPT ![b] = Append(@, <<Root(b)>>)]
    /\ UNCHANGED <<alpha, G, gen, cw, last, out>>

\* The node of DCF_eval after n on bit c of the input, e being n's expansion.
EvalNode(b, n, c, e, w) ==
    [s |-> XorCond(e.s[c], w.s, n.t),
     t |-> e.t[c] # (n.t /\ w.t[c]),
     V |-> (n.V + Signed(b = 1, e.v[c] + If(n.t, w.v))) % R]

\* One iteration of DCF_eval's loop at party b.
EvalBit(b) ==
    /\ InCall(b)
    /\ LET c == Len(xs[b])
           k == Len(ev[b][c])
           n == ev[b][c][k]
       IN  /\ k <= N_BITS
           /\ ev' = [ev EXCEPT ![b][c] = Append(@, EvalNode(b, n, xs[b][c][k], G[n.s], cw[k]))]
    /\ UNCHANGED <<alpha, G, gen, cw, last, xs, out>>

\* Mutated form of Result: the last correction word is added unconditionally.
ResultAlways(b, n, w) == (n.V + Signed(b = 1, TO_R_t[n.s] + w)) % R

\* What DCF_eval returns at party b from its last node n and the last word w.
Result(b, n, w) == (n.V + Signed(b = 1, TO_R_t[n.s] + If(n.t, w))) % R

\* The end of DCF_eval at party b.
Return(b) ==
    /\ InCall(b)
    /\ LET c == Len(xs[b])
       IN  /\ Len(ev[b][c]) = N_BITS + 1
           /\ out' = [out EXCEPT ![b] = Append(@, Result(b, ev[b][c][N_BITS + 1], last))]
    /\ UNCHANGED <<alpha, G, gen, cw, last, xs, ev>>

Init == /\ alpha \in Bits /\ G \in Gs
        /\ \E seed \in [{0, 1} -> Seed] :
              gen = <<[s |-> seed, t |-> [b \in {0, 1} |-> b = 1], V |-> 0]>>
        /\ cw = <<>> /\ last = NotYet
        /\ xs = [b \in {0, 1} |-> <<>>]
        /\ ev = [b \in {0, 1} |-> <<>>]
        /\ out = [b \in {0, 1} |-> <<>>]

Next == \/ GenBit \/ GenLast
        \/ \E b \in {0, 1} : (\E x \in Bits : Call(b, x)) \/ EvalBit(b) \/ Return(b)

Spec == Init /\ [][Next]_vars
-----------------------------------------------------------------------------
GenNodes == [s : [{0, 1} -> Seed], t : [{0, 1} -> BOOLEAN], V : Ring]
Words == [s : Seed, v : Ring, t : [{0, 1} -> BOOLEAN]]
EvalNodes == [s : Seed, t : BOOLEAN, V : Ring]

TypeOK == /\ alpha \in Bits /\ G \in Gs
          /\ gen \in Seq(GenNodes) /\ Len(gen) = Len(cw) + 1
          /\ cw \in Seq(Words) /\ Len(cw) <= N_BITS
          /\ last \in Ring \cup {NotYet}
          /\ xs \in [{0, 1} -> Seq(Bits)]
          /\ ev \in [{0, 1} -> Seq(Seq(EvalNodes))]
          /\ out \in [{0, 1} -> Seq(Ring)]

\* x and a have the same first k bits.
Agree(x, a, k) == \A i \in 1 .. k : x[i] = a[i]

\* The first k bits of x are, as an unsigned number, less than those of a.
LessBy(x, a, k) == \E i \in 1 .. k : Agree(x, a, i - 1) /\ x[i] = 0 /\ a[i] = 1
Less(x, a) == LessBy(x, a, N_BITS)

Comparison(x, a, k) == IF LessBy(x, a, k) THEN BETA ELSE 0

\* What correction words are for.  Two parties that evaluate their keys at the same
\* x, whenever and in whichever call: while x agrees with alpha they are at the
\* nodes DCF_gen_seeded passed, with different control bits; from the first
\* difference on they hold the same seed and control bit -- so that whatever they
\* add from there on cancels -- and their partial results already add up to the
\* outcome of the comparison.
Cancel(x, a, k, g, n0, n1) ==
    IF Agree(x, a, k)
    THEN /\ n0.s = g.s[0] /\ n1.s = g.s[1]
         /\ n0.t = g.t[0] /\ n1.t = g.t[1] /\ n0.t # n1.t
         /\ (n0.V + n1.V) % R = g.V
    ELSE /\ n0.s = n1.s /\ n0.t = n1.t
         /\ (n0.V + n1.V) % R = Comparison(x, a, k) % R

WalksCancel ==
    \A c0 \in DOMAIN ev[0], c1 \in DOMAIN ev[1] :
        xs[0][c0] = xs[1][c1] =>
            \A k \in DOMAIN ev[0][c0] \cap DOMAIN ev[1][c1] :
                Cancel(xs[0][c0], alpha, k - 1, gen[k], ev[0][c0][k], ev[1][c1][k])

\* Results of the two parties at the same x add up to the comparison x < alpha,
\* whatever the seeds and G are, and whatever else the keys were evaluated at.
\* (test_fss.cpp:115.  fss.h:102 and :117 describe it with > for <.)
DCFCorrect ==
    \A c0 \in DOMAIN out[0], c1 \in DOMAIN out[1] :
        xs[0][c0] = xs[1][c1] =>
            (out[0][c0] + out[1][c1]) % R = Comparison(xs[0][c0], alpha, N_BITS) % R
=============================================================================
