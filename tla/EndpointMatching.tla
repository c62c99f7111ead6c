-------------------------- MODULE EndpointMatching --------------------------
(***************************************************************************)
(* Endpoint-based matching (src/src/quickpool/ED_*.cpp): the SP (party 0), *)
(* the riders and the drivers evaluate a circuit on masked values and      *)
(* compare its outputs with a threshold, over the NetIOMP network.         *)
(*                                                                         *)
(* What a party does next never depends on data, only on the circuit: the  *)
(* control flow of each function is written as the steps it performs       *)
(* (Offline, Online, ...), a party's Script is these in order, and pc says *)
(* where in its script a party is.  A step is a network call or the local  *)
(* computation between two of them.  Mode selects the entry point:         *)
(*   "Distance"  pair_matching: the SP learns the circuit's outputs        *)
(*   "Matching"  pair_EDMatching(input_pid_map, inputs): the SP learns,    *)
(*               per pair, whether both distances are below the threshold  *)
(*   "Pair"      pair_EDMatching(..., rider_index, driver_index): rider    *)
(*               and driver end up with shares of that answer              *)
(* Field values are residues of Modulus (2^64 in the code), those of R_t   *)
(* residues of RtModulus (2^32).                                           *)
(***************************************************************************)
EXTENDS Circuit

CONSTANTS rider_count, driver_count, FlushOnSend, BufCap,  \* as in NetIOMP
          Mode,       \* the entry point, see above
          Repeat,     \* rounds run over one network (quickpool_ED --repeat)
          circ,       \* the circuit: its gates and its outputs
          input_pid,  \* input_pid[w]: the party that provides input wire w
          Inputs,     \* the input assignments to try
          Tapes,      \* the outputs of the common PRG to try: sequences
          RtModulus,  \* 2^width of R_t, the ring of the DCF
          Threshold,  \* START_MATCH_THRESHOLD^2 = END_MATCH_THRESHOLD^2
          Rho         \* the random DCF output shares to try, per output
ASSUME ModeAssumption == Mode \in {"Distance", "Matching", "Pair"}
ASSUME RepeatAssumption == Repeat \in Nat \ {0}
ASSUME NetAssumption ==
    /\ rider_count \in Nat /\ driver_count \in Nat /\ BufCap \in Nat /\ FlushOnSend \in BOOLEAN
    /\ Mode = "Pair" => rider_count = 1 /\ driver_count = 1
ASSUME RtAssumption == RtModulus \in Nat \ {0} /\ Modulus % RtModulus = 0

VARIABLES out, wire, sent, waiting, open,  \* the network, see NetIOMP
          inputs,   \* the riders' and drivers' inputs
          tape,     \* what every PRG yields: all are seeded alike
          pc,       \* pc[p]: p's position in Script[p]
          pre,      \* pre[p]: p's preprocessing of this round
          wires,    \* wires[p]: p's masked wires, those set so far
          buf,      \* buf[p][q]: the last array p read from q
          outvals   \* outvals[p]: what p's call returns
netVars == <<out, wire, sent, waiting, open>>
vars == <<out, wire, sent, waiting, open, inputs, tape, pc, pre, wires, buf, outvals>>

Net == INSTANCE NetIOMP WITH Bipartite <- TRUE, Item <- {}, Message <- {},
                             MaxRead <- 0, MaxInFlight <- 0

Party == Net!Party
Peers == 1 .. Net!nP - 1
Gate(w) == circ.gates[w]
Wires == DOMAIN circ.gates
Levels == ByLevel(circ.gates)
Order == FlattenSeq(Levels)

\* A circuit as the Circuit class builds it, with a rider and a driver for owners of
\* every wire, one of whom provides it if it is an input.
ASSUME CircuitAssumption ==
    /\ Len(circ.gates) \in Nat /\ DOMAIN circ.gates = 1 .. Len(circ.gates)
    /\ \A w \in Wires : /\ HasOperands(Gate(w)) /\ Reads(Gate(w)) \subseteq 1 .. w - 1
                        /\ Gate(w).rider_id \in Net!Rider /\ Gate(w).driver_id \in Net!Driver
    /\ circ.outputs \in Seq(Wires)
\* The values on the wires are Field elements.  A gate's owners own its operands, whose
\* masked values only they have (evaluateGatesAtDepthPartySend).
ASSUME OperandAssumption ==
    \A w \in Wires : /\ Gate(w).cval \in Int
                     /\ Gate(w).type = "kInp" => Reads(Gate(w)) = {}
                     /\ \A v \in Reads(Gate(w)) : /\ Gate(v).rider_id = Gate(w).rider_id
                                                 /\ Gate(v).driver_id = Gate(w).driver_id
ASSUME InputAssumption ==
    \A w \in Wires : Gate(w).type = "kInp" => /\ w \in DOMAIN input_pid
                                             /\ input_pid[w] \in {Gate(w).rider_id, Gate(w).driver_id}
                                             /\ \A i \in Inputs : i[w] \in Int
ASSUME ComparisonAssumption ==
    Threshold \in Int /\ \A rho \in Rho, w \in Wires : rho[w] \in 0 .. RtModulus - 1

Mine(p, w) == p \in {Gate(w).rider_id, Gate(w).driver_id}
Between(p, q, w) == {p, q} = {Gate(w).rider_id, Gate(w).driver_id}
PeerOf(p, w) == IF p = Gate(w).rider_id THEN Gate(w).driver_id ELSE Gate(w).rider_id
OwnWires == [p \in Peers |-> {w \in Wires : Mine(p, w)}]
PairWires(p, q, type) == {w \in Wires : Gate(w).type = type /\ Between(p, q, w)}
MyOutputs == [p \in Peers |-> Pick(circ.outputs, OwnWires[p])]
-----------------------------------------------------------------------------
(***************************************************************************)
(* Control.  A step: the operation, the other party, what its array is,    *)
(* and the wires its elements belong to.                                   *)
(***************************************************************************)
Step(op, peer, what, ws) == [op |-> op, peer |-> peer, what |-> what, ws |-> ws, round |-> 0]
Send(q, what, ws) == Step("send", q, what, ws)
Recv(q, what, ws) == Step("recv", q, what, ws)
Flush == Step("flush", 0, "", <<>>)
Local(what) == Step("local", 0, what, <<>>)

\* The sequences F[x] for the elements x of s, joined: "for x in s, do F[x]".
Each(s, F) == FlattenSeq([i \in DOMAIN s |-> F[s[i]]])
UpTo(n) == [i \in 1 .. n |-> i]

\* The gates of pair (r, d) whose correction value the SP sends d: first the
\* products (rand_sh_sec), then the inputs (rand_sh_party).
SecWires == [d \in Net!Driver |-> Pick(Order, {w \in Wires :
                Gate(w).driver_id = d /\ Gate(w).type \in Communicating})]
ParWires == [d \in Net!Driver |-> Pick(Order, {w \in Wires :
                Gate(w).driver_id = d /\ Gate(w).type = "kInp"})]

\* Mutated form of Offline: the SP sends the arrays before the lengths.
OfflineSwapped(p) ==
    LET ws(d) == SecWires[d] \o ParWires[d]
    IN  IF p = 0
        THEN Each(UpTo(driver_count), [i \in 1 .. driver_count |->
                <<Send(rider_count + i, "preproc", ws(rider_count + i)),
                  Send(rider_count + i, "lengths", <<1, 2, 3>>)>>])
        ELSE IF p \in Net!Driver
        THEN <<Recv(0, "lengths", <<1, 2, 3>>), Recv(0, "preproc", ws(p))>>
        ELSE <<>>

\* OfflineEvaluator::setWireMasks
Offline(p) ==
    LET ws(d) == SecWires[d] \o ParWires[d]
    IN  IF p = 0
        THEN Each(UpTo(driver_count), [i \in 1 .. driver_count |->
                <<Send(rider_count + i, "lengths", <<1, 2, 3>>),
                  Send(rider_count + i, "preproc", ws(rider_count + i))>>])
        ELSE IF p \in Net!Driver
        THEN <<Recv(0, "lengths", <<1, 2, 3>>), Recv(0, "preproc", ws(p))>>
        ELSE <<>>

\* OnlineEvaluator::setInputs
SetInputs(p) ==
    Each(Pick(Levels[1], {w \in OwnWires[p] : Gate(w).type = "kInp"}),
         [w \in Wires |-> IF input_pid[w] = p THEN <<Send(PeerOf(p, w), "input", <<w>>)>>
                          ELSE <<Recv(input_pid[w], "input", <<w>>)>>])

\* Mutated form of LevelWires: one side bundles the dot products first.
LevelWiresBySide ==
    [l \in DOMAIN Levels |-> [p \in Peers |-> [q \in Peers |->
        LET pick(type) == Pick(Levels[l], PairWires(p, q, type))
        IN  IF p < q THEN pick("kMul") \o pick("kDotprod") ELSE pick("kDotprod") \o pick("kMul")]]]

\* The gates of level l that p and q talk for: multiplications first.
LevelWires ==
    [l \in DOMAIN Levels |-> [p \in Peers |-> [q \in Peers |->
        Pick(Levels[l], PairWires(p, q, "kMul")) \o Pick(Levels[l], PairWires(p, q, "kDotprod"))]]]

\* OnlineEvaluator::evaluateGatesAtDepth
AtDepth(p, l) ==
    Each(UpTo(Net!nP - 1), [q \in Peers |->
            LET ws == LevelWires[l][p][q]
            IN  IF ws = <<>> THEN <<>>
                ELSE <<Send(q, "level", ws), Flush, Recv(q, "level", ws)>>])
    \o <<Step("local", l, "level", <<>>)>>

Online(p) == IF p = 0 THEN <<>>
             ELSE SetInputs(p) \o Each(UpTo(Len(Levels)), [l \in 1 .. Len(Levels) |-> AtDepth(p, l)])

\* Mutated forms of GetOutputs: the SP does not flush before it reads; the
\* driver sends its output too.
GetOutputsNoFlush(p) ==
    Each(circ.outputs, [w \in Wires |->
            IF p = 0 THEN <<Recv(Gate(w).rider_id, "output", <<w>>)>>
            ELSE IF p = Gate(w).rider_id THEN <<Send(0, "output", <<w>>)>> ELSE <<>>])
GetOutputsBothSend(p) ==
    Each(circ.outputs, [w \in Wires |->
            IF p = 0 THEN <<Flush, Recv(Gate(w).rider_id, "output", <<w>>)>>
            ELSE IF Mine(p, w) THEN <<Send(0, "output", <<w>>)>> ELSE <<>>])

\* OnlineEvaluator::getOutputs.  (The owners of an output are those of its
\* gate, as in every circuit of the repository.)
GetOutputs(p) ==
    Each(circ.outputs, [w \in Wires |->
            IF p = 0 THEN <<Flush, Recv(Gate(w).rider_id, "output", <<w>>)>>
            ELSE IF p = Gate(w).rider_id THEN <<Send(0, "output", <<w>>)>> ELSE <<>>])

\* Mutated form of Matching: the SP waits for the answers first.
MatchingNoFlush(p) ==
    IF p = 0
    THEN Each(UpTo(Net!nP - 1), [i \in Peers |-> <<Send(i, "key", MyOutputs[i])>>])
         \o Each(UpTo(Net!nP - 1), [i \in Peers |-> <<Recv(i, "share", MyOutputs[i])>>])
         \o <<Local("match")>>
    ELSE <<Recv(0, "key", MyOutputs[p]), Send(0, "share", MyOutputs[p])>>

\* The comparison in pair_EDMatching for all pairs.
Matching(p) ==
    IF p = 0
    THEN Each(UpTo(Net!nP - 1), [i \in Peers |-> <<Send(i, "key", MyOutputs[i])>>])
         \o <<Flush>>
         \o Each(UpTo(Net!nP - 1), [i \in Peers |-> <<Recv(i, "share", MyOutputs[i])>>])
         \o <<Local("match")>>
    ELSE <<Recv(0, "key", MyOutputs[p]), Send(0, "share", MyOutputs[p])>>

\* The comparison in pair_EDMatching for one pair.
PairMatching(p) ==
    IF p = 0 THEN <<Send(1, "key", circ.outputs), Send(2, "key", circ.outputs)>>
    ELSE <<Recv(0, "key", circ.outputs), Local("compare")>>

Round(p) == <<Local("start")>> \o Offline(p) \o Online(p)
            \o (CASE Mode = "Distance" -> GetOutputs(p)
                  [] Mode = "Matching" -> Matching(p)
                  [] Mode = "Pair"     -> PairMatching(p))

InRound(s, k) == [i \in DOMAIN s |-> [s[i] EXCEPT !.round = k]]
Script == [p \in Party |-> Each(UpTo(Repeat), [k \in 1 .. Repeat |-> InRound(Round(p), k)])
                           \o <<Step("close", 0, "", <<>>)>>]
At(p) == Script[p][pc[p]]  \* p's next step: "s" in the actions below
-----------------------------------------------------------------------------
(***************************************************************************)
(* Preprocessing.  Every PRG is seeded alike, so that the n-th value any   *)
(* of them yields is tape[n].  The SP draws from one PRG per party, pi(k), *)
(* and party k from its own, p0(): SPDraws[k] and PartyDraws[k] say what   *)
(* for, in order -- the mask of a wire (by the provider of an input), the  *)
(* share of a mask, the rider's share of a product of masks.               *)
(***************************************************************************)
When(b, x) == IF b THEN <<x>> ELSE <<>>

SPDraws ==
    [k \in Peers |-> Each(Order, [w \in Wires |->
        CASE Gate(w).type = "kInp" ->
                When(input_pid[w] = k, <<w, "mask">>)
                \o When(Gate(w).rider_id = k, <<w, "share">>)
          [] Gate(w).type \in Communicating ->
                When(Mine(k, w), <<w, "share">>)
                \o When(Gate(w).rider_id = k, <<w, "prod">>)
          [] OTHER -> <<>>])]

\* Mutated form of PartyDraws: the rider draws its share before the mask.
PartyDrawsSwapped ==
    [p \in Peers |-> Each(Pick(Order, OwnWires[p]), [w \in Wires |->
        CASE Gate(w).type = "kInp" ->
                When(p = Gate(w).rider_id, <<w, "share">>)
                \o When(p = input_pid[w], <<w, "mask">>)
          [] Gate(w).type \in Communicating ->
                <<<<w, "share">>>> \o When(p = Gate(w).rider_id, <<w, "prod">>)
          [] OTHER -> <<>>])]

PartyDraws ==
    [p \in Peers |-> Each(Pick(Order, OwnWires[p]), [w \in Wires |->
        CASE Gate(w).type = "kInp" ->
                When(p = input_pid[w], <<w, "mask">>)
                \o When(p = Gate(w).rider_id, <<w, "share">>)
          [] Gate(w).type \in Communicating ->
                <<<<w, "share">>>> \o When(p = Gate(w).rider_id, <<w, "prod">>)
          [] OTHER -> <<>>])]

\* A PRG yields Field elements, as many as are drawn.
ASSUME TapeAssumption ==
    \A t \in Tapes : /\ t \in Seq(0 .. Modulus - 1)
                    /\ \A k \in Peers : Len(SPDraws[k]) <= Len(t)

Position(s, x) == CHOOSE i \in DOMAIN s : s[i] = x
Positions(s) == [x \in Range(s) |-> Position(s, x)]
SPDrawAt == [k \in Peers |-> Positions(SPDraws[k])]
PartyDrawAt == [p \in Peers |-> Positions(PartyDraws[p])]

\* Mutated form of LinearMask: adding a constant moves the mask too.
LinearMaskAddsConst(g, m) ==
    (CASE g.type = "kAdd"      -> m[g.in1[1]] + m[g.in2[1]]
       [] g.type = "kSub"      -> m[g.in1[1]] - m[g.in2[1]]
       [] g.type = "kConstAdd" -> m[g.in1[1]] + g.cval
       [] g.type = "kConstMul" -> m[g.in1[1]] * g.cval) % Modulus

\* Mutated form of LinearMask: the result is not reduced to the ring.
LinearMaskUnreduced(g, m) ==
    CASE g.type = "kAdd"      -> m[g.in1[1]] + m[g.in2[1]]
      [] g.type = "kSub"      -> m[g.in1[1]] - m[g.in2[1]]
      [] g.type = "kConstAdd" -> m[g.in1[1]]
      [] g.type = "kConstMul" -> m[g.in1[1]] * g.cval

\* The share of the mask of linear gate g, from the shares of its operands.
LinearMask(g, m) ==
    (CASE g.type = "kAdd"      -> m[g.in1[1]] + m[g.in2[1]]
       [] g.type = "kSub"      -> m[g.in1[1]] - m[g.in2[1]]
       [] g.type = "kConstAdd" -> m[g.in1[1]]
       [] g.type = "kConstMul" -> m[g.in1[1]] * g.cval) % Modulus

Products == {w \in Wires : Gate(w).type \in Communicating}

\* The shares of the wires ws: base(w) for inputs and products, else from those
\* of the operands.
Shares(ws, base(_)) ==
    LET share[w \in ws] ==
            IF Gate(w).type = "kInp" \/ w \in Products THEN base(w) ELSE LinearMask(Gate(w), share)
    IN  [w \in ws |-> share[w]]

\* setWireMasksParty at the SP, per tape t: both shares of every mask, the mask,
\* and the driver's share of each product of masks.
SPDrawn(t, k, w, x) == t[SPDrawAt[k][<<w, x>>]]
SPShare1 == [t \in Tapes |-> Shares(Wires, LAMBDA w : SPDrawn(t, Gate(w).rider_id, w, "share"))]
SPShare2 ==
    [t \in Tapes |-> Shares(Wires, LAMBDA w :
        IF w \in Products THEN SPDrawn(t, Gate(w).driver_id, w, "share")
        ELSE (SPDrawn(t, input_pid[w], w, "mask") - SPShare1[t][w]) % Modulus)]
SPMask == [t \in Tapes |-> [w \in Wires |-> (SPShare1[t][w] + SPShare2[t][w]) % Modulus]]
SPProd2 ==
    [t \in Tapes |-> [w \in Products |->
        (Dot(Gate(w), SPMask[t], SPMask[t]) - SPDrawn(t, Gate(w).rider_id, w, "prod")) % Modulus]]

\* Element i of the array for driver d: its product shares, then its shares of
\* input masks.
SPArray(t, d, i) ==
    LET n == Len(SecWires[d])
    IN  IF i <= n THEN SPProd2[t][SecWires[d][i]] ELSE SPShare2[t][ParWires[d][i - n]]

\* setWireMasksParty at rider or driver p, for its own gates; a driver reads off
\* what it was sent.  (What p computes for the gates of others is never used.)
PartyMasks(p, t, sec, par) ==
    LET draw(w, x) == t[PartyDrawAt[p][<<w, x>>]]
        isRider(w) == p = Gate(w).rider_id
    IN  [mask |-> Shares(OwnWires[p], LAMBDA w :
                      IF isRider(w) \/ w \in Products THEN draw(w, "share")
                      ELSE par[Position(ParWires[p], w)]),
         secret |-> [w \in {v \in DOMAIN input_pid : input_pid[v] = p} |-> draw(w, "mask")],
         prod |-> [w \in OwnWires[p] \cap Products |->
                      IF isRider(w) THEN draw(w, "prod") ELSE sec[Position(SecWires[p], w)]]]
RiderMasks == [t \in Tapes |-> [r \in Net!Rider |-> PartyMasks(r, t, <<>>, <<>>)]]
-----------------------------------------------------------------------------
(***************************************************************************)
(* The online phase and the comparison.  The DCF is ideal: the pair of     *)
(* keys for mask alpha makes the two results at x add up, in R_t, to       *)
(* whether x < alpha (unsigned); party 0's result rho is random.           *)
(***************************************************************************)
\* Mutated form of QShare: both parties add the product of the masked values.
QShareBothAdd(p, w) ==
    LET m == pre[p].mask
        v == wires[p]
    IN  (m[w] + pre[p].prod[w] - Dot(Gate(w), m, v) - Dot(Gate(w), v, m)
         + Dot(Gate(w), v, v)) % Modulus

\* p's share of communicating gate w, from evaluateGatesAtDepthPartySend.
QShare(p, w) ==
    LET m == pre[p].mask
        v == wires[p]
    IN  (m[w] + pre[p].prod[w] - Dot(Gate(w), m, v) - Dot(Gate(w), v, m)
         + (IF p = Gate(w).rider_id THEN Dot(Gate(w), v, v) ELSE 0)) % Modulus

\* p's wires after evaluateGatesAtDepthPartyRecv for level l.
Until == [l \in DOMAIN Levels |-> [p \in Peers |->
             {w \in OwnWires[p] : \E k \in 1 .. l : w \in Range(Levels[k])}]]
AfterLevel(p, l) ==
    LET received(w) == LET q == PeerOf(p, w) IN buf[p][q][Position(LevelWires[l][p][q], w)]
        value[w \in Until[l][p]] ==
            IF w \in DOMAIN wires[p] THEN wires[p][w]
            ELSE IF w \in Products THEN (QShare(p, w) + received(w)) % Modulus
            ELSE GateValue(Gate(w), w, value, inputs)
    IN  [w \in Until[l][p] |-> value[w]]

\* Mutated form of DCFEval: the comparison is not strict.
DCFEvalLeq(b, key, x) ==
    LET less == IF x % RtModulus <= key.alpha THEN 1 ELSE 0
    IN  IF b = 0 THEN key.rho ELSE (less - key.rho) % RtModulus

\* DCF_eval at party b; the Field argument is truncated to R_t.
DCFEval(b, key, x) ==
    LET less == IF x % RtModulus < key.alpha THEN 1 ELSE 0
    IN  IF b = 0 THEN key.rho ELSE (less - key.rho) % RtModulus

\* Mutated form of ToField: zero extension.
ToFieldUnsigned(o) == o

\* An R_t result becomes a Field again: sign extension.
ToField(o) == (IF 2 * o >= RtModulus THEN o - RtModulus ELSE o) % Modulus

Comparison(p, i) ==
    ToField(DCFEval(IF p \in Net!Rider THEN 0 ELSE 1, buf[p][0][i],
                    wires[p][MyOutputs[p][i]] - Threshold))

\* Whether both distances of pair k of outputs are below the threshold, from the
\* parties' shares: the SP walks each party's shares with an index of its own.
Reconstruct(share, w) ==
    LET of(p) == share[p][Position(MyOutputs[p], w)]
    IN  of(Gate(w).rider_id) + of(Gate(w).driver_id)
MatchOf(share) ==
    [k \in 1 .. Len(circ.outputs) \div 2 |->
        (Reconstruct(share, circ.outputs[2 * k - 1]) * Reconstruct(share, circ.outputs[2 * k]))
            % Modulus]
-----------------------------------------------------------------------------
(***************************************************************************)
(* The steps.                                                              *)
(***************************************************************************)
\* An array element on the network: what it is meant to be, and its value.  The
\* code sends the bare value; the tag serves Lockstep only.
Tag(s, i) == <<s.what, s.ws[i], s.round>>

\* The i-th element p sends in step s.
Value(p, s, i) ==
    LET w == s.ws[i]
        n == Len(SecWires[s.peer])
        m == Len(ParWires[s.peer])
    IN  CASE s.what = "lengths" -> <<n + m, n, m>>[i]
          [] s.what = "preproc" -> SPArray(tape, s.peer, i)
          [] s.what = "input"   -> (pre[p].secret[w] + inputs[w]) % Modulus
          [] s.what = "level"   -> QShare(p, w)
          [] s.what = "output"  -> wires[p][w]
          [] s.what = "key"     -> [alpha |-> pre[0].mask[w] % RtModulus, rho |-> pre[0].rho[w]]
          [] s.what = "share"   -> Comparison(p, i)

Items(p, s) == [i \in DOMAIN s.ws |-> [tag |-> Tag(s, i), v |-> Value(p, s, i)]]

\* How many elements p's read of step s asks for: the driver asks for as many
\* values as the lengths it was sent say.
Wanted(p, s) == IF s.what = "preproc" THEN buf[p][0][1] ELSE Len(s.ws)

Init == /\ Net!Init
        /\ inputs \in Inputs
        /\ tape \in Tapes
        /\ pc = [p \in Party |-> 1]
        /\ pre = [p \in Party |-> <<>>]
        /\ wires = [p \in Party |-> <<>>]
        /\ buf = [p \in Party |-> [q \in Party |-> <<>>]]
        /\ outvals = [p \in Party |-> <<>>]

\* Function f with value v at w.
With(f, w, v) == [x \in DOMAIN f \cup {w} |-> IF x = w THEN v ELSE f[x]]

Advance(p) == pc' = [pc EXCEPT ![p] = @ + 1] /\ UNCHANGED <<inputs, tape>>

\* The evaluators of a new round are constructed and reseeded; the SP and the
\* riders, who need nothing from the network, preprocess the circuit.
Start(p) == \E s \in {At(p)} :
    /\ s.what = "start"
    /\ \E rho \in Rho :
          pre' = [pre EXCEPT ![p] = IF p = 0 THEN [mask |-> SPMask[tape], rho |-> rho]
                                   ELSE IF p \in Net!Rider THEN RiderMasks[tape][p]
                                   ELSE <<>>]
    /\ wires' = [wires EXCEPT ![p] = <<>>]
    /\ buf' = [buf EXCEPT ![p] = [q \in Party |-> <<>>]]
    /\ outvals' = [outvals EXCEPT ![p] = <<>>]
    /\ Advance(p)
    /\ UNCHANGED netVars

DoSend(p) == \E s \in {At(p)} :
    /\ s.op = "send"
    /\ \E data \in {Items(p, s)} :
          /\ Net!Send(p, s.peer, data)
          /\ wires' = IF s.what = "input"
                      THEN [wires EXCEPT ![p] = With(@, s.ws[1], data[1].v)]
                      ELSE wires
    /\ Advance(p)
    /\ UNCHANGED <<pre, buf, outvals>>

DoFlush(p) == \E s \in {At(p)} :
    /\ s.op = "flush"
    /\ Net!FlushAll(p)
    /\ Advance(p)
    /\ UNCHANGED <<pre, wires, buf, outvals>>

\* p calls recv and blocks.
CallRecv(p) == \E s \in {At(p)} :
    /\ s.op = "recv"
    /\ Net!RecvCall(p, s.peer, Wanted(p, s))
    /\ UNCHANGED <<inputs, tape, pc, pre, wires, buf, outvals>>

\* recv returns, and p does with the array what it was read for.
EndRecv(p) == \E s \in {At(p)} :
    LET got == Net!Received(p, s.peer)
        a == [i \in DOMAIN got |-> got[i].v]
        n == buf[p][0]  \* the lengths, when s reads the preprocessing
    IN  /\ s.op = "recv"
        /\ Net!RecvReturn(p, s.peer)
        /\ buf' = [buf EXCEPT ![p][s.peer] = a]
        /\ wires' = IF s.what = "input" THEN [wires EXCEPT ![p] = With(@, s.ws[1], a[1])]
                    ELSE wires
        /\ pre' = IF s.what = "preproc"
                  THEN [pre EXCEPT ![p] = PartyMasks(p, tape, SubSeq(a, 1, n[2]),
                                                     SubSeq(a, n[2] + 1, n[1]))]
                  ELSE pre
        /\ outvals' = IF s.what = "output"
                      THEN [outvals EXCEPT ![0] =
                              Append(@, (a[1] - pre[0].mask[s.ws[1]]) % Modulus)]
                      ELSE outvals
        /\ Advance(p)

EndLevel(p) == \E s \in {At(p)} :
    /\ s.what = "level" /\ s.op = "local"
    /\ wires' = [wires EXCEPT ![p] = AfterLevel(p, s.peer)]
    /\ Advance(p)
    /\ UNCHANGED <<netVars, pre, buf, outvals>>

\* The SP reconstructs the answers; a party of a pair evaluates its keys.
Conclude(p) == \E s \in {At(p)} :
    /\ s.what \in {"match", "compare"}
    /\ outvals' = [outvals EXCEPT ![p] = IF p = 0 THEN MatchOf(buf[0])
                                          ELSE [i \in DOMAIN MyOutputs[p] |-> Comparison(p, i)]]
    /\ Advance(p)
    /\ UNCHANGED <<netVars, pre, wires, buf>>

\* The party is done and its network object is destroyed.
Close(p) == \E s \in {At(p)} :
    /\ s.op = "close"
    /\ Net!Close(p)
    /\ UNCHANGED <<inputs, tape, pc, pre, wires, buf, outvals>>

PartyNext(p) == \/ Start(p) \/ DoSend(p) \/ DoFlush(p) \/ CallRecv(p)
                \/ EndRecv(p) \/ EndLevel(p) \/ Conclude(p) \/ Close(p)

Next == \E p \in Party : PartyNext(p)

\* Every party is a process of its own, which the system keeps scheduling.
Spec == Init /\ [][Next]_vars /\ \A p \in Party : WF_vars(PartyNext(p))
-----------------------------------------------------------------------------
Plain == [i \in Inputs |-> Evaluate(circ.gates, i)]  \* evaluated once

AllClosed == \A p \in Party : ~ open[p]

TypeOK == /\ inputs \in Inputs /\ tape \in Tapes
          /\ \A p \in Party :
                /\ pc[p] \in DOMAIN Script[p]
                /\ DOMAIN wires[p] \subseteq {w \in Wires : Mine(p, w)}
                /\ \A w \in DOMAIN wires[p] : wires[p][w] \in 0 .. Modulus - 1
                /\ pre[p] # <<>> => \A w \in DOMAIN pre[p].mask : pre[p].mask[w] \in 0 .. Modulus - 1

InStep(p, s, queue) ==
    /\ waiting[p].n = Len(s.ws)
    /\ \A i \in DOMAIN queue : i <= Len(s.ws) => queue[i].tag = Tag(s, i)

\* The streams carry bare values without any framing: that every reader takes the
\* array it believes to read rests on both ends walking the circuit in the same
\* order.  Whatever is queued for a blocked reader is what it waits for, element
\* by element and of the same round; and lengths the SP sends are the right ones.
Lockstep ==
    \A p \in Party : waiting[p] # Net!Idle => InStep(p, At(p), Net!Queue(waiting[p].src, p))

\* Rider, driver and SP, who draw from separate PRGs and exchange only what the
\* driver lacks, end up with the same masks: the shares of a pair add up to the
\* SP's mask, their product shares to the product of the operands' masks, and the
\* provider of an input knows its mask.
MasksAgree ==
    \A w \in Wires :
        LET r == Gate(w).rider_id
            d == Gate(w).driver_id
            mask == pre[0].mask
        IN  pre[0] # <<>> /\ pre[r] # <<>> /\ pre[d] # <<>> =>
            /\ (pre[r].mask[w] + pre[d].mask[w]) % Modulus = mask[w]
            /\ Gate(w).type \in Communicating =>
                  (pre[r].prod[w] + pre[d].prod[w] - Dot(Gate(w), mask, mask)) % Modulus = 0
            /\ Gate(w).type = "kInp" => pre[input_pid[w]].secret[w] = mask[w]

\* At every moment every wire a party has set is the plaintext value plus the
\* wire's mask: in particular the two parties of a pair agree on it.
WiresMasked ==
    \A p \in Party : \A w \in DOMAIN wires[p] :
        wires[p][w] = (Plain[inputs][w] + SPMask[tape][w]) % Modulus

\* The distances the SP obtains are those of the plaintext circuit, in order.
\* (BOOST_TEST in test/quickpool_endpoint.cpp:84 and :138.)
DistancesCorrect ==
    Mode = "Distance" => \A i \in DOMAIN outvals[0] : outvals[0][i] = Plain[inputs][circ.outputs[i]]

\* The answer for pair k of outputs, once the call that yields it has returned.
Answer(k) ==
    IF Mode = "Matching" THEN outvals[0][k]
    ELSE ((outvals[1][2 * k - 1] + outvals[2][2 * k - 1])
            * (outvals[1][2 * k] + outvals[2][2 * k])) % Modulus
Answered(k) ==
    IF Mode = "Matching" THEN k \in DOMAIN outvals[0]
    ELSE Mode = "Pair" /\ 2 * k \in DOMAIN outvals[1] /\ 2 * k \in DOMAIN outvals[2]

Within(w) == Plain[inputs][w] < Threshold
IsMatch(k) == IF Within(circ.outputs[2 * k - 1]) /\ Within(circ.outputs[2 * k]) THEN 1 ELSE 0

\* The comparison of wire w against its mask is decided by the distance alone:
\* adding the mask to distance - threshold does not leave 0..RtModulus-1, and the
\* two results add up in Field as they do in R_t.
Comparable(w) ==
    LET alpha == SPMask[tape][w] % RtModulus
        less == IF Within(w) THEN 1 ELSE 0
        rho == pre[0].rho[w]
        signed == IF 2 * rho >= RtModulus THEN rho - RtModulus ELSE rho
    IN  /\ alpha + Plain[inputs][w] - Threshold \in 0 .. RtModulus - 1
        /\ 2 * (less - signed) < RtModulus

\* What the SP (or the pair) learns is whether both distances are below the
\* threshold, provided the masked comparisons are decided by the distances.
MatchesCorrect ==
    \A k \in 1 .. Len(circ.outputs) \div 2 :
        Answered(k) /\ Comparable(circ.outputs[2 * k - 1]) /\ Comparable(circ.outputs[2 * k])
            => Answer(k) = IsMatch(k)

\* The same without the proviso: what test/quickpool_endpoint.cpp:220 and :288
\* assert for arbitrary inputs.
MatchesAlwaysCorrect ==
    \A k \in 1 .. Len(circ.outputs) \div 2 : Answered(k) => Answer(k) = IsMatch(k)

\* When all parties are gone nothing is left unread in any buffer or socket.
NothingLeft == AllClosed => \A l \in Net!Link : out[l] = <<>> /\ wire[l] = <<>>

\* Every round ends at every party: no order of steps and no unflushed array
\* makes the parties wait for each other for ever.
Terminates == <>AllClosed
=============================================================================
