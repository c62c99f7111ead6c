------------------------- MODULE Intersection_proofs -------------------------
(***************************************************************************)
(* The intersection-based matching is correct for any number of riders and *)
(* drivers, rounds, routes, buffers and widths.                            *)
(*                                                                         *)
(* The streams carry bare arrays, so that everything rests on counting:    *)
(* the invariant says that each stream holds, whole and in order, the      *)
(* arrays its writer has sent and its reader has not yet read (Flows), and *)
(* how many these are follows from where both are in their scripts.  Then  *)
(* what a reader takes is what it expects, the arrays the SP compares are  *)
(* of one round, and equal PRF values are equal route elements.            *)
(***************************************************************************)
EXTENDS Intersection, DataLemmas, FiniteSetTheorems

-----------------------------------------------------------------------------
(***************************************************************************)
(* What the packing of a triple keeps.                                     *)
(***************************************************************************)
\* Below the limit, a bit of v_i is found again in the high word, above those of v_j.
LEMMA FirstInHigh ==
    ASSUME NEW t \in Triple, Fits(t), NEW b \in 0 .. LIMIT - 1
    PROVE  b \in t[1] <=> b + (LIMIT - LOW) \in high(t)
<1>1. t[1] \in Word /\ t[2] \in Word /\ t[1] \subseteq 0 .. LIMIT - 1 /\ t[2] \subseteq 0 .. LIMIT - 1
  BY DEF Triple, Fits
<1>2. b + (LIMIT - LOW) \in Shl(t[1], LIMIT - LOW) <=> b \in t[1]
  BY <1>1, WidthAssumption DEF Shl
<1>3. b + (LIMIT - LOW) \notin {c - LOW : c \in {d \in t[2] : d >= LOW}}
  BY <1>1, WidthAssumption
<1>4. b + (LIMIT - LOW) \notin (IF WORD - 1 \in t[2] THEN WORD - LOW .. WORD - 1 ELSE {})
  <2>1. CASE WORD - 1 \in t[2]
    <3>1. LIMIT = WORD /\ LOW = 0
      BY <1>1, <2>1, WidthAssumption
    <3> QED BY <3>1, WidthAssumption
  <2> QED BY <2>1
<1> QED BY <1>2, <1>3, <1>4 DEF high, Shr

\* The bits of v_j are found in the high word from LOW on, below that in the low word.
LEMMA SecondInBoth ==
    ASSUME NEW t \in Triple, Fits(t), NEW b \in 0 .. LIMIT - 1
    PROVE  b \in t[2] <=> IF b >= LOW THEN b - LOW \in high(t) ELSE b + LIMIT \in low(t)
<1>1. /\ t[1] \in Word /\ t[2] \in Word /\ t[3] \in Word
      /\ t[1] \subseteq 0 .. LIMIT - 1 /\ t[2] \subseteq 0 .. LIMIT - 1 /\ t[3] \subseteq 0 .. LIMIT - 1
  BY DEF Triple, Fits
<1>2. ASSUME b >= LOW PROVE b \in t[2] <=> b - LOW \in high(t)
  <2>1. b - LOW \notin Shl(t[1], LIMIT - LOW)
    BY <1>1, <1>2, WidthAssumption DEF Shl
  <2>2. b - LOW \in {c - LOW : c \in {d \in t[2] : d >= LOW}} <=> b \in t[2]
    BY <1>1, <1>2, WidthAssumption
  <2>3. b - LOW \in (IF WORD - 1 \in t[2] THEN WORD - LOW .. WORD - 1 ELSE {}) => FALSE
    BY <1>1, <1>2, WidthAssumption
  <2> QED BY <2>1, <2>2, <2>3 DEF high, Shr
<1>3. ASSUME ~ b >= LOW PROVE b \in t[2] <=> b + LIMIT \in low(t)
  <2>1. b + LIMIT \in Shl(t[2] \cap 0 .. LOW - 1, LIMIT) <=> b \in t[2]
    BY <1>1, <1>3, WidthAssumption DEF Shl
  <2>2. b + LIMIT \notin t[3]
    BY <1>1, WidthAssumption
  <2> QED BY <2>1, <2>2 DEF low
<1> QED BY <1>2, <1>3

\* The bits of t_k are the lowest of the low word.
LEMMA ThirdInLow ==
    ASSUME NEW t \in Triple, Fits(t), NEW b \in 0 .. LIMIT - 1
    PROVE  b \in t[3] <=> b \in low(t)
<1>1. t[2] \in Word
  BY DEF Triple
<1>2. b \notin Shl(t[2] \cap 0 .. LOW - 1, LIMIT)
  BY <1>1, WidthAssumption DEF Shl, Word
<1> QED BY <1>2 DEF low

\* Two different triples whose values keep to the limit give different route elements
\* (the packing of fetchRoutesFromDB): what the SP counts as common is common.
THEOREM PackingInjective ==
    ASSUME NEW t \in Triple, NEW u \in Triple, Fits(t), Fits(u), makeBlock(t) = makeBlock(u)
    PROVE  t = u
<1>1. high(t) = high(u) /\ low(t) = low(u)
  BY DEF makeBlock
<1>2. /\ t[1] \subseteq 0 .. LIMIT - 1 /\ t[2] \subseteq 0 .. LIMIT - 1 /\ t[3] \subseteq 0 .. LIMIT - 1
      /\ u[1] \subseteq 0 .. LIMIT - 1 /\ u[2] \subseteq 0 .. LIMIT - 1 /\ u[3] \subseteq 0 .. LIMIT - 1
  BY DEF Fits
<1>3. t[1] = u[1]
  <2>1. \A b \in 0 .. LIMIT - 1 : b \in t[1] <=> b \in u[1]
    BY <1>1, FirstInHigh
  <2> QED BY <1>2, <2>1
<1>4. t[2] = u[2]
  <2>1. \A b \in 0 .. LIMIT - 1 : b \in t[2] <=> b \in u[2]
    BY <1>1, SecondInBoth
  <2> QED BY <1>2, <2>1
<1>5. t[3] = u[3]
  <2>1. \A b \in 0 .. LIMIT - 1 : b \in t[3] <=> b \in u[3]
    BY <1>1, ThirdInLow
  <2> QED BY <1>2, <2>1
<1> QED BY <1>3, <1>4, <1>5 DEF Triple

\* One bit more is too much, and the code only logs it: for a t_k of LIMIT + 1 bits there
\* is another triple, all of whose values keep to the limit, with the same element.
THEOREM LimitIsTight ==
    ASSUME LOW > 0
    PROVE  \E t, u \in Triple : t # u /\ Fits(u) /\ t[3] \subseteq 0 .. LIMIT
                                /\ makeBlock(t) = makeBlock(u)
<1> DEFINE t == [n \in 1 .. 3 |-> IF n = 1 THEN {} ELSE IF n = 2 THEN {0} ELSE {LIMIT}]
           u == [n \in 1 .. 3 |-> IF n = 2 THEN {0} ELSE {}]
<1>1. {} \in Word /\ {0} \in Word /\ {LIMIT} \in Word /\ 0 \in 0 .. LIMIT - 1 /\ 0 \in 0 .. LOW - 1
  BY WidthAssumption DEF Word
<1>2. t \in Triple /\ u \in Triple
  BY <1>1 DEF Triple
<1>3. t[1] = {} /\ t[2] = {0} /\ t[3] = {LIMIT} /\ u[1] = {} /\ u[2] = {0} /\ u[3] = {}
  OBVIOUS
<1> HIDE DEF t, u
<1>4. Fits(u) /\ t[3] \subseteq 0 .. LIMIT
  <2>1. Fits(u)
    BY <1>1, <1>3 DEF Fits
  <2> QED BY <1>3, <2>1, WidthAssumption
<1>5. high(t) = high(u)
  BY <1>3 DEF high
<1>6. low(t) = low(u)
  <2>1. {0} \cap 0 .. LOW - 1 = {0}
    BY <1>1
  <2>2. LIMIT \in Shl({0}, LIMIT)
    BY WidthAssumption DEF Shl
  <2> QED BY <1>3, <2>1, <2>2 DEF low
<1>7. t # u
  BY <1>3
<1> QED BY <1>2, <1>4, <1>5, <1>6, <1>7 DEF makeBlock
-----------------------------------------------------------------------------
(***************************************************************************)
(* The exchange.  Data flows from every rider and driver to each of its    *)
(* counterparts and to the SP, one batch a round.                          *)
(***************************************************************************)
Rank(p, q) == IF p <= rider_count THEN q - rider_count ELSE q
SendPos(p, q) == IF q = 0 THEN 2 * Len(Counterparts[p]) + 1 ELSE 2 * Rank(p, q) - 1
RecvPos(p, q) == IF p = 0 THEN q ELSE 2 * Rank(p, q)

\* p has something for q: q is a counterpart of p, or the SP.
Flow(p, q) == p \in Peers /\ q \in Party /\ Net!Connected(p, q)

What(q) == IF q = 0 THEN "prf" ELSE "key"
Volume(p, q) == IF q = 0 THEN Len(Counterparts[p]) * VERTEX_NUM ELSE 1

LEMMA Parties ==
    /\ Net!nP \in Nat /\ Net!nP = rider_count + driver_count + 1
    /\ Party = 0 .. rider_count + driver_count
    /\ Peers = 1 .. rider_count + driver_count
    /\ Net!Rider = 1 .. rider_count
    /\ Net!Driver = rider_count + 1 .. rider_count + driver_count
    /\ VERTEX_NUM \in Nat \ {0} /\ rider_count \in Nat /\ driver_count \in Nat
BY NetAssumption, RouteAssumption DEF Party, Net!Party, Net!nP, Peers, Net!Rider, Net!Driver

LEMMA CounterpartTable ==
    ASSUME NEW p \in Peers
    PROVE  /\ Counterparts[p] \in Seq(Peers)
           /\ p <= rider_count =>
                 /\ Len(Counterparts[p]) = driver_count
                 /\ \A i \in 1 .. driver_count : Counterparts[p][i] = rider_count + i
           /\ ~ p <= rider_count =>
                 /\ Len(Counterparts[p]) = rider_count
                 /\ \A i \in 1 .. rider_count : Counterparts[p][i] = i
<1> DEFINE f == [j \in 1 .. driver_count |-> rider_count + j]
           g == [i \in 1 .. rider_count |-> i]
<1>1. f \in [1 .. driver_count -> Peers] /\ g \in [1 .. rider_count -> Peers]
  BY Parties
<1>2. f \in Seq(Peers) /\ Len(f) = driver_count /\ g \in Seq(Peers) /\ Len(g) = rider_count
  BY <1>1, Parties, TableAppend
<1>3. Counterparts[p] = IF p \in Net!Rider THEN f ELSE g
  BY DEF Counterparts
<1>4. p \in Net!Rider <=> p <= rider_count
  BY Parties
<1>5. \A i \in 1 .. driver_count : f[i] = rider_count + i
  OBVIOUS
<1>6. \A i \in 1 .. rider_count : g[i] = i
  OBVIOUS
<1> HIDE DEF f, g
<1> QED
  BY <1>2, <1>3, <1>4, <1>5, <1>6

LEMMA Counterpart ==
    ASSUME NEW p \in Peers, NEW i \in 1 .. Len(Counterparts[p])
    PROVE  /\ Counterparts[p][i] \in Peers /\ Rank(p, Counterparts[p][i]) = i
           /\ Flow(p, Counterparts[p][i]) /\ Flow(Counterparts[p][i], p)
<1>1. CASE p <= rider_count
  <2>1. /\ Counterparts[p][i] = rider_count + i /\ i \in 1 .. driver_count
    BY <1>1, CounterpartTable
  <2> DEFINE q == rider_count + i
  <2>2. /\ p \in 1 .. rider_count /\ q \in rider_count + 1 .. rider_count + driver_count
        /\ q \in Int /\ ~ q <= rider_count /\ q - rider_count = i
    BY <1>1, <2>1, Parties
  <2> HIDE DEF q
  <2>3. q \in Peers /\ Net!Connected(p, q) /\ Net!Connected(q, p) /\ p \in Party /\ q \in Party
    BY <2>2, Parties DEF Net!Connected
  <2> QED
    BY <1>1, <2>1, <2>2, <2>3 DEF Rank, Flow, q
<1>2. CASE ~ p <= rider_count
  <2>1. /\ Counterparts[p][i] = i /\ i \in 1 .. rider_count
    BY <1>2, CounterpartTable
  <2>2. p \in rider_count + 1 .. rider_count + driver_count
    BY <1>2, Parties
  <2>3. i \in Peers /\ Net!Connected(p, i) /\ Net!Connected(i, p) /\ p \in Party /\ i \in Party
    BY <2>1, <2>2, Parties DEF Net!Connected
  <2> QED
    BY <1>2, <2>1, <2>3 DEF Rank, Flow
<1> QED
  BY <1>1, <1>2

LEMMA FlowRank ==
    ASSUME NEW p \in Peers, NEW q \in Peers, Flow(p, q)
    PROVE  /\ Rank(p, q) \in 1 .. Len(Counterparts[p]) /\ Counterparts[p][Rank(p, q)] = q
           /\ Flow(q, p) /\ q \in Range(Counterparts[p])
<1>1. /\ Rank(p, q) \in 1 .. Len(Counterparts[p]) /\ Counterparts[p][Rank(p, q)] = q
      /\ Flow(q, p)
  <2>1. CASE p <= rider_count
    <3>1. p \in Net!Rider /\ q \notin Net!Rider /\ q \in Int
      BY <2>1, Parties DEF Flow, Net!Connected
    <3>2. q \in rider_count + 1 .. rider_count + driver_count
      BY <3>1, Parties
    <3>3. Rank(p, q) = q - rider_count /\ q - rider_count \in 1 .. driver_count
      BY <2>1, <3>2, Parties DEF Rank
    <3>4. rider_count + (q - rider_count) = q
      BY <3>2, Parties
    <3> QED
      BY <2>1, <3>3, <3>4, CounterpartTable, Counterpart
  <2>2. CASE ~ p <= rider_count
    <3>1. p \in Net!Driver /\ q \notin Net!Driver
      BY <2>2, Parties DEF Flow, Net!Connected
    <3>2. q \in 1 .. rider_count
      BY <3>1, Parties
    <3>3. Rank(p, q) = q
      BY <2>2 DEF Rank
    <3> QED
      BY <2>2, <3>2, <3>3, CounterpartTable, Counterpart
  <2> QED
    BY <2>1, <2>2
<1>2. q \in Range(Counterparts[p])
  BY <1>1, CounterpartTable DEF Range
<1> QED
  BY <1>1, <1>2

LEMMA FlowToSP ==
    ASSUME NEW p \in Peers
    PROVE  Flow(p, 0)
BY Parties DEF Flow, Net!Connected

LEMMA FlowEnds ==
    ASSUME NEW p, NEW q, Flow(p, q)
    PROVE  /\ p \in Peers /\ p \in Party /\ p # 0 /\ q \in Party /\ p \in Int /\ q \in Int
           /\ p # q /\ (q = 0 \/ q \in Peers)
BY Parties DEF Flow, Net!Connected

LEMMA Volumes ==
    ASSUME NEW p, NEW q, Flow(p, q)
    PROVE  Volume(p, q) \in Nat
<1>1. Len(Counterparts[p]) \in Nat /\ VERTEX_NUM \in Nat
  BY FlowEnds, CounterpartTable, Parties
<1>2. Len(Counterparts[p]) * VERTEX_NUM \in Nat
  BY <1>1
<1> QED
  BY <1>2 DEF Volume
-----------------------------------------------------------------------------
\* The numbers of the calls with the counterpart of rank r.
LEMMA Halves ==
    /\ \A r \in Nat \ {0} :
          /\ (2 * r - 1) % 2 = 1 /\ ((2 * r - 1) + 1) \div 2 = r
          /\ (2 * r) % 2 = 0 /\ (2 * r + 1) \div 2 = r
    /\ \A i \in Nat \ {0} : \E r \in Nat \ {0} : i = 2 * r - 1 \/ i = 2 * r
<1>1. ASSUME NEW i \in Nat \ {0} PROVE \E r \in Nat \ {0} : i = 2 * r - 1 \/ i = 2 * r
  <2> DEFINE r == (i + 1) \div 2
  <2>1. r \in Nat \ {0} /\ (i = 2 * r - 1 \/ i = 2 * r)
    OBVIOUS
  <2> QED
    BY <2>1
<1> QED
  BY <1>1

ASteps == [op : {"send", "recv", "local"}, peer : Party, what : {"key", "prf", "match"}, n : Nat]

LEMMA PeerScript ==
    ASSUME NEW p \in Peers
    PROVE  LET c == Len(Counterparts[p])
           IN  /\ c \in Nat /\ Len(Script[p]) = 2 * c + 1
               /\ \A r \in 1 .. c :
                     /\ Script[p][2 * r - 1] = Step("send", Counterparts[p][r], "key", 1)
                     /\ Script[p][2 * r] = Step("recv", Counterparts[p][r], "key", 1)
               /\ Script[p][2 * c + 1] = Step("send", 0, "prf", c * VERTEX_NUM)
<1> DEFINE c == Len(Counterparts[p])
           f == [i \in 1 .. 2 * c |-> Step(KeyCall(i), Counterparts[p][(i + 1) \div 2], "key", 1)]
           last == Step("send", 0, "prf", c * VERTEX_NUM)
<1>1. c \in Nat /\ Counterparts[p] \in Seq(Peers)
  BY CounterpartTable
<1>2. p \in Party /\ p # 0 /\ Peers \subseteq Party /\ 0 \in Party
  BY Parties
<1>3. Script[p] = Append(f, last)
  BY <1>2 DEF Script, Round
<1>4. last \in ASteps
  <2>1. c * VERTEX_NUM \in Nat
    BY <1>1, Parties
  <2> QED
    BY <1>2, <2>1 DEF ASteps, Step
<1> HIDE DEF c, last
<1>5. ASSUME NEW i \in 1 .. 2 * c
      PROVE  (i + 1) \div 2 \in 1 .. c
  BY <1>1
<1>6. f \in [1 .. 2 * c -> ASteps]
  <2>1. ASSUME NEW i \in 1 .. 2 * c
        PROVE  Step(KeyCall(i), Counterparts[p][(i + 1) \div 2], "key", 1) \in ASteps
    <3>1. Counterparts[p][(i + 1) \div 2] \in Party
      BY <1>1, <1>2, <1>5 DEF c
    <3> QED
      BY <3>1 DEF ASteps, Step, KeyCall
  <2> QED
    BY <2>1
<1>7. \A i \in 1 .. 2 * c : f[i] = Step(KeyCall(i), Counterparts[p][(i + 1) \div 2], "key", 1)
  OBVIOUS
<1> HIDE DEF f
<1>8. 2 * c \in Nat
  BY <1>1
<1>9. /\ Len(Script[p]) = 2 * c + 1 /\ Script[p][2 * c + 1] = last
      /\ \A i \in 1 .. 2 * c : Script[p][i] = f[i]
  BY <1>3, <1>4, <1>6, <1>8, TableAppend
<1>10. ASSUME NEW r \in 1 .. c
       PROVE  /\ Script[p][2 * r - 1] = Step("send", Counterparts[p][r], "key", 1)
              /\ Script[p][2 * r] = Step("recv", Counterparts[p][r], "key", 1)
  <2>1. r \in Nat \ {0} /\ 2 * r - 1 \in 1 .. 2 * c /\ 2 * r \in 1 .. 2 * c
    BY <1>1
  <2>2. KeyCall(2 * r - 1) = "send" /\ KeyCall(2 * r) = "recv"
    BY <2>1, Halves DEF KeyCall
  <2>3. ((2 * r - 1) + 1) \div 2 = r /\ (2 * r + 1) \div 2 = r
    BY <2>1, Halves
  <2>4. Script[p][2 * r - 1] = f[2 * r - 1] /\ Script[p][2 * r] = f[2 * r]
    BY <1>9, <2>1
  <2>5. f[2 * r - 1] = Step("send", Counterparts[p][r], "key", 1)
    BY <1>7, <2>1, <2>2, <2>3, Zenon
  <2>6. f[2 * r] = Step("recv", Counterparts[p][r], "key", 1)
    BY <1>7, <2>1, <2>2, <2>3, Zenon
  <2> QED
    BY <2>4, <2>5, <2>6, Zenon
<1> QED
  BY <1>1, <1>9, <1>10 DEF c, last

LEMMA SPScript ==
    /\ 0 \in Party /\ Len(Script[0]) = Net!nP
    /\ \A q \in Peers : Script[0][q] = Step("recv", q, "prf", Len(Counterparts[q]) * VERTEX_NUM)
    /\ Script[0][Net!nP] = Step("local", 0, "match", 0)
<1> DEFINE n == Net!nP - 1
           f == [q \in 1 .. n |-> Step("recv", q, "prf", Len(Counterparts[q]) * VERTEX_NUM)]
           last == Step("local", 0, "match", 0)
<1>1. 0 \in Party /\ n \in Nat /\ Peers = 1 .. n /\ Peers \subseteq Party /\ n + 1 = Net!nP
  BY Parties DEF Peers
<1>2. Script[0] = Append(f, last)
  BY <1>1 DEF Script, Round
<1>3. last \in ASteps
  BY <1>1 DEF ASteps, Step
<1>4. f \in [1 .. n -> ASteps]
  <2>1. ASSUME NEW q \in Peers
        PROVE  Step("recv", q, "prf", Len(Counterparts[q]) * VERTEX_NUM) \in ASteps
    <3>1. Len(Counterparts[q]) \in Nat
      BY CounterpartTable
    <3>2. Len(Counterparts[q]) * VERTEX_NUM \in Nat
      BY <3>1, Parties
    <3> QED
      BY <1>1, <3>2 DEF ASteps, Step
  <2> QED
    BY <1>1, <2>1
<1>5. \A q \in 1 .. n : f[q] = Step("recv", q, "prf", Len(Counterparts[q]) * VERTEX_NUM)
  OBVIOUS
<1> HIDE DEF f, last, n
<1>6. /\ Len(Script[0]) = n + 1 /\ Script[0][n + 1] = last
      /\ \A i \in 1 .. n : Script[0][i] = f[i]
  BY <1>1, <1>2, <1>3, <1>4, TableAppend
<1> QED
  BY <1>1, <1>5, <1>6 DEF last

\* Every flow has its call at both ends ...
LEMMA ScriptSend ==
    ASSUME NEW p, NEW q, Flow(p, q)
    PROVE  /\ SendPos(p, q) \in 1 .. Len(Script[p])
           /\ Script[p][SendPos(p, q)] = Step("send", q, What(q), Volume(p, q))
<1>1. p \in Peers /\ (q = 0 \/ q \in Peers)
  BY FlowEnds
<1>2. CASE q = 0
  BY <1>1, <1>2, PeerScript DEF SendPos, What, Volume
<1>3. CASE q # 0
  <2>1. Rank(p, q) \in 1 .. Len(Counterparts[p]) /\ Counterparts[p][Rank(p, q)] = q
    BY <1>1, <1>3, FlowRank
  <2> DEFINE r == Rank(p, q)
  <2>2. 2 * r - 1 \in 1 .. Len(Script[p]) /\ Script[p][2 * r - 1] = Step("send", q, "key", 1)
    BY <1>1, <2>1, PeerScript
  <2> QED
    BY <1>3, <2>2 DEF SendPos, What, Volume
<1> QED
  BY <1>2, <1>3

LEMMA ScriptRecv ==
    ASSUME NEW p \in Party, NEW q, Flow(q, p)
    PROVE  /\ RecvPos(p, q) \in 1 .. Len(Script[p])
           /\ Script[p][RecvPos(p, q)] = Step("recv", q, What(p), Volume(q, p))
<1>1. q \in Peers /\ (p = 0 \/ p \in Peers)
  BY FlowEnds
<1>2. CASE p = 0
  <2>1. q \in 1 .. Net!nP /\ Len(Script[0]) = Net!nP
    BY <1>1, SPScript, Parties
  <2> QED
    BY <1>1, <1>2, <2>1, SPScript DEF RecvPos, What, Volume
<1>3. CASE p # 0
  <2>1. Flow(p, q)
    BY <1>1, <1>3, FlowRank
  <2>2. Rank(p, q) \in 1 .. Len(Counterparts[p]) /\ Counterparts[p][Rank(p, q)] = q
    BY <1>1, <1>3, <2>1, FlowRank
  <2> DEFINE r == Rank(p, q)
  <2>3. 2 * r \in 1 .. Len(Script[p]) /\ Script[p][2 * r] = Step("recv", q, "key", 1)
    BY <1>1, <1>3, <2>2, PeerScript
  <2> QED
    BY <1>3, <2>3 DEF RecvPos, What, Volume
<1> QED
  BY <1>2, <1>3

\* ... and every call but the SP's last is one of these.
LEMMA ScriptCover ==
    ASSUME NEW p \in Party, NEW i \in 1 .. Len(Script[p])
    PROVE  \/ \E q \in Party : Flow(p, q) /\ SendPos(p, q) = i
           \/ \E q \in Party : Flow(q, p) /\ RecvPos(p, q) = i
           \/ p = 0 /\ i = Net!nP
<1>1. CASE p = 0
  <2>1. i \in Peers \/ i = Net!nP
    BY <1>1, SPScript, Parties
  <2>2. CASE i \in Peers
    <3>1. Flow(i, 0) /\ RecvPos(0, i) = i /\ i \in Party
      BY <2>2, FlowToSP, FlowEnds DEF RecvPos
    <3> QED
      BY <1>1, <3>1
  <2> QED
    BY <1>1, <2>1, <2>2
<1>2. CASE p \in Peers
  <2> DEFINE c == Len(Counterparts[p])
  <2>1. c \in Nat /\ i \in 1 .. 2 * c + 1
    BY <1>2, PeerScript
  <2>2. CASE i = 2 * c + 1
    <3>1. Flow(p, 0) /\ SendPos(p, 0) = i /\ 0 \in Party
      BY <1>2, <2>2, FlowToSP, SPScript DEF SendPos
    <3> QED
      BY <3>1
  <2>3. CASE i # 2 * c + 1
    <3>0. i \in Nat \ {0}
      BY <2>1
    <3>1. PICK r \in Nat \ {0} : i = 2 * r - 1 \/ i = 2 * r
      BY <3>0, Halves
    <3>2. r \in 1 .. c
      BY <2>1, <2>3, <3>1
    <3> DEFINE q == Counterparts[p][r]
    <3>3. /\ q \in Peers /\ Rank(p, q) = r /\ Flow(p, q) /\ Flow(q, p)
          /\ q \in Party /\ q # 0 /\ p # 0
      BY <1>2, <3>2, Counterpart, FlowEnds
    <3>4. SendPos(p, q) = 2 * r - 1 /\ RecvPos(p, q) = 2 * r
      BY <3>3 DEF SendPos, RecvPos
    <3> HIDE DEF q
    <3> QED
      BY <3>1, <3>3, <3>4
  <2> QED
    BY <2>2, <2>3
<1>3. p = 0 \/ p \in Peers
  BY Parties
<1> QED
  BY <1>1, <1>2, <1>3

LEMMA ScriptLength ==
    ASSUME NEW p \in Party
    PROVE  Len(Script[p]) \in Nat \ {0}
<1>1. p = 0 \/ p \in Peers
  BY Parties
<1> QED
  BY <1>1, PeerScript, SPScript, Parties
-----------------------------------------------------------------------------
(***************************************************************************)
(* The inductive invariant.  That a stream carries what its reader expects *)
(* is a matter of counting: every flow holds the batches between those     *)
(* read and those sent, which both ends' positions in their scripts give.  *)
(***************************************************************************)
\* Batch k of the flow from p to q, and all there can be on the network.
Batch(p, q, k) == IF q = 0 THEN PRFArray(p, k) ELSE <<Element(SelfKey, "key", k, Pair(p, q))>>
Items == UNION {Range(Batch(p, q, k)) : p \in Peers, q \in Party, k \in 1 .. Repeat}

\* How often p has made call i of its script, and with it sent q or read from q a batch.
Made(p, i) == round[p] - 1 + (IF pc[p] > i THEN 1 ELSE 0)
SentTo(p, q) == Made(p, SendPos(p, q))
ReadFrom(p, q) == Made(p, RecvPos(p, q))

\* What no step changes: the keys too, as all shared keys are the same.
Settled ==
    /\ version \in Versions /\ document \in [1 .. Repeat -> Documents[version]]
    /\ \E garbage \in [1 .. Repeat -> [Peers -> [1 .. VERTEX_NUM -> Garbage]]] :
          routes = [k \in 1 .. Repeat |->
                       [p \in Peers |-> Routes(document[k][p], garbage[k][p])]]
    /\ keys = [p \in Peers |-> [q \in Range(Counterparts[p]) |-> {}]]

Positions ==
    /\ round \in [Party -> 1 .. Repeat + 1] /\ pc \in [Party -> Nat]
    /\ \A p \in Party : pc[p] \in 1 .. Len(Script[p]) /\ (round[p] = Repeat + 1 => pc[p] = 1)

Waits ==
    /\ waiting \in [Party -> [src : Party \cup {-1}, n : Nat]]
    /\ \A p \in Party :
          waiting[p] # Net!Idle =>
             At(p).op = "recv" /\ waiting[p] = [src |-> At(p).peer, n |-> At(p).n]

\* Every flow holds the batches that its writer has sent and its reader not yet read.
FlowRight(p, q) == Batches(Items, Net!Queue(p, q), Volume(p, q), ReadFrom(q, p), SentTo(p, q),
                           [k \in 1 .. Repeat |-> Batch(p, q, k)])
Flows == /\ Buffered(Net!Link, Items, wire, out)
         /\ \A p \in Peers, q \in Party : Flow(p, q) => FlowRight(p, q)

\* What the SP has read in the round it is in.
ArraysRead ==
    /\ prf \in [Peers -> Seq(Items)]
    /\ round[0] <= Repeat => \A q \in Peers : pc[0] > q => prf[q] = PRFArray(q, round[0])

\* The pairs of equal elements of the routes of p and q.
EqualPairs(k, p, q) ==
    {kl \in (1 .. VERTEX_NUM) \X (1 .. VERTEX_NUM) : routes[k][p][kl[1]] = routes[k][q][kl[2]]}

\* Any choice of pairs of places is finite.
LEMMA PairsFinite ==
    ASSUME NEW S \in SUBSET ((1 .. VERTEX_NUM) \X (1 .. VERTEX_NUM))
    PROVE  IsFiniteSet(S) /\ Cardinality(S) \in Nat
<1>1. IsFiniteSet(1 .. VERTEX_NUM)
  BY RouteAssumption, FS_Interval
<1>2. IsFiniteSet((1 .. VERTEX_NUM) \X (1 .. VERTEX_NUM))
  BY <1>1, FS_Product
<1>3. IsFiniteSet(S)
  BY <1>2, FS_Subset
<1> QED
  BY <1>3, FS_CardinalityType

Answers ==
    /\ match \in Seq([1 .. rider_count -> [1 .. driver_count -> BOOLEAN]])
    /\ Len(match) = round[0] - 1
    /\ \A k \in 1 .. round[0] - 1, i \in 1 .. rider_count, j \in 1 .. driver_count :
          match[k][i][j] = Enough(Cardinality(EqualPairs(k, i, rider_count + j)))

IInv == Settled /\ Positions /\ Waits /\ Flows /\ ArraysRead /\ Answers
-----------------------------------------------------------------------------
\* The calls that a party can be at.
Is(p, op, peer, what, n) ==
    At(p).op = op /\ At(p).peer = peer /\ At(p).what = what /\ At(p).n = n

LEMMA AtCases ==
    ASSUME Positions, NEW p \in Party
    PROVE  \/ At(p).op = "close" /\ At(p).what = ""
           \/ /\ round[p] \in 1 .. Repeat /\ At(p) = Script[p][pc[p]]
              /\ \/ \E q \in Party : /\ Flow(p, q) /\ SendPos(p, q) = pc[p]
                                     /\ Is(p, "send", q, What(q), Volume(p, q))
                 \/ \E q \in Party : /\ Flow(q, p) /\ RecvPos(p, q) = pc[p]
                                     /\ Is(p, "recv", q, What(p), Volume(q, p))
                 \/ p = 0 /\ pc[p] = Net!nP /\ Is(p, "local", 0, "match", 0)
<1>1. CASE round[p] <= Repeat
  <2>1. At(p) = Script[p][pc[p]]
    BY <1>1 DEF At
  <2>2. round[p] \in 1 .. Repeat /\ pc[p] \in 1 .. Len(Script[p])
    BY <1>1, RouteAssumption DEF Positions
  <2>3. CASE \E q \in Party : Flow(p, q) /\ SendPos(p, q) = pc[p]
    <3>1. PICK q \in Party : Flow(p, q) /\ SendPos(p, q) = pc[p]
      BY <2>3
    <3>2. Script[p][SendPos(p, q)] = Step("send", q, What(q), Volume(p, q))
      BY <3>1, ScriptSend
    <3>3. Is(p, "send", q, What(q), Volume(p, q))
      BY <2>1, <3>1, <3>2 DEF Step, Is
    <3> QED
      BY <2>1, <2>2, <3>1, <3>3, Zenon
  <2>4. CASE \E q \in Party : Flow(q, p) /\ RecvPos(p, q) = pc[p]
    <3>1. PICK q \in Party : Flow(q, p) /\ RecvPos(p, q) = pc[p]
      BY <2>4
    <3>2. Script[p][RecvPos(p, q)] = Step("recv", q, What(p), Volume(q, p))
      BY <3>1, ScriptRecv
    <3>3. Is(p, "recv", q, What(p), Volume(q, p))
      BY <2>1, <3>1, <3>2 DEF Step, Is
    <3> QED
      BY <2>1, <2>2, <3>1, <3>3, Zenon
  <2>5. CASE p = 0 /\ pc[p] = Net!nP
    <3>1. Script[p][pc[p]] = Step("local", 0, "match", 0)
      BY <2>5, SPScript, Zenon
    <3>2. Is(p, "local", 0, "match", 0)
      BY <2>1, <3>1 DEF Step, Is
    <3> QED
      BY <2>1, <2>2, <2>5, <3>2, Zenon
  <2> QED
    BY <2>2, <2>3, <2>4, <2>5, ScriptCover
<1>2. CASE ~ round[p] <= Repeat
  BY <1>2 DEF At, Step
<1> QED
  BY <1>1, <1>2

LEMMA AtSend ==
    ASSUME Positions, NEW p \in Party, At(p).op = "send"
    PROVE  /\ round[p] \in 1 .. Repeat /\ At(p) = Script[p][pc[p]]
           /\ Flow(p, At(p).peer) /\ SendPos(p, At(p).peer) = pc[p]
           /\ At(p).what = What(At(p).peer)
<1>1. /\ round[p] \in 1 .. Repeat /\ At(p) = Script[p][pc[p]]
      /\ \E q \in Party : /\ Flow(p, q) /\ SendPos(p, q) = pc[p]
                          /\ Is(p, "send", q, What(q), Volume(p, q))
  BY AtCases DEF Is
<1> QED
  BY <1>1 DEF Is

LEMMA AtRecv ==
    ASSUME Positions, NEW p \in Party, At(p).op = "recv"
    PROVE  /\ round[p] \in 1 .. Repeat /\ At(p) = Script[p][pc[p]]
           /\ Flow(At(p).peer, p) /\ RecvPos(p, At(p).peer) = pc[p]
           /\ At(p).what = What(p) /\ At(p).n = Volume(At(p).peer, p)
<1>1. /\ round[p] \in 1 .. Repeat /\ At(p) = Script[p][pc[p]]
      /\ \E q \in Party : /\ Flow(q, p) /\ RecvPos(p, q) = pc[p]
                          /\ Is(p, "recv", q, What(p), Volume(q, p))
  BY AtCases DEF Is
<1> QED
  BY <1>1 DEF Is

LEMMA AtMatch ==
    ASSUME Positions, NEW p \in Party, At(p).what = "match"
    PROVE  /\ p = 0 /\ round[0] \in 1 .. Repeat /\ pc[0] = Net!nP
           /\ At(0) = Script[0][pc[0]] /\ At(0).op = "local"
<1>1. \A q : What(q) # "match"
  BY DEF What
<1>2. /\ round[p] \in 1 .. Repeat /\ At(p) = Script[p][pc[p]]
      /\ p = 0 /\ pc[p] = Net!nP /\ Is(p, "local", 0, "match", 0)
  <2>1. \A q, op, peer, n : ~ Is(p, op, peer, What(q), n)
    BY <1>1 DEF Is
  <2>2. At(p).what # ""
    OBVIOUS
  <2> QED
    BY <2>1, <2>2, AtCases, Zenon
<1> QED
  BY <1>2 DEF Is

\* Advancing makes the call of p at its position, and no other.
LEMMA AdvanceEffect ==
    ASSUME Positions, NEW p \in Party, round[p] <= Repeat, Advance(p)
    PROVE  /\ Positions'
           /\ \A x \in Party, i \in Nat \ {0} :
                 i <= Len(Script[x]) =>
                    Made(x, i)' = IF x = p /\ i = pc[p] THEN Made(x, i) + 1 ELSE Made(x, i)
           /\ \A x \in Party : x # p => round'[x] = round[x] /\ pc'[x] = pc[x]
           /\ pc[p] < Len(Script[p]) => round' = round /\ pc'[p] = pc[p] + 1
           /\ pc[p] = Len(Script[p]) => round'[p] = round[p] + 1 /\ pc'[p] = 1
<1>1. /\ Len(Script[p]) \in Nat \ {0} /\ pc[p] \in 1 .. Len(Script[p])
      /\ round[p] \in 1 .. Repeat /\ Repeat \in Nat
  BY ScriptLength, RouteAssumption DEF Positions
<1>2. pc' \in [Party -> Nat] /\ round' \in [Party -> 1 .. Repeat + 1]
  <2>1. pc[p] + 1 \in Nat /\ 1 \in Nat /\ round[p] + 1 \in 1 .. Repeat + 1
    BY <1>1
  <2>2. pc \in [Party -> Nat] /\ round \in [Party -> 1 .. Repeat + 1]
    BY DEF Positions
  <2>3. CASE pc[p] < Len(Script[p])
    <3>1. pc' = [pc EXCEPT ![p] = pc[p] + 1] /\ round' = round
      BY <2>3 DEF Advance
    <3> QED
      BY <2>1, <2>2, <3>1
  <2>4. CASE ~ pc[p] < Len(Script[p])
    <3>1. pc' = [pc EXCEPT ![p] = 1] /\ round' = [round EXCEPT ![p] = round[p] + 1]
      BY <2>4 DEF Advance
    <3> QED
      BY <2>1, <2>2, <3>1
  <2> QED
    BY <2>3, <2>4
<1>3. \A x \in Party : x # p => round'[x] = round[x] /\ pc'[x] = pc[x]
  BY DEF Advance, Positions
<1>4. pc[p] < Len(Script[p]) => round' = round /\ pc'[p] = pc[p] + 1
  BY DEF Advance, Positions
<1>5. pc[p] = Len(Script[p]) => round'[p] = round[p] + 1 /\ pc'[p] = 1
  BY <1>1 DEF Advance, Positions
<1>6. ASSUME NEW x \in Party
      PROVE  pc'[x] \in 1 .. Len(Script[x]) /\ (round'[x] = Repeat + 1 => pc'[x] = 1)
  <2>1. CASE x # p
    BY <1>3, <2>1 DEF Positions
  <2>2. CASE x = p
    BY <1>1, <1>4, <1>5, <2>2
  <2> QED
    BY <2>1, <2>2
<1>7. Positions'
  BY <1>2, <1>6 DEF Positions
<1>8. ASSUME NEW x \in Party, NEW i \in Nat \ {0}, i <= Len(Script[x])
      PROVE  Made(x, i)' = IF x = p /\ i = pc[p] THEN Made(x, i) + 1 ELSE Made(x, i)
  <2>1. CASE x # p
    BY <1>3, <2>1 DEF Made
  <2>2. CASE x = p
    BY <1>1, <1>4, <1>5, <1>8, <2>2 DEF Made
  <2> QED
    BY <2>1, <2>2
<1> QED
  BY <1>3, <1>4, <1>5, <1>7, <1>8

\* So the flows' counts change where p's call is, by one.
LEMMA CountsAfter ==
    ASSUME Positions, NEW p \in Party, round[p] <= Repeat, Advance(p),
           NEW x \in Peers, NEW y \in Party, Flow(x, y)
    PROVE  /\ SentTo(x, y)' = IF x = p /\ SendPos(x, y) = pc[p] THEN SentTo(x, y) + 1
                              ELSE SentTo(x, y)
           /\ ReadFrom(y, x)' = IF y = p /\ RecvPos(y, x) = pc[p] THEN ReadFrom(y, x) + 1
                                ELSE ReadFrom(y, x)
           /\ SentTo(x, y) \in Int /\ ReadFrom(y, x) \in Int
<1>1. x \in Party /\ Len(Script[x]) \in Nat /\ Len(Script[y]) \in Nat
  BY FlowEnds, ScriptLength
<1>2. SendPos(x, y) \in Nat \ {0} /\ SendPos(x, y) <= Len(Script[x])
  BY <1>1, ScriptSend
<1>3. RecvPos(y, x) \in Nat \ {0} /\ RecvPos(y, x) <= Len(Script[y])
  BY <1>1, ScriptRecv
<1>4. round[x] \in Int /\ round[y] \in Int
  BY <1>1, RouteAssumption DEF Positions
<1> QED
  BY <1>1, <1>2, <1>3, <1>4, AdvanceEffect DEF SentTo, ReadFrom, Made
-----------------------------------------------------------------------------
\* The link of a flow: written by one end and read by the other, and no other flow's.
LEMMA FlowLink ==
    ASSUME NEW p, NEW q, Flow(p, q)
    PROVE  /\ Net!SendLink(p, q) \in Net!Link /\ Net!RecvLink(q, p) = Net!SendLink(p, q)
           /\ \A x, y : Net!SendLink(x, y) = Net!SendLink(p, q) => x = p /\ y = q
<1>1. p \in Party /\ q \in Party /\ p \in Int /\ q \in Int /\ p # q /\ Net!Connected(p, q)
  BY FlowEnds DEF Flow
<1>2. Net!SendChannel(p, q) \in Net!Conn /\ Net!RecvChannel(q, p) = Net!SendChannel(p, q)
  BY DEF Net!SendChannel, Net!RecvChannel, Net!Conn
<1> QED
  BY <1>1, <1>2 DEF Net!SendLink, Net!RecvLink, Net!Link, Party

LEMMA QueueContents ==
    ASSUME NEW p, NEW q
    PROVE  /\ Net!Queue(p, q) = Contents(wire, out, Net!SendLink(p, q))
           /\ Net!Queue(p, q)' = Contents(wire', out', Net!SendLink(p, q))
BY DEF Net!Queue, Contents

\* The batches do not depend on what changes.
LEMMA BatchesKept ==
    ASSUME keys' = keys, routes' = routes
    PROVE  /\ Items' = Items
           /\ \A p, k : PRFArray(p, k)' = PRFArray(p, k)
           /\ \A p, q, k : Batch(p, q, k)' = Batch(p, q, k)
<1>1. \A p, k : PRFArray(p, k)' = PRFArray(p, k)
  BY DEF PRFArray, Element, Pair, Place, Block
<1>2. \A p, q, k : Batch(p, q, k)' = Batch(p, q, k)
  BY <1>1 DEF Batch, Element, Pair
<1>3. Items' = Items
  BY <1>2 DEF Items, Party, Peers
<1> QED
  BY <1>1, <1>2, <1>3

LEMMA BatchTyped ==
    ASSUME NEW p, NEW q, Flow(p, q), NEW k \in 1 .. Repeat
    PROVE  Batch(p, q, k) \in Seq(Items) /\ Len(Batch(p, q, k)) = Volume(p, q)
<1> DEFINE f == Batch(p, q, k)
           n == Volume(p, q)
<1>1. p \in Peers /\ q \in Party /\ n \in Nat
  BY FlowEnds, Volumes
<1>2. DOMAIN f = 1 .. n /\ f = [i \in 1 .. n |-> f[i]]
  <2>1. CASE q = 0
    <3> DEFINE g == PRFArray(p, k)
    <3>1. n = Len(Counterparts[p]) * VERTEX_NUM /\ f = g
      BY <2>1 DEF Volume, Batch
    <3>2. DOMAIN g = 1 .. n /\ g = [i \in 1 .. n |-> g[i]]
      BY <3>1 DEF PRFArray
    <3> QED
      BY <3>1, <3>2, Zenon
  <2>2. CASE q # 0
    <3> DEFINE e == Element(SelfKey, "key", k, Pair(p, q))
    <3>1. n = 1 /\ f = <<e>>
      BY <2>2 DEF Volume, Batch
    <3> HIDE DEF e, f, n
    <3> QED
      BY <3>1
  <2> QED
    BY <2>1, <2>2
<1>3. Range(f) \subseteq Items
  BY <1>1 DEF Items
<1> HIDE DEF f, n
<1>4. \A i \in 1 .. n : f[i] \in Items
  BY <1>2, <1>3 DEF Range
<1>5. f \in [1 .. n -> Items]
  BY <1>2, <1>4
<1>6. f \in Seq(Items) /\ Len(f) = n
  BY <1>1, <1>5, TableAppend
<1> QED
  BY <1>6 DEF f, n
-----------------------------------------------------------------------------
\* A call is on one flow only.
LEMMA CallOfFlow ==
    ASSUME NEW p, NEW q, Flow(p, q)
    PROVE  /\ Script[p][SendPos(p, q)].op = "send" /\ Script[p][SendPos(p, q)].peer = q
           /\ Script[q][RecvPos(q, p)].op = "recv" /\ Script[q][RecvPos(q, p)].peer = p
<1>1. q \in Party
  BY FlowEnds
<1>2. Script[p][SendPos(p, q)] = Step("send", q, What(q), Volume(p, q))
  BY ScriptSend
<1>3. Script[q][RecvPos(q, p)] = Step("recv", p, What(q), Volume(p, q))
  BY <1>1, ScriptRecv
<1> QED
  BY <1>2, <1>3 DEF Step

\* How one flow's invariant follows from the one before.
LEMMA FlowKept ==
    ASSUME keys' = keys, routes' = routes, NEW p, NEW q, FlowRight(p, q),
           Net!Queue(p, q)' = Net!Queue(p, q), SentTo(p, q)' = SentTo(p, q),
           ReadFrom(q, p)' = ReadFrom(q, p)
    PROVE  FlowRight(p, q)'
<1>1. Items' = Items /\ \A k : Batch(p, q, k)' = Batch(p, q, k)
  BY BatchesKept
<1>2. [k \in 1 .. Repeat |-> Batch(p, q, k)]' = [k \in 1 .. Repeat |-> Batch(p, q, k)]
  BY <1>1
<1> QED
  BY <1>1, <1>2 DEF FlowRight, Volume

\* A batch is sent.
LEMMA SendFlows ==
    ASSUME IInv, NEW p \in Party, DoSend(p)
    PROVE  Flows'
<1>1. At(p).op = "send"
  BY DEF DoSend
<1>2. PICK q \in Party :
         /\ round[p] \in 1 .. Repeat /\ At(p) = Script[p][pc[p]] /\ q = At(p).peer
         /\ Flow(p, q) /\ SendPos(p, q) = pc[p] /\ At(p).what = What(q)
  BY <1>1, AtSend, FlowEnds DEF IInv
<1>3. PICK data \in Seq(Items) : /\ data = Batch(p, q, round[p]) /\ Len(data) = Volume(p, q)
                                 /\ Volume(p, q) \in Nat
  BY <1>2, BatchTyped, Volumes
<1>4. Net!Send(p, q, data) /\ Advance(p) /\ keys' = keys /\ routes' = routes
  <2>1. data = IF At(p).what = "key" THEN <<Element(SelfKey, "key", round[p], Pair(p, q))>>
               ELSE PRFArray(p, round[p])
    BY <1>2, <1>3 DEF Batch, What
  <2> QED
    BY <1>2, <2>1 DEF DoSend, Advance
<1> DEFINE l == Net!SendLink(p, q)
<1>5. l \in Net!Link /\ \A x, y : Net!SendLink(x, y) = l => x = p /\ y = q
  BY <1>2, FlowLink
<1>6. p \in Peers /\ q \in Party /\ p # q
  BY <1>2, FlowEnds
<1>7. Buffered(Net!Link, Items, wire, out)
  BY DEF IInv, Flows
<1>8. /\ Buffered(Net!Link, Items, wire', out')
      /\ Contents(wire', out', l) = Contents(wire, out, l) \o data
      /\ \A m \in Net!Link : m # l => Contents(wire', out', m) = Contents(wire, out, m)
  <2> HIDE DEF l
  <2>1. PICK n \in Net!Written(out[l] \o data) :
              /\ wire' = [wire EXCEPT ![l] = @ \o SubSeq(out[l] \o data, 1, n)]
              /\ out' = [out EXCEPT ![l] = SubSeq(out[l] \o data, n + 1, Len(out[l] \o data))]
    BY <1>4 DEF Net!Send, l
  <2>2. out[l] \o data \in Seq(Items)
    BY <1>5, <1>7, ConcatProperties DEF Buffered
  <2>3. n \in 0 .. Len(out[l] \o data)
    <3>1. Len(out[l] \o data) \in Nat
      BY <2>2
    <3> QED
      BY <3>1, NetAssumption DEF Net!Written
  <2>4. /\ l \in Net!Link /\ data \in Seq(Items)
        /\ Appended(wire, out, l, data, n, wire', out')
    BY <1>5, <2>1 DEF Appended
  <2> QED
    BY ONLY <1>7, <2>3, <2>4, StreamAppend
<1>9. Items' = Items
  BY <1>4, BatchesKept
<1>10. ASSUME NEW x \in Peers, NEW y \in Party, Flow(x, y)
       PROVE  FlowRight(x, y)'
  <2>1. FlowRight(x, y)
    BY <1>10 DEF IInv, Flows
  <2>2. ReadFrom(y, x)' = ReadFrom(y, x)
    <3>1. y = p => RecvPos(y, x) # pc[p]
      BY <1>1, <1>2, <1>10, CallOfFlow
    <3> QED
      BY <1>2, <1>4, <1>10, <3>1, CountsAfter DEF IInv
  <2>3. CASE x = p /\ y = q
    <3> DEFINE A == [k \in 1 .. Repeat |-> Batch(p, q, k)]
               s == Net!Queue(p, q)
    <3>1. SentTo(p, q)' = SentTo(p, q) + 1 /\ SentTo(p, q) \in Int /\ ReadFrom(q, p) \in Int
      BY <1>2, <1>4, <1>6, CountsAfter DEF IInv
    <3>2. SentTo(p, q) + 1 = round[p]
      BY <1>2 DEF SentTo, Made, IInv, Positions
    <3>3. \A i \in 1 .. Volume(p, q) : data[i] = A[SentTo(p, q) + 1][i]
      BY <1>2, <1>3, <3>2
    <3>4. s' = s \o data
      BY <1>8, QueueContents
    <3>5. A' = A
      BY <1>4, BatchesKept
    <3>6. Batches(Items, s, Volume(p, q), ReadFrom(q, p), SentTo(p, q), A)
      BY <2>1, <2>3 DEF FlowRight
    <3>7. Batches(Items, s \o data, Volume(p, q), ReadFrom(q, p), SentTo(p, q) + 1, A)
      <4> HIDE DEF A, s
      <4> QED
        BY <1>3, <3>1, <3>3, <3>6, BatchAppend
    <3>8. Batches(Items', s', Volume(p, q), ReadFrom(q, p)', SentTo(p, q)', A')
      BY <1>9, <2>2, <2>3, <3>1, <3>4, <3>5, <3>7, Zenon
    <3> QED
      BY <2>3, <3>8 DEF FlowRight, Volume
  <2>4. CASE ~ (x = p /\ y = q)
    <3>1. Net!SendLink(x, y) \in Net!Link /\ Net!SendLink(x, y) # l
      BY <1>5, <1>10, <2>4, FlowLink
    <3>2. Net!Queue(x, y)' = Net!Queue(x, y)
      BY <1>8, <3>1, QueueContents
    <3>3. x = p => SendPos(x, y) # pc[p]
      BY <1>2, <1>10, <2>4, CallOfFlow
    <3>4. SentTo(x, y)' = SentTo(x, y)
      BY <1>2, <1>4, <1>10, <3>3, CountsAfter DEF IInv
    <3> QED
      BY <1>4, <2>1, <2>2, <3>2, <3>4, FlowKept
  <2> QED
    BY <2>3, <2>4
<1> QED
  BY <1>8, <1>9, <1>10 DEF Flows, Buffered

\* Buffered are flushed, and nothing else happens to them.
LEMMA FlushFlows ==
    ASSUME IInv, NEW L, Net!FlushLinks(L), keys' = keys, routes' = routes,
           round' = round, pc' = pc
    PROVE  Flows'
<1>1. Buffered(Net!Link, Items, wire, out)
  BY DEF IInv, Flows
<1>2. Flushed(Net!Link, wire, out, L, wire', out')
  BY DEF Net!FlushLinks, Flushed
<1>3. /\ Buffered(Net!Link, Items, wire', out')
      /\ \A m \in Net!Link : Contents(wire', out', m) = Contents(wire, out, m)
  BY ONLY <1>1, <1>2, StreamFlush
<1>4. Items' = Items
  BY BatchesKept
<1>5. ASSUME NEW x \in Peers, NEW y \in Party, Flow(x, y)
      PROVE  FlowRight(x, y)'
  <2>1. FlowRight(x, y)
    BY <1>5 DEF IInv, Flows
  <2>2. Net!Queue(x, y)' = Net!Queue(x, y)
    BY <1>3, <1>5, FlowLink, QueueContents
  <2>3. SentTo(x, y)' = SentTo(x, y) /\ ReadFrom(y, x)' = ReadFrom(y, x)
    BY DEF SentTo, ReadFrom, Made
  <2> QED
    BY <2>1, <2>2, <2>3, FlowKept
<1> QED
  BY <1>3, <1>4, <1>5 DEF Flows, Buffered
-----------------------------------------------------------------------------
\* What a blocked reader waits for: the next batch of the flow from the party its call names.
LEMMA Awaited ==
    ASSUME IInv, NEW p \in Party, waiting[p] # Net!Idle
    PROVE  /\ At(p).op = "recv" /\ round[p] \in 1 .. Repeat /\ At(p) = Script[p][pc[p]]
           /\ waiting[p].src = At(p).peer /\ waiting[p].n = Volume(At(p).peer, p)
           /\ At(p).n = Volume(At(p).peer, p) /\ At(p).what = What(p)
           /\ Flow(At(p).peer, p) /\ RecvPos(p, At(p).peer) = pc[p]
           /\ ReadFrom(p, At(p).peer) + 1 = round[p]
<1>1. At(p).op = "recv" /\ waiting[p] = [src |-> At(p).peer, n |-> At(p).n]
  BY DEF IInv, Waits
<1>2. /\ round[p] \in 1 .. Repeat /\ At(p) = Script[p][pc[p]]
      /\ Flow(At(p).peer, p) /\ RecvPos(p, At(p).peer) = pc[p]
      /\ At(p).what = What(p) /\ At(p).n = Volume(At(p).peer, p)
  BY <1>1, AtRecv DEF IInv
<1>3. pc[p] \in Nat
  BY DEF IInv, Positions
<1>4. ReadFrom(p, At(p).peer) + 1 = round[p]
  BY <1>2, <1>3 DEF ReadFrom, Made
<1> QED
  BY <1>1, <1>2, <1>4

\* recv returns: what was received is the reader's round's batch, and a batch is gone.
LEMMA ReadFlows ==
    ASSUME IInv, NEW p \in Party, NEW q \in Party, q = At(p).peer, At(p).op = "recv",
           Net!RecvReturn(p, q), Advance(p), routes' = routes
    PROVE  /\ Net!Received(p, q) = Batch(q, p, round[p]) /\ waiting[p] # Net!Idle
           /\ keys' = keys => Flows'
<1>1. waiting[p] # Net!Idle
  <2>1. waiting[p].src = q /\ q # -1
    BY Parties DEF Net!RecvReturn
  <2> QED
    BY <2>1 DEF Net!Idle
<1>2. /\ round[p] \in 1 .. Repeat /\ At(p) = Script[p][pc[p]]
      /\ waiting[p].src = q /\ waiting[p].n = Volume(q, p)
      /\ Flow(q, p) /\ RecvPos(p, q) = pc[p] /\ ReadFrom(p, q) + 1 = round[p]
  BY <1>1, Awaited
<1> DEFINE l == Net!SendLink(q, p)
           n == Volume(q, p)
           A == [k \in 1 .. Repeat |-> Batch(q, p, k)]
           s == Contents(wire, out, l)
<1>3. /\ l \in Net!Link /\ Net!RecvLink(p, q) = l
      /\ \A x, y : Net!SendLink(x, y) = l => x = q /\ y = p
  BY <1>2, FlowLink
<1>4. n \in Nat /\ q \in Peers /\ p # q
  BY <1>2, Volumes, FlowEnds
<1>5. Buffered(Net!Link, Items, wire, out) /\ ReadOff(wire, l, n, wire') /\ out' = out
  BY <1>2, <1>3 DEF IInv, Flows, Net!RecvReturn, ReadOff
<1>6. ReadFrom(p, q) \in Int /\ SentTo(q, p) \in Int
  BY <1>2, <1>4, CountsAfter DEF IInv
<1>7. Batches(Items, s, n, ReadFrom(p, q), SentTo(q, p), A)
  BY <1>2, <1>4, QueueContents DEF IInv, Flows, FlowRight
<1>8. /\ Buffered(Net!Link, Items, wire', out)
      /\ Contents(wire', out, l) = SubSeq(s, n + 1, Len(s))
      /\ \A m \in Net!Link : m # l => Contents(wire', out, m) = Contents(wire, out, m)
      /\ s \in Seq(Items) /\ n <= Len(s) /\ SubSeq(wire[l], 1, n) = SubSeq(s, 1, n)
  <2> HIDE DEF l, n
  <2> QED
    BY ONLY <1>3, <1>4, <1>5, StreamRead
<1>9. /\ SubSeq(s, 1, n) \in Seq(Items) /\ Len(SubSeq(s, 1, n)) = n
      /\ \A i \in 1 .. n : SubSeq(s, 1, n)[i] = A[ReadFrom(p, q) + 1][i]
      /\ Batches(Items, SubSeq(s, n + 1, Len(s)), n, ReadFrom(p, q) + 1, SentTo(q, p), A)
  <2> HIDE DEF s, n, A
  <2> QED
    BY <1>4, <1>6, <1>7, <1>8, BatchRead
<1>10. Net!Received(p, q) = Batch(q, p, round[p])
  <2> DEFINE got == Net!Received(p, q)
             batch == Batch(q, p, round[p])
  <2>1. got = SubSeq(s, 1, n)
    BY <1>2, <1>3, <1>8 DEF Net!Received
  <2>2. batch \in Seq(Items) /\ Len(batch) = n
    BY <1>2, BatchTyped
  <2>3. A[ReadFrom(p, q) + 1] = batch
    BY <1>2
  <2> HIDE DEF s, n, A, got, batch
  <2>4. \A i \in 1 .. n : got[i] = batch[i]
    BY <1>9, <2>1, <2>3
  <2>5. got = batch
    BY <1>9, <2>1, <2>2, <2>4, SeqEqual
  <2> QED
    BY <2>5 DEF got, batch
<1>11. ASSUME keys' = keys PROVE Flows'
  <2>1. Items' = Items
    BY <1>11, BatchesKept
  <2>2. ASSUME NEW x \in Peers, NEW y \in Party, Flow(x, y)
        PROVE  FlowRight(x, y)'
    <3>1. FlowRight(x, y)
      BY <2>2 DEF IInv, Flows
    <3>2. SentTo(x, y)' = SentTo(x, y)
      <4>1. x = p => SendPos(x, y) # pc[p]
        BY <1>2, <2>2, CallOfFlow
      <4> QED
        BY <1>2, <2>2, <4>1, CountsAfter DEF IInv
    <3>3. CASE x = q /\ y = p
      <4>1. ReadFrom(p, q)' = ReadFrom(p, q) + 1
        BY <1>2, <1>4, CountsAfter DEF IInv
      <4>2. Net!Queue(q, p)' = SubSeq(s, n + 1, Len(s))
        BY <1>5, <1>8, QueueContents
      <4>3. A' = A
        BY <1>11, BatchesKept
      <4>4. Batches(Items', Net!Queue(q, p)', n, ReadFrom(p, q)', SentTo(q, p)', A')
        <5> HIDE DEF A, n, s
        <5> QED
          BY <1>9, <2>1, <3>2, <3>3, <4>1, <4>2, <4>3, Zenon
      <4> QED
        BY <3>3, <4>4 DEF FlowRight, Volume
    <3>4. CASE ~ (x = q /\ y = p)
      <4>1. Net!SendLink(x, y) \in Net!Link /\ Net!SendLink(x, y) # l
        BY <1>3, <2>2, <3>4, FlowLink
      <4>2. Net!Queue(x, y)' = Net!Queue(x, y)
        BY <1>5, <1>8, <4>1, QueueContents
      <4>3. y = p => RecvPos(y, x) # pc[p]
        BY <1>2, <2>2, <3>4, CallOfFlow
      <4>4. ReadFrom(y, x)' = ReadFrom(y, x)
        BY <1>2, <2>2, <4>3, CountsAfter DEF IInv
      <4> QED
        BY <1>11, <3>1, <3>2, <4>2, <4>4, FlowKept
    <3> QED
      BY <3>3, <3>4
  <2> QED
    BY <1>5, <1>8, <2>1, <2>2 DEF Flows, Buffered
<1> QED
  BY <1>1, <1>10, <1>11
-----------------------------------------------------------------------------
(***************************************************************************)
(* The arrays.                                                             *)
(***************************************************************************)
\* Block j of p's array is p's route under the key of its counterpart of rank j.
LEMMA BlockOfArray ==
    ASSUME Settled, NEW p \in Peers, NEW k \in 1 .. Repeat,
           NEW j \in 1 .. Len(Counterparts[p])
    PROVE  LET b == SubSeq(PRFArray(p, k), (j - 1) * VERTEX_NUM + 1, j * VERTEX_NUM)
           IN  /\ b \in Seq(Items) /\ Len(b) = VERTEX_NUM
               /\ \A r \in 1 .. VERTEX_NUM :
                     b[r] = Element(<<{}, routes[k][p][r]>>, "prf", k, Pair(p, Counterparts[p][j]))
<1> DEFINE V == VERTEX_NUM
           c == Len(Counterparts[p])
           s == PRFArray(p, k)
           b == SubSeq(s, (j - 1) * V + 1, j * V)
           q == Counterparts[p][j]
<1>1. V \in Nat \ {0} /\ c \in Nat /\ j \in 1 .. c
  BY Parties, CounterpartTable
<1>2. s \in Seq(Items) /\ Len(s) = c * V
  <2>1. Flow(p, 0) /\ s = Batch(p, 0, k) /\ Volume(p, 0) = c * V
    BY FlowToSP DEF Batch, Volume
  <2> QED
    BY <2>1, BatchTyped
<1>3. q \in Range(Counterparts[p])
  BY CounterpartTable DEF Range
<1>4. keys[p][q] = {}
  BY <1>3 DEF Settled
<1>5. ASSUME NEW r \in 1 .. V
      PROVE  /\ (j - 1) * V + r \in 1 .. c * V
             /\ Block((j - 1) * V + r) = j /\ Place((j - 1) * V + r) = r
  <2>1. j - 1 \in Nat /\ j - 1 < c /\ V \in Nat /\ c \in Int /\ r - 1 \in 0 .. V - 1
    BY <1>1
  <2>2. (j - 1) * V + r \in 1 .. c * V
    BY <2>1, PlaceInBatch
  <2>3. /\ ((j - 1) * V + (r - 1)) \div V = j - 1
        /\ ((j - 1) * V + (r - 1)) % V = r - 1
    BY <1>1, <2>1, BatchAndPlace
  <2>4. ((j - 1) * V + r) - 1 = (j - 1) * V + (r - 1)
    BY <2>1
  <2>5. Block((j - 1) * V + r) = (j - 1) + 1 /\ Place((j - 1) * V + r) = (r - 1) + 1
    BY <2>3, <2>4, Zenon DEF Block, Place
  <2> QED
    BY <2>2, <2>5
<1>6. ASSUME NEW r \in 1 .. V
      PROVE  s[(j - 1) * V + r] = Element(<<{}, routes[k][p][r]>>, "prf", k, Pair(p, q))
  <2> DEFINE i == (j - 1) * V + r
  <2>1. i \in 1 .. c * V /\ Block(i) = j /\ Place(i) = r
    BY <1>5
  <2> HIDE DEF i
  <2>2. s[i] = Element(<<keys[p][Counterparts[p][Block(i)]], routes[k][p][Place(i)]>>, "prf", k,
                       Pair(p, Counterparts[p][Block(i)]))
    BY <2>1 DEF PRFArray
  <2>3. s[i] = Element(<<keys[p][q], routes[k][p][r]>>, "prf", k, Pair(p, q))
    BY <2>1, <2>2, Zenon
  <2> QED
    BY <1>4, <2>3, Zenon DEF i
<1> HIDE DEF s
<1>7. b \in Seq(Items) /\ Len(b) = V /\ \A r \in 1 .. V : b[r] = s[(j - 1) * V + r]
  <2> DEFINE x == (j - 1) * V
             y == c * V
  <2>1. x \in Nat /\ y \in Nat /\ x + V <= y /\ j * V = x + V
    <3> DEFINE z == j * V
    <3>1. x + V \in 1 .. y
      <4>1. V \in 1 .. V
        BY <1>1
      <4> QED
        BY <1>5, <4>1
    <3>2. z = x + V
      <4>1. ((j - 1) + 1) * V = (j - 1) * V + V /\ (j - 1) + 1 = j
        BY <1>1, TimesSuccessor
      <4> QED
        BY <4>1
    <3>3. 0 <= x
      <4>1. 0 * V <= (j - 1) * V /\ 0 * V = 0
        BY <1>1, TimesMonotonic
      <4> QED
        BY <4>1
    <3>4. x \in Int /\ y \in Int /\ V \in Nat
      BY <1>1
    <3> HIDE DEF x, y, z
    <3> QED
      BY <3>1, <3>2, <3>3, <3>4 DEF z
  <2> HIDE DEF x, y, V
  <2>2. b = SubSeq(s, x + 1, x + V) /\ Len(s) = y
    BY <1>2, <2>1, Zenon DEF x, y
  <2>3. b \in Seq(Items) /\ Len(b) = V /\ \A r \in 1 .. V : b[r] = s[x + r]
    BY <1>1, <1>2, <2>1, <2>2
  <2> QED
    BY <2>3 DEF x
<1>8. /\ b \in Seq(Items) /\ Len(b) = V
      /\ \A r \in 1 .. V : b[r] = Element(<<{}, routes[k][p][r]>>, "prf", k, Pair(p, q))
  BY <1>6, <1>7
<1> QED
  BY <1>8 DEF s

\* Once the SP has all arrays: the blocks of rider i and driver j.
LEMMA BlocksOfPair ==
    ASSUME IInv, round[0] \in 1 .. Repeat, pc[0] = Net!nP,
           NEW i \in 1 .. rider_count, NEW j \in 1 .. driver_count
    PROVE  LET k == round[0]
               tag == <<"prf", k, <<i, rider_count + j>>>>
           IN  /\ RiderBlock(i, j) \in Seq(Items) /\ Len(RiderBlock(i, j)) = VERTEX_NUM
               /\ DriverBlock(i, j) \in Seq(Items) /\ Len(DriverBlock(i, j)) = VERTEX_NUM
               /\ \A r \in 1 .. VERTEX_NUM :
                     /\ RiderBlock(i, j)[r].v = <<{}, routes[k][i][r]>>
                     /\ DriverBlock(i, j)[r].v = <<{}, routes[k][rider_count + j][r]>>
                     /\ RiderBlock(i, j)[r].tag = tag /\ DriverBlock(i, j)[r].tag = tag
<1> DEFINE k == round[0]
           d == rider_count + j
<1>1. /\ i \in Peers /\ d \in Peers /\ i <= rider_count /\ ~ d <= rider_count
      /\ i < d /\ ~ d < i /\ i \in Int /\ d \in Int
  BY Parties
<1>2. /\ j \in 1 .. Len(Counterparts[i]) /\ Counterparts[i][j] = d
      /\ i \in 1 .. Len(Counterparts[d]) /\ Counterparts[d][i] = i
  BY <1>1, CounterpartTable
<1>3. prf[i] = PRFArray(i, k) /\ prf[d] = PRFArray(d, k)
  BY <1>1, Parties DEF IInv, ArraysRead
<1>4. Pair(i, Counterparts[i][j]) = <<i, d>> /\ Pair(d, Counterparts[d][i]) = <<i, d>>
  BY <1>1, <1>2 DEF Pair
<1>5. k \in 1 .. Repeat /\ Settled
  BY DEF IInv
<1> HIDE DEF k, d
<1>6. /\ RiderBlock(i, j) \in Seq(Items) /\ Len(RiderBlock(i, j)) = VERTEX_NUM
      /\ \A r \in 1 .. VERTEX_NUM :
            /\ RiderBlock(i, j)[r].v = <<{}, routes[k][i][r]>>
            /\ RiderBlock(i, j)[r].tag = <<"prf", k, <<i, d>>>>
  <2> DEFINE b == SubSeq(PRFArray(i, k), (j - 1) * VERTEX_NUM + 1, j * VERTEX_NUM)
  <2>1. RiderBlock(i, j) = b
    BY <1>3 DEF RiderBlock
  <2>2. /\ b \in Seq(Items) /\ Len(b) = VERTEX_NUM
        /\ \A r \in 1 .. VERTEX_NUM :
              b[r] = Element(<<{}, routes[k][i][r]>>, "prf", k, Pair(i, Counterparts[i][j]))
    BY <1>1, <1>2, <1>5, BlockOfArray
  <2> HIDE DEF b
  <2> QED
    BY <1>4, <2>1, <2>2 DEF Element
<1>7. /\ DriverBlock(i, j) \in Seq(Items) /\ Len(DriverBlock(i, j)) = VERTEX_NUM
      /\ \A r \in 1 .. VERTEX_NUM :
            /\ DriverBlock(i, j)[r].v = <<{}, routes[k][d][r]>>
            /\ DriverBlock(i, j)[r].tag = <<"prf", k, <<i, d>>>>
  <2> DEFINE b == SubSeq(PRFArray(d, k), (i - 1) * VERTEX_NUM + 1, i * VERTEX_NUM)
  <2>1. DriverBlock(i, j) = b
    BY <1>3 DEF DriverBlock, d
  <2>2. /\ b \in Seq(Items) /\ Len(b) = VERTEX_NUM
        /\ \A r \in 1 .. VERTEX_NUM :
              b[r] = Element(<<{}, routes[k][d][r]>>, "prf", k, Pair(d, Counterparts[d][i]))
    BY <1>1, <1>2, <1>5, BlockOfArray
  <2> HIDE DEF b
  <2> QED
    BY <1>4, <2>1, <2>2 DEF Element
<1> QED
  BY <1>6, <1>7 DEF k, d

\* So what the SP counts is the pairs of equal elements of the two routes.
LEMMA CountOfPair ==
    ASSUME IInv, round[0] \in 1 .. Repeat, pc[0] = Net!nP,
           NEW i \in 1 .. rider_count, NEW j \in 1 .. driver_count
    PROVE  match_count(i, j) = Cardinality(EqualPairs(round[0], i, rider_count + j))
<1> DEFINE k == round[0]
           d == rider_count + j
           V == 1 .. VERTEX_NUM
<1>1. \A r \in V : /\ RiderBlock(i, j)[r].v = <<{}, routes[k][i][r]>>
                   /\ DriverBlock(i, j)[r].v = <<{}, routes[k][d][r]>>
  BY BlocksOfPair
<1>2. ASSUME NEW r \in V, NEW u \in V
      PROVE  RiderBlock(i, j)[r].v = DriverBlock(i, j)[u].v <=> routes[k][i][r] = routes[k][d][u]
  <2>1. \A a, b : <<{}, a>> = <<{}, b>> <=> a = b
    OBVIOUS
  <2>2. /\ RiderBlock(i, j)[r].v = <<{}, routes[k][i][r]>>
        /\ DriverBlock(i, j)[u].v = <<{}, routes[k][d][u]>>
    BY <1>1
  <2> QED
    BY <2>1, <2>2, Zenon
<1>3. {kl \in V \X V : RiderBlock(i, j)[kl[1]].v = DriverBlock(i, j)[kl[2]].v}
         = {kl \in V \X V : routes[k][i][kl[1]] = routes[k][d][kl[2]]}
  BY <1>2
<1> QED
  BY <1>3 DEF match_count, EqualPairs
-----------------------------------------------------------------------------
(***************************************************************************)
(* The invariant is inductive.                                             *)
(***************************************************************************)
LEMMA Initially == Init => IInv
<1> SUFFICES ASSUME Init PROVE IInv
  OBVIOUS
<1>1. Settled
  BY DEF Init, Settled
<1>2. Positions
  <2>1. 1 \in 1 .. Repeat + 1 /\ 1 # Repeat + 1 /\ 1 \in Nat
    BY RouteAssumption
  <2>2. \A p \in Party : 1 \in 1 .. Len(Script[p])
    BY ScriptLength
  <2> QED
    BY <2>1, <2>2 DEF Init, Positions
<1>3. Waits
  BY DEF Init, Net!Init, Waits, Net!Idle, Party
<1>4. Flows
  <2>1. out = [l \in Net!Link |-> <<>>] /\ wire = [l \in Net!Link |-> <<>>]
    BY DEF Init, Net!Init
  <2>2. Buffered(Net!Link, Items, wire, out)
    BY <2>1 DEF Buffered
  <2>3. ASSUME NEW p \in Peers, NEW q \in Party, Flow(p, q)
        PROVE  FlowRight(p, q)
    <3>1. Net!Queue(p, q) = <<>>
      <4>1. Net!SendLink(p, q) \in Net!Link
        BY <2>3, FlowLink
      <4> QED
        BY <2>1, <4>1 DEF Net!Queue
    <3>2. p \in Party /\ Len(Script[p]) \in Nat /\ Len(Script[q]) \in Nat
      BY <2>3, FlowEnds, ScriptLength
    <3>3. SentTo(p, q) = 0 /\ ReadFrom(q, p) = 0
      <4>1. SendPos(p, q) \in Nat \ {0} /\ RecvPos(q, p) \in Nat \ {0}
        BY <2>3, <3>2, ScriptSend, ScriptRecv
      <4>2. round[p] = 1 /\ round[q] = 1 /\ pc[p] = 1 /\ pc[q] = 1
        BY <3>2 DEF Init
      <4> QED
        BY <4>1, <4>2 DEF SentTo, ReadFrom, Made
    <3> DEFINE A == [k \in 1 .. Repeat |-> Batch(p, q, k)]
    <3> HIDE DEF A
    <3>4. Volume(p, q) \in Nat
      BY <2>3, Volumes
    <3>5. Batches(Items, <<>>, Volume(p, q), 0, 0, A)
      BY <3>4, NoBatch
    <3> QED
      BY <3>1, <3>3, <3>5 DEF FlowRight, A
  <2> QED
    BY <2>2, <2>3 DEF Flows
<1>5. ArraysRead
  <2>1. pc[0] = 1 /\ \A q \in Peers : ~ 1 > q
    BY Parties DEF Init
  <2>2. prf \in [Peers -> Seq(Items)]
    BY DEF Init
  <2> QED
    BY <2>1, <2>2 DEF ArraysRead
<1>6. Answers
  <2>1. round[0] = 1 /\ match = <<>>
    BY Parties DEF Init
  <2> QED
    BY <2>1 DEF Answers
<1> QED
  BY <1>1, <1>2, <1>3, <1>4, <1>5, <1>6 DEF IInv

\* The parts of the invariant that a step leaves alone.
LEMMA SettledKept ==
    ASSUME Settled, UNCHANGED <<version, document, routes, keys>>
    PROVE  Settled'
BY DEF Settled, Routes

LEMMA AtKept ==
    ASSUME NEW p, round'[p] = round[p], pc'[p] = pc[p]
    PROVE  At(p)' = At(p)
BY DEF At

LEMMA WaitsKept ==
    ASSUME Waits, NEW p \in Party, waiting' = waiting, waiting[p] = Net!Idle,
           \A x \in Party : x # p => round'[x] = round[x] /\ pc'[x] = pc[x]
    PROVE  Waits'
<1>1. ASSUME NEW x \in Party, waiting[x] # Net!Idle
      PROVE  At(x)' = At(x)
  BY <1>1, AtKept
<1> QED
  BY <1>1 DEF Waits

LEMMA ArraysReadKept ==
    ASSUME ArraysRead, UNCHANGED <<prf, routes, keys>>, round'[0] = round[0], pc'[0] = pc[0]
    PROVE  ArraysRead'
<1>1. PICK k : k = round[0]
  OBVIOUS
<1>2. Items' = Items /\ \A q : PRFArray(q, k)' = PRFArray(q, k)
  BY BatchesKept
<1>3. \A q : PRFArray(q, round[0])' = PRFArray(q, k)'
  BY <1>1 DEF PRFArray, Element, Pair, Place, Block
<1> QED
  BY <1>1, <1>2, <1>3 DEF ArraysRead

LEMMA AnswersKept ==
    ASSUME Answers, UNCHANGED <<match, routes, version>>, round'[0] = round[0]
    PROVE  Answers'
BY DEF Answers, EqualPairs, Enough

LEMMA SendStep ==
    ASSUME IInv, NEW p \in Party, DoSend(p)
    PROVE  IInv'
<1>1. /\ UNCHANGED <<version, document, routes, keys, prf, match, waiting>>
      /\ Advance(p) /\ waiting[p] = Net!Idle /\ At(p).op = "send"
  BY DEF DoSend, Advance, Net!Send, Net!Running
<1>2. round[p] \in 1 .. Repeat /\ p # 0
  BY <1>1, AtSend, FlowEnds DEF IInv
<1>3. /\ Positions'
      /\ \A x \in Party : x # p => round'[x] = round[x] /\ pc'[x] = pc[x]
  BY <1>1, <1>2, AdvanceEffect DEF IInv
<1>4. round'[0] = round[0] /\ pc'[0] = pc[0]
  BY <1>2, <1>3, SPScript
<1>5. Settled' /\ Waits' /\ ArraysRead' /\ Answers'
  BY <1>1, <1>3, <1>4, SettledKept, WaitsKept, ArraysReadKept, AnswersKept DEF IInv
<1>6. Flows'
  BY SendFlows
<1> QED
  BY <1>3, <1>5, <1>6 DEF IInv

LEMMA CallStep ==
    ASSUME IInv, NEW p \in Party, CallRecv(p)
    PROVE  IInv'
<1>1. /\ UNCHANGED <<version, document, routes, round, pc, keys, prf, match>>
      /\ At(p).op = "recv"
      /\ waiting' = [waiting EXCEPT ![p] = [src |-> At(p).peer, n |-> At(p).n]]
      /\ \E L : Net!FlushLinks(L)
  BY DEF CallRecv, Net!RecvCall
<1>2. Positions'
  BY <1>1 DEF IInv, Positions
<1>3. \A x : At(x)' = At(x)
  BY <1>1, AtKept
<1>4. Waits'
  <2>1. At(p).peer \in Party /\ At(p).n \in Nat
    BY <1>1, AtRecv, FlowEnds, Volumes DEF IInv
  <2>2. waiting' \in [Party -> [src : Party \cup {-1}, n : Nat]]
    BY <1>1, <2>1 DEF IInv, Waits
  <2>3. ASSUME NEW x \in Party, waiting'[x] # Net!Idle
        PROVE  At(x).op = "recv" /\ waiting'[x] = [src |-> At(x).peer, n |-> At(x).n]
    BY <1>1, <2>3 DEF IInv, Waits
  <2> QED
    BY <1>3, <2>2, <2>3 DEF Waits
<1>5. Settled' /\ ArraysRead' /\ Answers'
  BY <1>1, SettledKept, ArraysReadKept, AnswersKept DEF IInv
<1>6. Flows'
  BY <1>1, FlushFlows
<1> QED
  BY <1>2, <1>4, <1>5, <1>6 DEF IInv

LEMMA CloseStep ==
    ASSUME IInv, NEW p \in Party, Close(p)
    PROVE  IInv'
<1>1. /\ UNCHANGED <<version, document, routes, round, pc, keys, prf, match, waiting>>
      /\ waiting[p] = Net!Idle /\ \E L : Net!FlushLinks(L)
  BY DEF Close, Net!Close, Net!Running
<1>2. Positions'
  BY <1>1 DEF IInv, Positions
<1>3. Settled' /\ Waits' /\ ArraysRead' /\ Answers'
  BY <1>1, SettledKept, WaitsKept, ArraysReadKept, AnswersKept DEF IInv
<1>4. Flows'
  BY <1>1, FlushFlows
<1> QED
  BY <1>2, <1>3, <1>4 DEF IInv

\* A key was received: it is the sender's own key and the shared key stays what it was.
LEMMA KeyStep ==
    ASSUME IInv, NEW p \in Party, NEW q \in Party, q = At(p).peer, At(p).op = "recv", p # 0,
           Net!Received(p, q) = Batch(q, p, round[p]),
           keys' = [keys EXCEPT ![p][q] = Xor(SelfKey, Net!Received(p, q)[1].v)]
    PROVE  keys' = keys
<1>1. Flow(q, p)
  BY AtRecv DEF IInv
<1>2. p \in Peers /\ q \in Peers
  BY <1>1, FlowEnds
<1>3. Flow(p, q)
  BY <1>1, <1>2, FlowRank
<1>4. Net!Received(p, q)[1] = Element(SelfKey, "key", round[p], Pair(q, p))
  BY DEF Batch
<1>5. Xor(SelfKey, Net!Received(p, q)[1].v) = {}
  BY <1>4 DEF Element, Xor
<1>6. q \in Range(Counterparts[p])
  BY <1>2, <1>3, FlowRank
<1>7. keys = [x \in Peers |-> [y \in Range(Counterparts[x]) |-> {}]]
  BY DEF IInv, Settled
<1>8. keys' = [keys EXCEPT ![p] = [keys[p] EXCEPT ![q] = {}]]
  BY <1>5
<1>9. [keys[p] EXCEPT ![q] = {}] = keys[p]
  <2>1. keys[p] = [y \in Range(Counterparts[p]) |-> {}]
    BY <1>2, <1>7
  <2> QED
    BY <1>6, <2>1
<1>10. keys' = [keys EXCEPT ![p] = keys[p]]
  BY <1>8, <1>9
<1> QED
  BY <1>7, <1>10

LEMMA EndStep ==
    ASSUME IInv, NEW p \in Party, EndRecv(p)
    PROVE  IInv'
<1>1. /\ UNCHANGED <<version, document, routes, match>> /\ At(p).op = "recv" /\ Advance(p)
      /\ Net!RecvReturn(p, At(p).peer)
  BY DEF EndRecv, Advance
<1>2. PICK q \in Party : /\ q = At(p).peer /\ Flow(q, p) /\ RecvPos(p, q) = pc[p]
                         /\ round[p] \in 1 .. Repeat /\ At(p).what = What(p)
  BY <1>1, AtRecv, FlowEnds DEF IInv
<1>3. Net!Received(p, q) = Batch(q, p, round[p]) /\ (keys' = keys => Flows')
  BY <1>1, <1>2, ReadFlows
<1>4. /\ p # 0 => /\ keys' = [keys EXCEPT ![p][q] = Xor(SelfKey, Net!Received(p, q)[1].v)]
                  /\ prf' = prf
      /\ p = 0 => prf' = [prf EXCEPT ![q] = Net!Received(p, q)] /\ keys' = keys
  BY <1>2 DEF EndRecv, What
<1>5. keys' = keys
  BY <1>1, <1>2, <1>3, <1>4, KeyStep
<1>6. /\ Positions'
      /\ \A x \in Party : x # p => round'[x] = round[x] /\ pc'[x] = pc[x]
      /\ pc[p] < Len(Script[p]) => round' = round /\ pc'[p] = pc[p] + 1
  BY <1>1, <1>2, AdvanceEffect DEF IInv
<1>7. Settled' /\ Flows'
  BY <1>1, <1>3, <1>5, SettledKept DEF IInv
<1>8. Waits'
  <2>1. waiting' = [waiting EXCEPT ![p] = Net!Idle]
    BY <1>1 DEF Net!RecvReturn
  <2>2. waiting' \in [Party -> [src : Party \cup {-1}, n : Nat]] /\ waiting'[p] = Net!Idle
    BY <2>1 DEF IInv, Waits, Net!Idle
  <2>3. ASSUME NEW x \in Party, waiting'[x] # Net!Idle
        PROVE  At(x)' = At(x) /\ waiting'[x] = waiting[x] /\ waiting[x] # Net!Idle
    <3>1. x # p
      BY <2>2, <2>3
    <3> QED
      BY <1>6, <2>1, <2>3, <3>1, AtKept DEF IInv, Waits
  <2> QED
    BY <2>2, <2>3 DEF IInv, Waits
<1>9. CASE p # 0
  <2>1. round'[0] = round[0] /\ pc'[0] = pc[0]
    BY <1>6, <1>9, SPScript
  <2>2. ArraysRead' /\ Answers'
    BY <1>1, <1>4, <1>5, <1>9, <2>1, ArraysReadKept, AnswersKept DEF IInv
  <2> QED
    BY <1>6, <1>7, <1>8, <2>2 DEF IInv
<1>10. CASE p = 0
  <2>1. q \in Peers /\ pc[0] = q /\ q < Len(Script[0])
    <3>1. q \in Peers
      BY <1>2, FlowEnds
    <3> QED
      BY <1>2, <1>10, <3>1, SPScript, Parties DEF RecvPos
  <2>2. round' = round /\ pc'[0] = q + 1
    BY <1>6, <1>10, <2>1
  <2>3. PICK k : k = round[0]
    OBVIOUS
  <2>4. Net!Received(p, q) = PRFArray(q, k)
    BY <1>3, <1>10, <2>3 DEF Batch
  <2>5. PRFArray(q, k) \in Seq(Items)
    BY <1>2, <1>3, <1>10, <2>3, <2>4, BatchTyped
  <2>6. Items' = Items /\ \A x : PRFArray(x, k)' = PRFArray(x, k)
    BY <1>1, <1>5, BatchesKept
  <2>7. prf' = [prf EXCEPT ![q] = PRFArray(q, k)]
    BY <1>4, <1>10, <2>4
  <2>8. prf' \in [Peers -> Seq(Items')]
    BY <2>5, <2>6, <2>7 DEF IInv, ArraysRead
  <2>9. ASSUME NEW x \in Peers, pc'[0] > x
        PROVE  prf'[x] = PRFArray(x, k)
    <3>1. x = q \/ q > x
      BY <2>1, <2>2, <2>9, Parties
    <3>2. prf \in [Peers -> Seq(Items)]
      BY DEF IInv, ArraysRead
    <3>3. CASE x = q
      BY <2>1, <2>7, <3>2, <3>3
    <3>4. CASE x # q
      <4>1. pc[0] > x /\ round[0] <= Repeat
        BY <1>2, <1>10, <2>1, <3>1, <3>4
      <4>2. prf[x] = PRFArray(x, k)
        BY <2>3, <4>1 DEF IInv, ArraysRead
      <4> QED
        BY <2>7, <3>2, <3>4, <4>2
    <3> QED
      BY <3>3, <3>4
  <2>10. round'[0] = k
    BY <2>2, <2>3
  <2>11. \A x : PRFArray(x, round[0])' = PRFArray(x, k)'
    BY <2>10 DEF PRFArray, Element, Pair, Place, Block
  <2>12. ArraysRead'
    BY <2>6, <2>8, <2>9, <2>11 DEF ArraysRead
  <2>13. Answers'
    BY <1>1, <2>2, AnswersKept DEF IInv
  <2> QED
    BY <1>6, <1>7, <1>8, <2>12, <2>13 DEF IInv
<1> QED
  BY <1>9, <1>10

LEMMA ConcludeStep ==
    ASSUME IInv, NEW p \in Party, Conclude(p)
    PROVE  IInv'
<1>1. /\ UNCHANGED <<version, document, routes, keys, prf, wire, out, waiting>>
      /\ At(p).what = "match" /\ Advance(p)
      /\ match' = Append(match, [i \in 1 .. rider_count |->
                                   [j \in 1 .. driver_count |-> Enough(match_count(i, j))]])
  BY DEF Conclude, Advance, netVars
<1>2. p = 0 /\ round[0] \in 1 .. Repeat /\ pc[0] = Net!nP /\ At(0).op = "local"
  BY <1>1, AtMatch DEF IInv
<1>3. /\ Positions'
      /\ \A x \in Party : x # p => round'[x] = round[x] /\ pc'[x] = pc[x]
      /\ round'[0] = round[0] + 1 /\ pc'[0] = 1
  BY <1>1, <1>2, SPScript, AdvanceEffect DEF IInv
<1>4. waiting[p] = Net!Idle
  BY <1>2 DEF IInv, Waits
<1>5. Settled' /\ Waits'
  BY <1>1, <1>3, <1>4, SettledKept, WaitsKept DEF IInv
<1>6. Flows'
  <2>1. Items' = Items
    BY <1>1, BatchesKept
  <2>2. ASSUME NEW x \in Peers, NEW y \in Party, Flow(x, y)
        PROVE  FlowRight(x, y)'
    <3>1. FlowRight(x, y)
      BY <2>2 DEF IInv, Flows
    <3>2. Net!Queue(x, y)' = Net!Queue(x, y)
      BY <1>1, QueueContents
    <3>3. x # 0 /\ (y = 0 => RecvPos(y, x) # pc[0])
      <4>1. x # 0
        BY <2>2, FlowEnds
      <4>2. x \in Peers /\ Net!nP \notin Peers
        BY Parties
      <4> QED
        BY <1>2, <4>1, <4>2 DEF RecvPos
    <3>4. SentTo(x, y)' = SentTo(x, y) /\ ReadFrom(y, x)' = ReadFrom(y, x)
      BY <1>1, <1>2, <2>2, <3>3, CountsAfter DEF IInv
    <3> QED
      BY <1>1, <3>1, <3>2, <3>4, FlowKept
  <2> QED
    BY <1>1, <2>1, <2>2 DEF IInv, Flows, Buffered
<1>7. ArraysRead'
  <2>1. Items' = Items
    BY <1>1, BatchesKept
  <2>2. \A q \in Peers : ~ 1 > q
    BY Parties
  <2> QED
    BY <1>1, <1>3, <2>1, <2>2 DEF IInv, ArraysRead
<1>8. Answers'
  <2> DEFINE Answer == [i \in 1 .. rider_count |->
                          [j \in 1 .. driver_count |-> Enough(match_count(i, j))]]
             A == [1 .. rider_count -> [1 .. driver_count -> BOOLEAN]]
  <2>1. PICK answer \in A : answer = Answer
    <3>1. \A n \in Nat : Enough(n) \in BOOLEAN
      <4>1. version \in 1 .. 4
        BY VersionAssumption DEF IInv, Settled
      <4>2. Threshold[4] \in Nat /\ Threshold[version] \in Nat
        BY <4>1, VersionAssumption
      <4>3. ASSUME NEW n \in Nat
            PROVE  (n > Threshold[4]) \in BOOLEAN /\ (n >= Threshold[version]) \in BOOLEAN
        BY ONLY <4>2
      <4> QED
        BY ONLY <4>3, Zenon DEF Enough
    <3>3. \A i, j : match_count(i, j) \in Nat
      BY PairsFinite DEF match_count
    <3>2. Answer \in A
      BY <3>1, <3>3
    <3> QED
      BY <3>2
  <2>2. PICK k \in 1 .. Repeat : k = round[0]
    BY <1>2
  <2>3. ASSUME NEW i \in 1 .. rider_count, NEW j \in 1 .. driver_count
        PROVE  answer[i][j] = Enough(Cardinality(EqualPairs(k, i, rider_count + j)))
    <3>1. match_count(i, j) = Cardinality(EqualPairs(k, i, rider_count + j))
      BY <1>2, <2>2, CountOfPair
    <3>2. answer[i][j] = Enough(match_count(i, j))
      BY <2>1
    <3> QED
      BY <3>1, <3>2, Zenon
  <2>4. match' = Append(match, answer)
    BY <1>1, <2>1
  <2>5. match \in Seq(A) /\ Len(match) = k - 1
    BY <2>2 DEF IInv, Answers
  <2> HIDE DEF A, Answer
  <2>6. /\ match' \in Seq(A) /\ Len(match') = k /\ match'[k] = answer
        /\ \A m \in 1 .. k - 1 : match'[m] = match[m]
    <3>1. k = Len(match) + 1
      BY <2>5
    <3> QED
      BY <2>1, <2>4, <2>5, <3>1, AppendProperties
  <2>7. (\A n : Enough(n)' = Enough(n)) /\ \A m, x, y : EqualPairs(m, x, y)' = EqualPairs(m, x, y)
    BY <1>1 DEF Enough, EqualPairs
  <2>8. ASSUME NEW m \in 1 .. k, NEW i \in 1 .. rider_count, NEW j \in 1 .. driver_count
        PROVE  match'[m][i][j] = Enough(Cardinality(EqualPairs(m, i, rider_count + j)))
    <3>1. CASE m = k
      BY <2>3, <2>6, <3>1
    <3>2. CASE m # k
      <4>1. m \in 1 .. round[0] - 1 /\ match'[m] = match[m]
        BY <2>2, <2>6, <3>2
      <4>2. match[m][i][j] = Enough(Cardinality(EqualPairs(m, i, rider_count + j)))
        BY <4>1 DEF IInv, Answers
      <4> QED
        BY <4>1, <4>2, Zenon
    <3> QED
      BY <3>1, <3>2
  <2>9. round'[0] - 1 = k
    BY <1>3, <2>2
  <2>10. ASSUME NEW m \in 1 .. k, NEW i \in 1 .. rider_count, NEW j \in 1 .. driver_count
         PROVE  match'[m][i][j] = Enough(Cardinality(EqualPairs(m, i, rider_count + j)))'
    <3>1. Enough(Cardinality(EqualPairs(m, i, rider_count + j)))'
             = Enough(Cardinality(EqualPairs(m, i, rider_count + j)))
      BY <1>1 DEF Enough, EqualPairs
    <3> QED
      BY <2>8, <3>1, Zenon
  <2> QED
    BY <2>6, <2>9, <2>10 DEF Answers, A
<1> QED
  BY <1>3, <1>5, <1>6, <1>7, <1>8 DEF IInv

LEMMA Inductive == IInv /\ [Next]_vars => IInv'
<1> SUFFICES ASSUME IInv, [Next]_vars PROVE IInv'
  OBVIOUS
<1>1. ASSUME NEW p \in Party, PartyNext(p) PROVE IInv'
  BY <1>1, SendStep, CallStep, EndStep, ConcludeStep, CloseStep DEF PartyNext
<1>2. CASE UNCHANGED vars
  <2>1. UNCHANGED <<out, wire, waiting, version, document, routes, round, pc, keys, prf, match>>
    BY <1>2 DEF vars
  <2>2. Settled' /\ ArraysRead' /\ Answers'
    BY <2>1, SettledKept, ArraysReadKept, AnswersKept DEF IInv
  <2>3. Positions'
    BY <2>1 DEF IInv, Positions
  <2>4. Waits'
    <3>1. \A x : At(x)' = At(x)
      BY <2>1, AtKept
    <3> QED
      BY <2>1, <3>1 DEF IInv, Waits
  <2>5. Flows'
    <3>1. Items' = Items
      BY <2>1, BatchesKept
    <3>2. ASSUME NEW x \in Peers, NEW y \in Party, Flow(x, y)
          PROVE  FlowRight(x, y)'
      <4>1. FlowRight(x, y)
        BY <3>2 DEF IInv, Flows
      <4>2. Net!Queue(x, y)' = Net!Queue(x, y)
        BY <2>1, QueueContents
      <4>3. SentTo(x, y)' = SentTo(x, y) /\ ReadFrom(y, x)' = ReadFrom(y, x)
        BY <2>1 DEF SentTo, ReadFrom, Made
      <4> QED
        BY <2>1, <4>1, <4>2, <4>3, FlowKept
    <3> QED
      BY <2>1, <3>1, <3>2 DEF IInv, Flows, Buffered
  <2> QED
    BY <2>2, <2>3, <2>4, <2>5 DEF IInv
<1> QED
  BY <1>1, <1>2 DEF Next

LEMMA Invariant == Spec => []IInv
BY Initially, Inductive, PTL DEF Spec
-----------------------------------------------------------------------------
\* The streams are unframed and the riders and drivers may be whole rounds ahead of the
\* SP: whatever is queued for a blocked reader is nevertheless the key, or the blocks in
\* the counterparts' order, of the round the reader is in (send and recv of
\* processIntersectionMatching).
THEOREM LockstepHolds == Spec => []Lockstep
<1>1. IInv => Lockstep
  <2> SUFFICES ASSUME IInv, NEW p \in Party, waiting[p] # Net!Idle
               PROVE  InStep(p, At(p), Net!Queue(waiting[p].src, p))
    BY DEF Lockstep
  <2>1. PICK q : q = At(p).peer
    OBVIOUS
  <2>2. /\ round[p] \in 1 .. Repeat /\ waiting[p].src = q /\ At(p).n = Volume(q, p)
        /\ At(p).what = What(p) /\ Flow(q, p) /\ ReadFrom(p, q) + 1 = round[p]
    BY <2>1, Awaited
  <2>3. q \in Peers /\ q \in Int /\ p \in Int /\ Volume(q, p) \in Nat
    BY <2>2, FlowEnds, Volumes
  <2> DEFINE s == Net!Queue(q, p)
             n == Volume(q, p)
             A == [k \in 1 .. Repeat |-> Batch(q, p, k)]
             b == SentTo(q, p)
             a == ReadFrom(p, q)
  <2>4. Batches(Items, s, n, a, b, A)
    BY <2>2, <2>3 DEF IInv, Flows, FlowRight
  <2>5. a \in Int /\ b \in Int
    <3>1. q \in Party /\ round[p] \in Int /\ round[q] \in Int
      BY <2>2, FlowEnds, RouteAssumption DEF IInv, Positions
    <3> QED
      BY <3>1 DEF SentTo, ReadFrom, Made
  <2>6. ASSUME NEW i \in DOMAIN s, i <= n
        PROVE  s[i].tag = Expected(p, At(p), i)
    <3>1. s \in Seq(Items) /\ i \in 1 .. n /\ i <= Len(s) /\ Len(s) = (b - a) * n
      BY <2>3, <2>6, <2>4 DEF Batches
    <3>2. n <= Len(s)
      <4>1. CASE b - a >= 1
        <5>1. 1 * n <= (b - a) * n /\ 1 * n = n
          BY <2>3, <2>5, <4>1, TimesMonotonic
        <5> QED
          BY <3>1, <5>1
      <4>2. CASE b - a <= 0
        <5>1. (b - a) * n <= 0 * n /\ 0 * n = 0
          BY <2>3, <2>5, <4>2, TimesMonotonic
        <5> QED
          BY <3>1, <5>1
      <4> QED
        BY <2>5, <4>1, <4>2
    <3>8. n \in Nat
      BY <2>3
    <3>3. /\ SubSeq(s, 1, n) \in Seq(Items) /\ Len(SubSeq(s, 1, n)) = n
          /\ \A x \in 1 .. n : SubSeq(s, 1, n)[x] = A[a + 1][x]
          /\ Batches(Items, SubSeq(s, n + 1, Len(s)), n, a + 1, b, A)
      <4> HIDE DEF s, n, A, a, b
      <4> QED
        BY <2>4, <2>5, <3>2, <3>8, BatchRead
    <3>4. SubSeq(s, 1, n)[i] = s[i]
      <4> HIDE DEF s, n
      <4> QED
        BY <3>1, <3>2, <3>8
    <3>5. s[i] = Batch(q, p, round[p])[i]
      BY <2>2, <3>1, <3>3, <3>4
    <3>6. CASE p = 0
      <4>1. s[i] = PRFArray(q, round[p])[i] /\ i \in 1 .. Len(Counterparts[q]) * VERTEX_NUM
        BY <3>1, <3>5, <3>6 DEF Batch, Volume
      <4>2. s[i].tag = <<"prf", round[p], Pair(q, Counterparts[q][Block(i)])>>
        BY <4>1 DEF PRFArray, Element
      <4>3. Expected(p, At(p), i) = <<"prf", round[p], Pair(q, Counterparts[q][Block(i)])>>
        BY <2>1, <2>2, <3>6 DEF Expected, What
      <4> QED
        BY <4>2, <4>3, Zenon
    <3>7. CASE p # 0
      <4>1. i = 1 /\ s[i] = Element(SelfKey, "key", round[p], Pair(q, p))
        BY <3>1, <3>5, <3>7 DEF Batch, Volume
      <4>2. Pair(q, p) = Pair(p, q)
        BY <2>3 DEF Pair
      <4>3. s[i].tag = <<"key", round[p], Pair(p, q)>>
        BY <4>1, <4>2 DEF Element
      <4>4. Expected(p, At(p), i) = <<"key", round[p], Pair(p, q)>>
        BY <2>1, <2>2, <3>7 DEF Expected, What
      <4> QED
        BY <4>3, <4>4, Zenon
    <3> QED
      BY <3>6, <3>7
  <2> QED
    BY <2>2, <2>6 DEF InStep
<1> QED
  BY <1>1, Invariant, PTL

\* For every rider and driver the SP compares the values each computed for the other, in
\* the same round (r_index and d_index of processIntersectionMatching).
THEOREM BlocksAlignedHolds == Spec => []BlocksAligned
<1>1. IInv => BlocksAligned
  <2> SUFFICES ASSUME IInv, At(0).what = "match",
                      NEW i \in 1 .. rider_count, NEW j \in 1 .. driver_count,
                      NEW e \in Range(RiderBlock(i, j)) \cup Range(DriverBlock(i, j))
               PROVE  e.tag = <<"prf", round[0], <<i, rider_count + j>>>>
    BY DEF BlocksAligned
  <2>1. round[0] \in 1 .. Repeat /\ pc[0] = Net!nP
    BY SPScript, AtMatch DEF IInv
  <2>2. /\ RiderBlock(i, j) \in Seq(Items) /\ Len(RiderBlock(i, j)) = VERTEX_NUM
        /\ DriverBlock(i, j) \in Seq(Items) /\ Len(DriverBlock(i, j)) = VERTEX_NUM
        /\ \A r \in 1 .. VERTEX_NUM :
              /\ RiderBlock(i, j)[r].tag = <<"prf", round[0], <<i, rider_count + j>>>>
              /\ DriverBlock(i, j)[r].tag = <<"prf", round[0], <<i, rider_count + j>>>>
    BY <2>1, BlocksOfPair
  <2>3. PICK r \in 1 .. VERTEX_NUM : e = RiderBlock(i, j)[r] \/ e = DriverBlock(i, j)[r]
    BY <2>2 DEF Range
  <2> QED
    BY <2>2, <2>3
<1> QED
  BY <1>1, Invariant, PTL
-----------------------------------------------------------------------------
\* The SP counts pairs of equal elements.  Where no element of a route is repeated, these
\* are as many as the elements both routes have.
LEMMA PairsOfCommon ==
    ASSUME NEW f, NEW g, DOMAIN f = 1 .. VERTEX_NUM, DOMAIN g = 1 .. VERTEX_NUM,
           IsInjective(f), IsInjective(g)
    PROVE  Cardinality({kl \in (1 .. VERTEX_NUM) \X (1 .. VERTEX_NUM) : f[kl[1]] = g[kl[2]]})
           = Cardinality(Range(f) \cap Range(g))
<1> DEFINE I == 1 .. VERTEX_NUM
           S == {kl \in I \X I : f[kl[1]] = g[kl[2]]}
           T == Range(f) \cap Range(g)
           h == [kl \in S |-> f[kl[1]]]
<1>1. \A a, b \in I : (f[a] = f[b] => a = b) /\ (g[a] = g[b] => a = b)
  BY DEF IsInjective
<1>2. \A kl \in S : kl = <<kl[1], kl[2]>> /\ kl[1] \in I /\ kl[2] \in I /\ f[kl[1]] = g[kl[2]]
  OBVIOUS
<1>3. h \in [S -> T]
  BY <1>2 DEF Range
<1>4. ASSUME NEW x \in S, NEW y \in S, h[x] = h[y]
      PROVE  x = y
  <2>1. f[x[1]] = f[y[1]] /\ g[x[2]] = g[y[2]]
    BY <1>2, <1>4
  <2> QED
    BY <1>1, <1>2, <2>1
<1>5. ASSUME NEW t \in T
      PROVE  \E x \in S : h[x] = t
  <2>1. PICK a \in I, b \in I : f[a] = t /\ g[b] = t
    BY DEF Range
  <2>2. <<a, b>> \in S
    BY <2>1
  <2> QED
    BY <2>1, <2>2
<1>6. h \in Bijection(S, T)
  BY <1>3, <1>4, <1>5 DEF Bijection, Injection, Surjection, IsInjective
<1>7. IsFiniteSet(S)
  BY PairsFinite
<1> HIDE DEF S, T, h
<1>8. Cardinality(T) = Cardinality(S)
  BY <1>6, <1>7, FS_Bijection DEF ExistsBijection
<1> QED
  BY <1>8 DEF S, T, I

\* What is taken from a document, element by element: triples of words, no more of them
\* than a route has elements.
LEMMA TakenUnfolds ==
    ASSUME NEW doc \in Seq(Seq(Word))
    PROVE  /\ TakenFrom(doc)[0] = <<>>
           /\ \A n \in 1 .. Len(doc) :
                 TakenFrom(doc)[n] =
                    IF Len(TakenFrom(doc)[n - 1]) < VERTEX_NUM /\ Len(doc[n]) >= 3
                    THEN Append(TakenFrom(doc)[n - 1], TripleAt(doc, n))
                    ELSE TakenFrom(doc)[n - 1]
           /\ \A n \in 0 .. Len(doc) : /\ TakenFrom(doc)[n] \in Seq(Triple)
                                       /\ Len(TakenFrom(doc)[n]) \in 0 .. VERTEX_NUM
<1> DEFINE N == Len(doc)
           S == {s \in Seq(Triple) : Len(s) <= VERTEX_NUM}
           triple(n) == <<doc[n][1], doc[n][2], doc[n][3]>>
           more(n, s) == IF n \in 1 .. N /\ Len(s) < VERTEX_NUM /\ Len(doc[n]) >= 3
                         THEN Append(s, triple(n)) ELSE s
           g == [n \in Nat |-> [s \in S |-> more(n, s)]]
           P(f) == f = [n \in 0 .. N |->
                          IF n = 0 THEN <<>>
                          ELSE IF Len(f[n - 1]) < VERTEX_NUM /\ Len(doc[n]) >= 3
                               THEN Append(f[n - 1], <<doc[n][1], doc[n][2], doc[n][3]>>)
                               ELSE f[n - 1]]
<1>1. N \in Nat /\ <<>> \in S
  BY RouteAssumption
<1>2. ASSUME NEW n \in Nat, NEW s \in S
      PROVE  more(n, s) \in S
  <2>1. CASE n \in 1 .. N /\ Len(s) < VERTEX_NUM /\ Len(doc[n]) >= 3
    <3>1. doc[n] \in Seq(Word)
      BY <2>1
    <3>2. doc[n][1] \in Word /\ doc[n][2] \in Word /\ doc[n][3] \in Word
      BY <3>1, <2>1
    <3>3. triple(n) \in Triple
      BY <3>2 DEF Triple
    <3> HIDE DEF triple
    <3>4. Append(s, triple(n)) \in Seq(Triple) /\ Len(Append(s, triple(n))) = Len(s) + 1
      BY <3>3, AppendProperties
    <3> QED
      BY <2>1, <3>4, RouteAssumption
  <2>2. CASE ~ (n \in 1 .. N /\ Len(s) < VERTEX_NUM /\ Len(doc[n]) >= 3)
    BY <2>2, Zenon
  <2> QED
    BY <2>1, <2>2
<1>3. g \in Recursions(S)
  BY <1>2 DEF Recursions
<1>4. PICK f \in [0 .. N -> S] : f[0] = <<>> /\ \A n \in 1 .. N : f[n] = g[n][f[n - 1]]
  <2> HIDE DEF g, S, N
  <2>1. PICK f : Solution(S, <<>>, g, N, f)
    BY ONLY <1>1, <1>3, Recursion
  <2> QED
    BY <2>1 DEF Solution
<1>5. P(f)
  <2>1. ASSUME NEW n \in 0 .. N, n # 0
        PROVE  /\ n \in Nat /\ n \in 1 .. N /\ f[n - 1] \in S
               /\ g[n][f[n - 1]] = more(n, f[n - 1])
    <3>1. n \in Nat /\ n \in 1 .. N /\ n - 1 \in 0 .. N
      BY <1>1, <2>1
    <3>2. f[n - 1] \in S
      BY <1>4, <3>1
    <3> HIDE DEF S, more
    <3> QED
      BY <3>1, <3>2
  <2>2. \A n \in 0 .. N : n # 0 =>
            g[n][f[n - 1]] = IF Len(f[n - 1]) < VERTEX_NUM /\ Len(doc[n]) >= 3
                             THEN Append(f[n - 1], <<doc[n][1], doc[n][2], doc[n][3]>>)
                             ELSE f[n - 1]
    BY <2>1
  <2>3. f = [n \in 0 .. N |-> f[n]]
    BY <1>4
  <2> HIDE DEF g
  <2> QED
    BY <1>4, <2>1, <2>2, <2>3
<1> DEFINE t == TakenFrom(doc)
<1>6. P(t)
  <2>1. t = CHOOSE x : P(x)
    BY DEF TakenFrom
  <2> HIDE DEF P
  <2> QED
    BY <1>5, <2>1, Zenon
<1>7. t[0] = <<>> /\ \A n \in 1 .. N : t[n] = more(n, t[n - 1])
  <2> HIDE DEF t
  <2>1. \A n \in 1 .. N : n \in 0 .. N /\ n # 0
    BY <1>1
  <2>2. 0 \in 0 .. N
    BY <1>1
  <2> QED
    BY <1>6, <2>1, <2>2
<1> DEFINE T == {n \in Nat : n <= N => t[n] \in S}
<1>8. Nat \subseteq T
  <2> HIDE DEF t, S, more
  <2>1. 0 \in T
    BY <1>1, <1>7
  <2>2. ASSUME NEW n \in Nat, n \in T
        PROVE  n + 1 \in T
    <3>1. CASE n + 1 <= N
      <4>1. t[n] \in S /\ n + 1 \in 1 .. N /\ (n + 1) - 1 = n
        BY <1>1, <2>2, <3>1
      <4>2. t[n + 1] = more(n + 1, t[n])
        BY <1>7, <4>1
      <4> QED
        BY <1>2, <4>1, <4>2
    <3> QED
      BY <1>1, <3>1
  <2> HIDE DEF T
  <2> QED
    BY <2>1, <2>2, SetInduction
<1> HIDE DEF t
<1>9. \A n \in 1 .. N : t[n] = IF Len(t[n - 1]) < VERTEX_NUM /\ Len(doc[n]) >= 3
                             THEN Append(t[n - 1], TripleAt(doc, n)) ELSE t[n - 1]
  <2> SUFFICES ASSUME NEW n \in 1 .. N
               PROVE  t[n] = IF Len(t[n - 1]) < VERTEX_NUM /\ Len(doc[n]) >= 3
                             THEN Append(t[n - 1], TripleAt(doc, n)) ELSE t[n - 1]
    OBVIOUS
  <2>1. t[n] = more(n, t[n - 1])
    BY <1>7
  <2> QED
    BY <2>1 DEF TripleAt
<1>10. \A n \in 0 .. N : t[n] \in Seq(Triple) /\ Len(t[n]) \in 0 .. VERTEX_NUM
  <2> SUFFICES ASSUME NEW n \in 0 .. N
               PROVE  t[n] \in Seq(Triple) /\ Len(t[n]) \in 0 .. VERTEX_NUM
    OBVIOUS
  <2>1. t[n] \in S
    BY <1>1, <1>8
  <2> QED
    BY <2>1, RouteAssumption
<1> QED
  BY <1>7, <1>9, <1>10 DEF t

\* How many of the first n elements of a document make a triple.
Count(doc, n) == Cardinality({m \in Usable(doc) : m <= n})

\* The count goes up by one at each element that makes a triple.
LEMMA CountUnfolds ==
    ASSUME NEW doc \in Seq(Seq(Word))
    PROVE  /\ Count(doc, 0) = 0
           /\ \A n \in 1 .. Len(doc) :
                 Count(doc, n) = Count(doc, n - 1) + (IF n \in Usable(doc) THEN 1 ELSE 0)
           /\ \A n \in 0 .. Len(doc) : Count(doc, n) \in Nat
           /\ Count(doc, Len(doc)) = Cardinality(Usable(doc))
<1> DEFINE N == Len(doc)
           U == Usable(doc)
           F(n) == {m \in U : m <= n}
<1>1. N \in Nat /\ U \subseteq 1 .. N
  BY DEF Usable
<1>2. IsFiniteSet(1 .. N)
  BY <1>1, FS_Interval
<1>3. \A n \in 0 .. N : IsFiniteSet(F(n)) /\ Cardinality(F(n)) \in Nat
  <2> SUFFICES ASSUME NEW n \in 0 .. N
               PROVE  IsFiniteSet(F(n)) /\ Cardinality(F(n)) \in Nat
    OBVIOUS
  <2>1. F(n) \in SUBSET (1 .. N)
    BY <1>1
  <2> HIDE DEF F, N
  <2>2. IsFiniteSet(F(n))
    BY ONLY <1>2, <2>1, FS_Subset
  <2> QED
    BY ONLY <2>2, FS_CardinalityType
<1>4. F(0) = {} /\ F(N) = U
  BY <1>1
<1>5. ASSUME NEW n \in 1 .. N
      PROVE  Cardinality(F(n)) = Cardinality(F(n - 1)) + (IF n \in U THEN 1 ELSE 0)
  <2>1. n - 1 \in 0 .. N /\ n \notin F(n - 1)
    BY <1>1
  <2>2. n \in U => F(n) = F(n - 1) \cup {n}
    BY <1>1
  <2>3. n \notin U => F(n) = F(n - 1)
    BY <1>1
  <2>4. IsFiniteSet(F(n - 1)) /\ Cardinality(F(n - 1)) \in Nat
    BY <1>3, <2>1
  <2> HIDE DEF F, U, N
  <2>5. Cardinality(F(n - 1) \cup {n}) = Cardinality(F(n - 1)) + 1
    BY <2>1, <2>4, FS_AddElement
  <2>6. CASE n \in U
    BY <2>2, <2>5, <2>6
  <2>7. CASE n \notin U
    BY <2>3, <2>4, <2>7
  <2> QED
    BY <2>6, <2>7
<1> HIDE DEF U
<1>6. Cardinality(F(0)) = 0
  BY <1>4, FS_EmptySet
<1> QED
  BY <1>3, <1>4, <1>5, <1>6 DEF Count, U

\* The triples taken from a document are those of its first usable elements, each at the
\* place the count gives it.
LEMMA TakenOfFirst ==
    ASSUME NEW doc \in Seq(Seq(Word))
    PROVE  /\ Taken(doc) \in Seq(Triple) /\ Len(Taken(doc)) \in 0 .. VERTEX_NUM
           /\ Cardinality(Usable(doc)) >= VERTEX_NUM => Len(Taken(doc)) = VERTEX_NUM
           /\ \A m \in First(doc) : /\ Count(doc, m) \in DOMAIN Taken(doc)
                                    /\ Taken(doc)[Count(doc, m)] = TripleAt(doc, m)
           /\ \A i \in DOMAIN Taken(doc) : \E m \in First(doc) : Count(doc, m) = i
<1> DEFINE N == Len(doc)
           t == TakenFrom(doc)
           c(n) == Count(doc, n)
           V == VERTEX_NUM
           U == Usable(doc)
           F == First(doc)
           P(n) == /\ c(n) <= V => Len(t[n]) = c(n)
                   /\ c(n) > V => Len(t[n]) = V
                   /\ \A m \in F : m <= n => /\ c(m) \in 1 .. Len(t[n])
                                            /\ t[n][c(m)] = TripleAt(doc, m)
                   /\ \A i \in 1 .. Len(t[n]) : \E m \in F : m <= n /\ c(m) = i
           T == {n \in Nat : n <= N => P(n)}
<1>1. N \in Nat /\ V \in Nat \ {0} /\ U \subseteq 1 .. N /\ F = {m \in U : c(m) <= V}
  BY RouteAssumption DEF Usable, First, Count
<1>2. \A n \in 1 .. N : n \in U <=> Len(doc[n]) >= 3
  BY DEF Usable
<1>3. /\ c(0) = 0 /\ c(N) = Cardinality(U)
      /\ \A n \in 1 .. N : c(n) = c(n - 1) + (IF n \in U THEN 1 ELSE 0)
      /\ \A n \in 0 .. N : c(n) \in Nat
  BY CountUnfolds
<1>4. /\ t[0] = <<>>
      /\ \A n \in 1 .. N : t[n] = IF Len(t[n - 1]) < V /\ Len(doc[n]) >= 3
                                 THEN Append(t[n - 1], TripleAt(doc, n)) ELSE t[n - 1]
      /\ \A n \in 0 .. N : t[n] \in Seq(Triple) /\ Len(t[n]) \in 0 .. V
  BY TakenUnfolds
<1> HIDE DEF N, t, c, V, U, F
<1>5. P(0)
  BY <1>1, <1>3, <1>4
<1>6. ASSUME NEW n \in Nat, n + 1 <= N, P(n)
      PROVE  P(n + 1)
  <2>1. /\ n \in 0 .. N /\ n + 1 \in 1 .. N /\ (n + 1) - 1 = n
        /\ t[n] \in Seq(Triple) /\ Len(t[n]) \in 0 .. V /\ c(n) \in Nat
    BY <1>1, <1>3, <1>4, <1>6
  <2>2. /\ c(n + 1) = c(n) + (IF n + 1 \in U THEN 1 ELSE 0)
        /\ t[n + 1] = IF Len(t[n]) < V /\ n + 1 \in U
                      THEN Append(t[n], TripleAt(doc, n + 1)) ELSE t[n]
    BY <1>2, <1>3, <1>4, <2>1
  <2>3. \A m \in F : m <= n + 1 <=> m <= n \/ m = n + 1
    BY <1>1
  <2>4. CASE n + 1 \in U /\ c(n) < V
    <3>1. Len(t[n]) = c(n) /\ c(n + 1) = c(n) + 1 /\ c(n + 1) <= V /\ n + 1 \in F
      BY <1>1, <1>6, <2>1, <2>2, <2>4
    <3>2. t[n + 1] = Append(t[n], TripleAt(doc, n + 1))
      BY <2>1, <2>2, <2>4, <3>1
    <3>3. /\ Len(t[n + 1]) = c(n) + 1
          /\ \A i \in 1 .. c(n) : t[n + 1][i] = t[n][i]
          /\ t[n + 1][c(n) + 1] = TripleAt(doc, n + 1)
      BY <2>1, <3>1, <3>2
    <3>4. ASSUME NEW m \in F, m <= n + 1
          PROVE  c(m) \in 1 .. Len(t[n + 1]) /\ t[n + 1][c(m)] = TripleAt(doc, m)
      <4>1. CASE m <= n
        <5>1. c(m) \in 1 .. c(n) /\ t[n][c(m)] = TripleAt(doc, m)
          BY <1>6, <3>1, <4>1
        <5> QED
          BY <2>1, <3>3, <5>1
      <4>2. CASE m = n + 1
        BY <2>1, <3>1, <3>3, <4>2
      <4> QED
        BY <2>3, <3>4, <4>1, <4>2
    <3>5. ASSUME NEW i \in 1 .. Len(t[n + 1])
          PROVE  \E m \in F : m <= n + 1 /\ c(m) = i
      <4>1. CASE i \in 1 .. c(n)
        <5>1. PICK m \in F : m <= n /\ c(m) = i
          BY <1>6, <3>1, <4>1
        <5> QED
          BY <2>3, <5>1
      <4>2. CASE i = c(n) + 1
        BY <2>1, <3>1, <4>2
      <4> QED
        BY <2>1, <3>3, <4>1, <4>2
    <3>6. (c(n + 1) <= V => Len(t[n + 1]) = c(n + 1)) /\ ~ (c(n + 1) > V)
      BY <1>1, <2>1, <3>1, <3>3
    <3> QED
      BY <3>4, <3>5, <3>6, Zenon
  <2>5. CASE n + 1 \notin U
    <3>1. c(n + 1) = c(n) /\ t[n + 1] = t[n]
      BY <2>1, <2>2, <2>5
    <3>2. \A m \in F : m <= n + 1 <=> m <= n
      BY <1>1, <2>3, <2>5
    <3> QED
      BY <1>6, <3>1, <3>2
  <2>6. CASE n + 1 \in U /\ c(n) >= V
    <3>1. Len(t[n]) = V
      BY <1>1, <1>6, <2>1, <2>6
    <3>2. t[n + 1] = t[n] /\ c(n + 1) > V
      BY <1>1, <2>1, <2>2, <2>6, <3>1
    <3>3. n + 1 \notin F
      <4>1. \A m \in F : c(m) <= V
        BY <1>1, Zenon
      <4>2. c(n + 1) \in Nat
        BY <1>3, <1>1, <2>1
      <4> QED
        BY ONLY <1>1, <3>2, <4>1, <4>2
    <3>4. \A m \in F : m <= n + 1 <=> m <= n
      BY <2>3, <3>3, Zenon
    <3>5. (c(n + 1) > V => Len(t[n + 1]) = V) /\ ~ (c(n + 1) <= V)
      <4>1. c(n + 1) \in Nat
        BY <1>3, <1>1, <2>1
      <4> QED
        BY ONLY <1>1, <3>1, <3>2, <4>1
    <3> QED
      BY <1>6, <3>2, <3>4, <3>5, Zenon
  <2> QED
    BY <1>1, <2>1, <2>4, <2>5, <2>6
<1>7. Nat \subseteq T
  <2>1. 0 \in T
    BY <1>5
  <2>2. ASSUME NEW n \in Nat, n \in T
        PROVE  n + 1 \in T
    <3> HIDE DEF P
    <3> QED
      BY <1>1, <1>6, <2>2
  <2> HIDE DEF T
  <2> QED
    BY <2>1, <2>2, SetInduction
<1>8. P(N)
  <2> HIDE DEF P
  <2> QED
    BY <1>1, <1>7
<1>9. \A m \in F : m <= N
  BY <1>1
<1>10. /\ t[N] \in Seq(Triple) /\ Len(t[N]) \in 0 .. V
       /\ Cardinality(U) >= V => Len(t[N]) = V
  BY <1>1, <1>3, <1>4, <1>8
<1>11. /\ DOMAIN t[N] = 1 .. Len(t[N])
       /\ \A m \in F : c(m) \in 1 .. Len(t[N]) /\ t[N][c(m)] = TripleAt(doc, m)
       /\ \A i \in 1 .. Len(t[N]) : \E m \in F : c(m) = i
  BY <1>8, <1>9, <1>10
<1> QED
  BY <1>10, <1>11 DEF Taken, N, t, c, V, U, F

\* The elements of a route of the versions that draw vertices are all different.
LEMMA DrawnRoutes ==
    ASSUME IInv, version # 4, NEW k \in 1 .. Repeat, NEW p \in Peers
    PROVE  DOMAIN routes[k][p] = 1 .. VERTEX_NUM /\ IsInjective(routes[k][p])
<1> DEFINE I == 1 .. VERTEX_NUM
           s == document[k][p]
<1>1. version \in Versions /\ version \in 1 .. 3 /\ document[k] \in Documents[version]
  BY VersionAssumption DEF IInv, Settled
<1>2. Drawn(s, IF version = 2 THEN 2 * (VERTEX_NUM + 1) ELSE VERTEX_NUM + 1)
  BY <1>1, DocumentAssumption
<1>3. PICK garbage : routes[k][p] = Routes(s, garbage)
  BY DEF IInv, Settled
<1>4. /\ s \in Seq(Int) /\ \A a, b \in 1 .. Len(s) : s[a] = s[b] => a = b
      /\ Len(s) >= IF version = 2 THEN 2 * (VERTEX_NUM + 1) ELSE VERTEX_NUM + 1
  BY <1>2 DEF Drawn, IsInjective
<1> HIDE DEF s
<1>5. CASE version \in {1, 3}
  <2>1. routes[k][p] = [i \in I |-> <<s[i], s[i + 1]>>]
    BY <1>1, <1>3, <1>5 DEF Routes, Pairs1, Edges3
  <2>2. \A i \in I : i \in 1 .. Len(s)
    BY <1>4, <1>5, RouteAssumption
  <2> QED
    BY <1>4, <2>1, <2>2 DEF IsInjective
<1>6. CASE version = 2
  <2>1. routes[k][p] = [i \in I |-> <<<<s[2 * i - 1], s[2 * i]>>,
                                      <<s[2 * (i + 1) - 1], s[2 * (i + 1)]>>>>]
    BY <1>3, <1>6 DEF Routes, Points2
  <2>2. \A i \in I : 2 * i \in 1 .. Len(s)
    BY <1>4, <1>6, RouteAssumption
  <2>3. \A i, j \in I : s[2 * i] = s[2 * j] => i = j
    BY <1>4, <2>2
  <2> QED
    BY <2>1, <2>3 DEF IsInjective
<1> QED
  BY <1>1, <1>5, <1>6

\* The places of a route that hold what was given, and what is there: they give nothing
\* else, and all of it; no two the same thing, if nothing is given twice; and they are
\* all places, if the document fills the member array.
LEMMA RoutePlaces ==
    ASSUME IInv, NEW k \in 1 .. Repeat, NEW p \in Peers
    PROVE  \E f :
              /\ DOMAIN f \subseteq 1 .. VERTEX_NUM /\ Range(f) = Given(k, p)
              /\ version # 4 => /\ DOMAIN f = 1 .. VERTEX_NUM /\ IsInjective(f)
                                /\ \A a \in DOMAIN f : routes[k][p][a] = f[a]
              /\ version = 4 =>
                    /\ \A a \in DOMAIN f : f[a] \in Triple /\ routes[k][p][a] = makeBlock(f[a])
                    /\ Filled(k, p) => DOMAIN f = 1 .. VERTEX_NUM
                    /\ Clean(k, p) => \A a \in DOMAIN f : Fits(f[a])
                    /\ Clean(k, p) /\ Threshold[4] > 0 => IsInjective(f)
<1>1. CASE version # 4
  <2>1. DOMAIN routes[k][p] = 1 .. VERTEX_NUM /\ IsInjective(routes[k][p])
    BY <1>1, DrawnRoutes
  <2>2. Given(k, p) = Range(routes[k][p])
    BY <1>1 DEF Given
  <2> QED
    BY <1>1, <2>1, <2>2
<1>2. CASE version = 4
  <2> DEFINE doc == document[k][p]
             f == Taken(doc)
             c(m) == Count(doc, m)
             F == First(doc)
  <2>1. version \in Versions /\ document[k] \in Documents[version]
    BY DEF IInv, Settled
  <2>2. doc \in Seq(Seq(Word))
    BY <1>2, <2>1, DocumentAssumption
  <2>3. PICK garbage : routes[k][p] = Packed4(doc, garbage)
    BY <1>2 DEF IInv, Settled, Routes
  <2> HIDE DEF doc
  <2>4. /\ f \in Seq(Triple) /\ Len(f) \in 0 .. VERTEX_NUM
        /\ Cardinality(Usable(doc)) >= VERTEX_NUM => Len(f) = VERTEX_NUM
        /\ \A m \in F : c(m) \in DOMAIN f /\ f[c(m)] = TripleAt(doc, m)
        /\ \A i \in DOMAIN f : \E m \in F : c(m) = i
    BY <2>2, TakenOfFirst
  <2> HIDE DEF c, F
  <2>5. Given(k, p) = {TripleAt(doc, m) : m \in F}
    BY <1>2 DEF Given, doc, F
  <2>6. \A a \in 1 .. VERTEX_NUM : a \in DOMAIN f => routes[k][p][a] = makeBlock(f[a])
    BY <2>3 DEF Packed4
  <2> HIDE DEF f
  <2>7. DOMAIN f = 1 .. Len(f) /\ DOMAIN f \subseteq 1 .. VERTEX_NUM
    BY <2>4, RouteAssumption
  <2>8. \A a \in DOMAIN f : f[a] \in Triple /\ routes[k][p][a] = makeBlock(f[a])
    BY <2>4, <2>6, <2>7
  <2>9. Range(f) = Given(k, p)
    BY <2>4, <2>5 DEF Range
  <2>10. Filled(k, p) => DOMAIN f = 1 .. VERTEX_NUM
    BY <1>2, <2>4, <2>7 DEF Filled, doc
  <2>11. Clean(k, p) => \A a \in DOMAIN f : Fits(f[a])
    BY <1>2, <2>9 DEF Clean, Range
  <2>12. ASSUME Clean(k, p), Threshold[4] > 0
         PROVE  IsInjective(f)
    <3>1. \A m, n \in F : TripleAt(doc, m) = TripleAt(doc, n) => m = n
      BY <1>2, <2>12 DEF Clean, doc, F
    <3>2. \A a, b \in DOMAIN f : f[a] = f[b] => a = b
      BY <2>4, <3>1
    <3> QED
      BY <3>2 DEF IsInjective
  <2> QED
    BY <1>2, <2>7, <2>8, <2>9, <2>10, <2>11, <2>12
<1> QED
  BY <1>1, <1>2

\* Where S has a pair of places for each thing in common, it has no fewer pairs than there
\* are things in common.
LEMMA CommonHavePairs ==
    ASSUME NEW f, NEW g, NEW S, IsFiniteSet(S),
           \A a \in DOMAIN f, b \in DOMAIN g : f[a] = g[b] => <<a, b>> \in S
    PROVE  /\ IsFiniteSet(Range(f) \cap Range(g))
           /\ Cardinality(Range(f) \cap Range(g)) <= Cardinality(S)
<1> DEFINE T == Range(f) \cap Range(g)
           a(t) == CHOOSE x \in DOMAIN f : f[x] = t
           b(t) == CHOOSE x \in DOMAIN g : g[x] = t
           h == [t \in T |-> <<a(t), b(t)>>]
<1>1. ASSUME NEW t \in T
      PROVE  a(t) \in DOMAIN f /\ f[a(t)] = t /\ b(t) \in DOMAIN g /\ g[b(t)] = t
  <2>1. (\E x \in DOMAIN f : f[x] = t) /\ \E x \in DOMAIN g : g[x] = t
    BY DEF Range
  <2> QED
    BY <2>1
<1> HIDE DEF a, b, T
<1>2. h \in [T -> S]
  BY <1>1
<1>3. ASSUME NEW t \in T, NEW u \in T, h[t] = h[u]
      PROVE  t = u
  <2>1. a(t) = a(u)
    BY <1>3
  <2> QED
    BY <1>1, <2>1
<1>4. h \in Injection(T, S)
  BY <1>2, <1>3 DEF Injection, IsInjective
<1> HIDE DEF h
<1>5. IsFiniteSet(T) /\ Cardinality(T) <= Cardinality(S)
  BY <1>4, FS_Injection
<1> QED
  BY <1>5 DEF T

\* The SP's answer for a rider and a driver (processIntersectionMatching, every version):
\* the exchange of keys and PRF values, the places of the blocks and the packing of the
\* route elements lose no match, whatever the documents, and invent none for documents
\* that are clean and fill the member array.
THEOREM MatchesCorrectHolds == Spec => []MatchesCorrect
<1>1. IInv => MatchesCorrect
  <2> SUFFICES ASSUME IInv,
                      NEW k \in DOMAIN match, NEW i \in 1 .. rider_count,
                      NEW j \in 1 .. driver_count
               PROVE  /\ EnoughCommon(k, i, j) => match[k][i][j]
                      /\ (\A p \in {i, rider_count + j} : Clean(k, p) /\ Filled(k, p)) =>
                            (match[k][i][j] => EnoughCommon(k, i, j))
    BY DEF MatchesCorrect
  <2> DEFINE q == rider_count + j
             I == 1 .. VERTEX_NUM
             pairs == Cardinality(EqualPairs(k, i, q))
             T == Given(k, i) \cap Given(k, q)
             common == Cardinality(T)
  <2>1. k \in 1 .. round[0] - 1 /\ k \in 1 .. Repeat
    <3>1. DOMAIN match = 1 .. Len(match) /\ Len(match) = round[0] - 1
      BY DEF IInv, Answers
    <3>2. round[0] \in 1 .. Repeat + 1
      BY Parties DEF IInv, Positions
    <3> QED
      BY <3>1, <3>2, RouteAssumption
  <2>2. i \in Peers /\ q \in Peers
    BY Parties
  <2>3. match[k][i][j] = Enough(pairs)
    BY <2>1 DEF IInv, Answers
  <2>4. PICK f : /\ DOMAIN f \subseteq I /\ Range(f) = Given(k, i)
                 /\ version # 4 => /\ DOMAIN f = I /\ IsInjective(f)
                                   /\ \A a \in DOMAIN f : routes[k][i][a] = f[a]
                 /\ version = 4 =>
                       /\ \A a \in DOMAIN f : f[a] \in Triple /\ routes[k][i][a] = makeBlock(f[a])
                       /\ Filled(k, i) => DOMAIN f = I
                       /\ Clean(k, i) => \A a \in DOMAIN f : Fits(f[a])
                       /\ Clean(k, i) /\ Threshold[4] > 0 => IsInjective(f)
    BY <2>1, <2>2, RoutePlaces
  <2>5. PICK g : /\ DOMAIN g \subseteq I /\ Range(g) = Given(k, q)
                 /\ version # 4 => /\ DOMAIN g = I /\ IsInjective(g)
                                   /\ \A a \in DOMAIN g : routes[k][q][a] = g[a]
                 /\ version = 4 =>
                       /\ \A a \in DOMAIN g : g[a] \in Triple /\ routes[k][q][a] = makeBlock(g[a])
                       /\ Filled(k, q) => DOMAIN g = I
                       /\ Clean(k, q) => \A a \in DOMAIN g : Fits(g[a])
                       /\ Clean(k, q) /\ Threshold[4] > 0 => IsInjective(g)
    BY <2>1, <2>2, RoutePlaces
  <2>6. /\ version \in 1 .. 4 /\ Threshold[version] \in Nat
        /\ version = 4 => Threshold[version] = Threshold[4]
    BY VersionAssumption DEF IInv, Settled
  <2>7. pairs \in Nat
    BY PairsFinite DEF EqualPairs
  <2> HIDE DEF q
  <2>8. IsFiniteSet(T) /\ common \in Nat /\ common <= pairs
    <3>1. \A a \in DOMAIN f, b \in DOMAIN g : f[a] = g[b] => <<a, b>> \in EqualPairs(k, i, q)
      <4>1. \A a \in DOMAIN f, b \in DOMAIN g : f[a] = g[b] => routes[k][i][a] = routes[k][q][b]
        BY <2>4, <2>5
      <4>2. \A a \in DOMAIN f, b \in DOMAIN g : a \in I /\ b \in I
        BY <2>4, <2>5
      <4> QED
        BY <4>1, <4>2 DEF EqualPairs
    <3>2. IsFiniteSet(EqualPairs(k, i, q))
      BY PairsFinite DEF EqualPairs
    <3>3. T = Range(f) \cap Range(g)
      BY <2>4, <2>5
    <3> HIDE DEF T
    <3>4. IsFiniteSet(T) /\ common <= pairs
      BY ONLY <3>1, <3>2, <3>3, CommonHavePairs
    <3> QED
      BY <3>4, FS_CardinalityType
  <2>9. match[k][i][j] <=> IF version = 4 THEN pairs > Threshold[version]
                           ELSE pairs >= Threshold[version]
    BY <2>3, <2>6 DEF Enough
  <2>10. EnoughCommon(k, i, j) <=> IF version = 4 THEN common > Threshold[version]
                                   ELSE common >= Threshold[version]
    <3>1. EnoughCommon(k, i, j) <=> \/ common > Threshold[version]
                                    \/ version # 4 /\ common = Threshold[version]
      BY DEF EnoughCommon, q
    <3> HIDE DEF common
    <3> QED
      BY <2>6, <2>8, <3>1
  <2>11. EnoughCommon(k, i, j) => match[k][i][j]
    <3> HIDE DEF common, pairs
    <3> QED
      BY <2>6, <2>7, <2>8, <2>9, <2>10
  <2>12. ASSUME Clean(k, i) /\ Filled(k, i), Clean(k, q) /\ Filled(k, q), match[k][i][j]
         PROVE  EnoughCommon(k, i, j)
    <3>1. /\ DOMAIN f = I /\ DOMAIN g = I
          /\ \A a, b \in I : routes[k][i][a] = routes[k][q][b] <=> f[a] = g[b]
      <4>1. CASE version # 4
        BY <2>4, <2>5, <4>1
      <4>2. CASE version = 4
        <5>1. DOMAIN f = I /\ DOMAIN g = I
          BY <2>4, <2>5, <2>12, <4>2
        <5>2. \A a \in I : /\ f[a] \in Triple /\ routes[k][i][a] = makeBlock(f[a])
                           /\ g[a] \in Triple /\ routes[k][q][a] = makeBlock(g[a])
                           /\ Fits(f[a]) /\ Fits(g[a])
          BY <2>4, <2>5, <2>12, <4>2, <5>1
        <5> QED
          BY <5>1, <5>2, PackingInjective
      <4> QED
        BY <4>1, <4>2
    <3>2. EqualPairs(k, i, q) = {kl \in I \X I : f[kl[1]] = g[kl[2]]}
      BY <3>1 DEF EqualPairs
    <3>3. CASE IsInjective(f) /\ IsInjective(g)
      <4>1. Cardinality({kl \in I \X I : f[kl[1]] = g[kl[2]]}) = Cardinality(Range(f) \cap Range(g))
        BY ONLY <3>1, <3>3, PairsOfCommon
      <4>2. Given(k, i) \cap Given(k, q) = Range(f) \cap Range(g)
        BY <2>4, <2>5
      <4>3. pairs = common
        BY ONLY <3>2, <4>1, <4>2
      <4> HIDE DEF pairs, common
      <4> QED
        BY <2>9, <2>10, <2>12, <4>3
    <3>4. CASE ~ (IsInjective(f) /\ IsInjective(g))
      <4>1. version = 4 /\ Threshold[4] = 0
        BY <2>4, <2>5, <2>6, <2>12, <3>4
      <4>2. pairs > 0
        BY <2>6, <2>9, <2>12, <4>1
      <4>3. EqualPairs(k, i, q) # {}
        BY <4>2, FS_EmptySet
      <4>4. PICK kl \in I \X I : f[kl[1]] = g[kl[2]]
        BY <3>2, <4>3
      <4>5. f[kl[1]] \in T
        <5>1. kl[1] \in DOMAIN f /\ kl[2] \in DOMAIN g
          BY <3>1
        <5>2. f[kl[1]] \in Range(f) /\ g[kl[2]] \in Range(g)
          BY <5>1 DEF Range
        <5> QED
          BY <2>4, <2>5, <4>4, <5>2
      <4>6. common # 0
        BY <2>8, <4>5, FS_EmptySet
      <4> HIDE DEF common
      <4> QED
        BY <2>6, <2>8, <2>10, <4>1, <4>6
    <3> QED
      BY <3>3, <3>4
  <2> QED
    BY <2>11, <2>12 DEF q
<1> QED
  BY <1>1, Invariant, PTL
=============================================================================
