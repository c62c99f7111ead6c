---------------------------- MODULE Intersection ----------------------------
(***************************************************************************)
(* Intersection-based matching (Intersection_eval::processIntersection-    *)
(* Matching in src/src/quickpool/Intersection_eval*.cpp): every rider and  *)
(* driver exchange keys, each sends the SP the PRF values of its route     *)
(* under the key of every counterpart, and the SP counts, pair by pair,    *)
(* the values both sent, over the NetIOMP network.                         *)
(*                                                                         *)
(* The repository holds four versions.  1 to 3 draw routes at random and   *)
(* differ in what an element of a route is; version 4, the default build,  *)
(* reads triples from a database and packs them, compares strictly, and    *)
(* leaves the end of a short route uninitialised.  The exchange is the     *)
(* same in all.  The PRF is ideal: two values are equal exactly when the   *)
(* keys and the route elements are.                                        *)
(***************************************************************************)
EXTENDS RoutePacking, Functions, FiniteSetsExt

CONSTANTS rider_count, driver_count, FlushOnSend, BufCap,  \* as in NetIOMP
          Repeat,      \* rounds run over one network (quickpool_intersection --repeat)
          Versions,    \* which of the four versions are built
          VERTEX_NUM,  \* elements of the routes member
          Threshold,   \* DRIVER_RIDER_MATCH_THRESHOLD of each version
          SelfKey,     \* the first value of a PRG: a set of bits
          Documents,   \* for each version, the assignments of documents to parties to try:
                       \* numbers drawn without replacement, in version 4 lists of words
          Garbage      \* what an uninitialised element of routes may hold
ASSUME VersionAssumption == Versions \subseteq 1 .. 4 /\ Threshold \in [1 .. 4 -> Nat]
ASSUME RouteAssumption == Repeat \in Nat \ {0} /\ VERTEX_NUM \in Nat \ {0}
ASSUME NetAssumption == /\ rider_count \in Nat /\ driver_count \in Nat
                        /\ FlushOnSend \in BOOLEAN /\ BufCap \in Nat

VARIABLES out, wire, sent, waiting, open,  \* the network, see NetIOMP
          version,   \* the version that is built
          document,  \* document[k][p]: what p's route is made of in round k, the vertices
                     \* drawn or the triples of its document
          routes,    \* routes[k][p]: p's member routes in round k
          round,     \* round[p]: the round p is in, Repeat + 1 after the last
          pc,        \* pc[p]: p's position in Script[p], the calls of a round
          keys,      \* keys[p][q]: the key p shares with counterpart q
          prf,       \* prf[p]: the array the SP read from p
          match      \* match[k][i][j], the SP's answer in each round it has finished
netVars == <<out, wire, sent, waiting, open>>
vars == <<out, wire, sent, waiting, open, version, document, routes, round, pc, keys, prf,
          match>>

Net == INSTANCE NetIOMP WITH Bipartite <- TRUE, Item <- {}, Message <- {},
                             MaxRead <- 0, MaxInFlight <- 0

Party == Net!Party
Peers == 1 .. Net!nP - 1
Counterparts == [p \in Peers |-> IF p \in Net!Rider
                                 THEN [j \in 1 .. driver_count |-> rider_count + j]
                                 ELSE [i \in 1 .. rider_count |-> i]]

\* n numbers, no two of them the same.
Drawn(s, n) == s \in Seq(Int) /\ Len(s) >= n /\ IsInjective(s)
ASSUME DocumentAssumption ==
    \A v \in Versions : \A d \in Documents[v], p \in Peers :
        IF v = 4 THEN d[p] \in Seq(Seq(Word))
        ELSE Drawn(d[p], IF v = 2 THEN 2 * (VERTEX_NUM + 1) ELSE VERTEX_NUM + 1)
-----------------------------------------------------------------------------
Step(op, peer, what, n) == [op |-> op, peer |-> peer, what |-> what, n |-> n]

\* Mutated form of KeyCall: both ends of a pair await the other's key first.
KeyCallRecvFirst(i) == IF i % 2 = 1 THEN "recv" ELSE "send"

\* What call i of the key exchange does: a key is sent to a counterpart and that one's
\* awaited before the next counterpart's turn.
KeyCall(i) == IF i % 2 = 1 THEN "send" ELSE "recv"

\* The calls of processIntersectionMatching.
Round(p) ==
    IF p = 0
    THEN Append([q \in Peers |-> Step("recv", q, "prf", Len(Counterparts[q]) * VERTEX_NUM)],
                Step("local", 0, "match", 0))
    ELSE Append([i \in 1 .. 2 * Len(Counterparts[p]) |->
                    Step(KeyCall(i), Counterparts[p][(i + 1) \div 2], "key", 1)],
                Step("send", 0, "prf", Len(Counterparts[p]) * VERTEX_NUM))

Script == [p \in Party |-> Round(p)]

\* p's next step: "s" in the actions below
At(p) == IF round[p] <= Repeat THEN Script[p][pc[p]] ELSE Step("close", 0, "", 0)

Xor(a, b) == (a \ b) \cup (b \ a)

\* An array element on the network: its value, and what it is (the code sends the
\* bare value; the tag serves the properties only).
Element(v, what, k, pair) == [v |-> v, tag |-> <<what, k, pair>>]
Pair(p, q) == IF p < q THEN <<p, q>> ELSE <<q, p>>

\* The array for the SP has a block of VERTEX_NUM elements for each counterpart: element
\* i is at place Place(i) of block Block(i).
Block(i) == ((i - 1) \div VERTEX_NUM) + 1
Place(i) == ((i - 1) % VERTEX_NUM) + 1

\* Mutated form of PRFArray: the blocks go in the reverse order.
PRFArrayReversed(p, k) ==
    [i \in 1 .. Len(Counterparts[p]) * VERTEX_NUM |->
        LET q == Counterparts[p][Len(Counterparts[p]) + 1 - Block(i)]
        IN  Element(<<keys[p][q], routes[k][p][Place(i)]>>, "prf", k, Pair(p, q))]

\* The PRF values of p's route in round k, under the key of each counterpart.
PRFArray(p, k) ==
    [i \in 1 .. Len(Counterparts[p]) * VERTEX_NUM |->
        LET q == Counterparts[p][Block(i)]
        IN  Element(<<keys[p][q], routes[k][p][Place(i)]>>, "prf", k, Pair(p, q))]

\* Mutated form of DriverBlock: d_index with the driver's number for the rider's.
DriverBlockByDriver(i, j) ==
    SubSeq(prf[rider_count + j], (j - 1) * VERTEX_NUM + 1, j * VERTEX_NUM)

\* The elements at r_index and d_index for rider i and driver j.
RiderBlock(i, j) == SubSeq(prf[i], (j - 1) * VERTEX_NUM + 1, j * VERTEX_NUM)
DriverBlock(i, j) == SubSeq(prf[rider_count + j], (i - 1) * VERTEX_NUM + 1, i * VERTEX_NUM)

match_count(i, j) ==
    Cardinality({kl \in (1 .. VERTEX_NUM) \X (1 .. VERTEX_NUM) :
                    RiderBlock(i, j)[kl[1]].v = DriverBlock(i, j)[kl[2]].v})

\* Versions 1 to 3 count the threshold itself as enough, although the comments above the
\* comparison say "greater" and "higher than threshold" (Intersection_eval.cpp:125, :140,
\* and the same in _2 and _3); version 4 compares strictly.
Enough(n) == IF version = 4 THEN n > Threshold[4] ELSE n >= Threshold[version]
-----------------------------------------------------------------------------
\* The routes made of the vertices s: pairs of successive vertices, and in version 2
\* pairs of successive points of two numbers each.  (The numbers are below 2^32, so that
\* shifting one by 32 bits and adding the other keeps both.)
Pairs1(s) == [i \in 1 .. VERTEX_NUM |-> <<s[i], s[i + 1]>>]
Points2(s) == [i \in 1 .. VERTEX_NUM |-> LET point(n) == <<s[2 * n - 1], s[2 * n]>>
                                         IN  <<point(i), point(i + 1)>>]
Edges3(s) == [i \in 1 .. VERTEX_NUM |-> <<s[i], s[i + 1]>>]

\* The triples taken from the first n elements of a document: those too short are
\* skipped, and no more than VERTEX_NUM are taken.
TakenFrom(doc) ==
    LET taken[n \in 0 .. Len(doc)] ==
            IF n = 0 THEN <<>>
            ELSE IF Len(taken[n - 1]) < VERTEX_NUM /\ Len(doc[n]) >= 3
                 THEN Append(taken[n - 1], <<doc[n][1], doc[n][2], doc[n][3]>>)
                 ELSE taken[n - 1]
    IN  taken
Taken(doc) == TakenFrom(doc)[Len(doc)]

\* Mutated form of Packed4: an element that is too short takes a place in routes too.
Packed4InPlace(doc, garbage) ==
    [i \in 1 .. VERTEX_NUM |->
        IF i \in DOMAIN doc /\ Len(doc[i]) >= 3
        THEN makeBlock(<<doc[i][1], doc[i][2], doc[i][3]>>) ELSE garbage[i]]

\* What is behind the last triple was never written.
Packed4(doc, garbage) ==
    [i \in 1 .. VERTEX_NUM |->
        IF i \in DOMAIN Taken(doc) THEN makeBlock(Taken(doc)[i]) ELSE garbage[i]]

Routes(doc, garbage) == CASE version = 1 -> Pairs1(doc)
                          [] version = 2 -> Points2(doc)
                          [] version = 3 -> Edges3(doc)
                          [] version = 4 -> Packed4(doc, garbage)

Init == /\ Net!Init
        /\ version \in Versions
        /\ document \in [1 .. Repeat -> Documents[version]]
        /\ \E garbage \in [1 .. Repeat -> [Peers -> [1 .. VERTEX_NUM -> Garbage]]] :
              routes = [k \in 1 .. Repeat |->
                           [p \in Peers |-> Routes(document[k][p], garbage[k][p])]]
        /\ round = [p \in Party |-> 1]
        /\ pc = [p \in Party |-> 1]
        /\ keys = [p \in Peers |-> [q \in Range(Counterparts[p]) |-> {}]]
        /\ prf = [p \in Peers |-> <<>>]
        /\ match = <<>>

Advance(p) ==
    /\ IF pc[p] < Len(Script[p])
       THEN pc' = [pc EXCEPT ![p] = @ + 1] /\ UNCHANGED round
       ELSE pc' = [pc EXCEPT ![p] = 1] /\ round' = [round EXCEPT ![p] = @ + 1]
    /\ UNCHANGED <<version, document, routes>>

DoSend(p) == \E s \in {At(p)} :
    /\ s.op = "send"
    /\ \E data \in {IF s.what = "key"
                     THEN <<Element(SelfKey, "key", round[p], Pair(p, s.peer))>>
                     ELSE PRFArray(p, round[p])} :
          Net!Send(p, s.peer, data)
    /\ Advance(p)
    /\ UNCHANGED <<keys, prf, match>>

\* p calls recv and blocks.
CallRecv(p) == \E s \in {At(p)} :
    /\ s.op = "recv"
    /\ Net!RecvCall(p, s.peer, s.n)
    /\ UNCHANGED <<version, document, routes, round, pc, keys, prf, match>>

\* recv returns a key of a counterpart, or the array of a party to the SP.
EndRecv(p) == \E s \in {At(p)} :
    LET got == Net!Received(p, s.peer)
    IN  /\ s.op = "recv"
        /\ Net!RecvReturn(p, s.peer)
        /\ IF s.what = "key"
           THEN /\ keys' = [keys EXCEPT ![p][s.peer] = Xor(SelfKey, got[1].v)]
                /\ UNCHANGED prf
           ELSE /\ prf' = [prf EXCEPT ![s.peer] = got]
                /\ UNCHANGED keys
        /\ Advance(p)
        /\ UNCHANGED match

\* The SP has every array and counts.
Conclude(p) == \E s \in {At(p)} :
    /\ s.what = "match"
    /\ match' = Append(match, [i \in 1 .. rider_count |->
                                 [j \in 1 .. driver_count |-> Enough(match_count(i, j))]])
    /\ Advance(p)
    /\ UNCHANGED <<netVars, keys, prf>>

\* The party is done and its network object is destroyed.
Close(p) == \E s \in {At(p)} :
    /\ s.op = "close"
    /\ Net!Close(p)
    /\ UNCHANGED <<version, document, routes, round, pc, keys, prf, match>>

PartyNext(p) == DoSend(p) \/ CallRecv(p) \/ EndRecv(p) \/ Conclude(p) \/ Close(p)

Next == \E p \in Party : PartyNext(p)

\* Every party is a process of its own, which the system keeps scheduling.
Spec == Init /\ [][Next]_vars /\ \A p \in Party : WF_vars(PartyNext(p))
-----------------------------------------------------------------------------
AllClosed == \A p \in Party : ~ open[p]

\* What element i of the array read in step s is meant to be.
Expected(p, s, i) ==
    IF s.what = "key" THEN <<"key", round[p], Pair(p, s.peer)>>
    ELSE <<"prf", round[p], Pair(s.peer, Counterparts[s.peer][Block(i)])>>

InStep(p, s, queue) ==
    \A i \in DOMAIN queue : i <= s.n => queue[i].tag = Expected(p, s, i)

\* The streams are unframed and the riders and drivers run whole rounds ahead of
\* the SP: still, whatever is queued for a blocked reader is the key, or the blocks
\* in the counterparts' order, of the very round the reader is in.
Lockstep ==
    \A p \in Party : waiting[p] # Net!Idle => InStep(p, At(p), Net!Queue(waiting[p].src, p))

\* For rider i and driver j the SP compares the values i computed for j with those j
\* computed for i, of one round.  (All PRGs being seeded alike, all pairs have the
\* same key and a test that compares results cannot see a wrong index here.)
BlocksAligned ==
    At(0).what = "match" =>
        \A i \in 1 .. rider_count, j \in 1 .. driver_count :
            \A e \in Range(RiderBlock(i, j)) \cup Range(DriverBlock(i, j)) :
                e.tag = <<"prf", round[0], <<i, rider_count + j>>>>

\* The route p is given, as a set.  Of a document these are the triples of its first
\* VERTEX_NUM elements of three values or more.
Usable(doc) == {n \in DOMAIN doc : Len(doc[n]) >= 3}
First(doc) == {n \in Usable(doc) : Cardinality({m \in Usable(doc) : m <= n}) <= VERTEX_NUM}
TripleAt(doc, n) == <<doc[n][1], doc[n][2], doc[n][3]>>
Given(k, p) == IF version = 4
               THEN {TripleAt(document[k][p], n) : n \in First(document[k][p])}
               ELSE Range(routes[k][p])

\* Rider i and driver j have enough route elements in common.  In versions 1 to 3 as many
\* as the threshold are enough: that is what the code does and what the test computes,
\* with >= under a comment that says "higher" (test/quickpool_intersect.cpp:97, :124,
\* :154).
EnoughCommon(k, i, j) ==
    \E n \in {Cardinality(Given(k, i) \cap Given(k, rider_count + j))} :
        \/ n > Threshold[version]
        \/ version # 4 /\ n = Threshold[version]

\* What a document needs so that no match is invented: no value beyond the limit that is
\* only logged (Intersection_eval_4.cpp:239); and, as pairs of equal elements are
\* counted, no triple twice, unless one pair is enough anyway.
Clean(k, p) ==
    version = 4 =>
        /\ \A t \in Given(k, p) : Fits(t)
        /\ Threshold[4] > 0 =>
              \A m, n \in First(document[k][p]) :
                  TripleAt(document[k][p], m) = TripleAt(document[k][p], n) => m = n
\* The document fills the member array.
Filled(k, p) == version = 4 => Cardinality(Usable(document[k][p])) >= VERTEX_NUM

\* The SP's answers (test/quickpool_intersect.cpp:155).  No match is lost, whatever is in
\* the documents and behind the last triple of a short one: a rider and a driver with
\* enough elements in common match.  And none is invented, if the documents are clean
\* and fill the array.
MatchesCorrect ==
    \A k \in DOMAIN match, i \in 1 .. rider_count, j \in 1 .. driver_count :
        /\ EnoughCommon(k, i, j) => match[k][i][j]
        /\ (\A p \in {i, rider_count + j} : Clean(k, p) /\ Filled(k, p)) =>
              (match[k][i][j] => EnoughCommon(k, i, j))

\* None is invented for documents of any length: "count number of common values"
\* (Intersection_eval_4.cpp:372).
ShortMatchesCorrect ==
    \A k \in DOMAIN match, i \in 1 .. rider_count, j \in 1 .. driver_count :
        (\A p \in {i, rider_count + j} : Clean(k, p)) =>
            (match[k][i][j] => EnoughCommon(k, i, j))

\* Every round ends at every party, although the arrays for the SP stay in their
\* senders' buffers until these overflow or the sender is gone.
Terminates == <>AllClosed
=============================================================================
