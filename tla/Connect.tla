------------------------------ MODULE Connect ------------------------------
(***************************************************************************)
(* The two constructors of NetIOMP (src/src/io/netmp.cpp:5-126): how the   *)
(* parties, each going through its peers one after the other, come to      *)
(* share two TCP connections with every neighbour.  The state they end in  *)
(* is the one NetIOMP.tla starts from.                                     *)
(*                                                                         *)
(* The NetIO constructor is a library's.  With an address it connects,     *)
(* trying again for as long as nobody listens there; without one it        *)
(* listens on the port, blocks until it has accepted one connection, and   *)
(* stops listening.  A connection is made when the kernel has queued it at *)
(* the listener, whether or not that is the party that was meant.          *)
(***************************************************************************)
EXTENDS Integers, Sequences, FiniteSets

CONSTANTS rider_count,   \* number of riders
          driver_count,  \* number of drivers
          port,          \* the first port
          Kinds          \* the constructors to try: TRUE is the bipartite one

nP == rider_count + driver_count + 1
Party == 0 .. nP - 1
Rider == 1 .. rider_count
Driver == rider_count + 1 .. nP - 1
Conn == {"ios", "ios2"}

\* The largest port a constructor computes.
LastPort(b) == IF b THEN port + 2 * (nP - 1) + 2 * (rider_count * driver_count) + 1
               ELSE port + 2 * ((nP - 2) * nP + nP - 1) + 1

ASSUME CountAssumption == rider_count \in Nat /\ driver_count \in Nat
ASSUME PortAssumption == /\ port \in Nat /\ Kinds \subseteq BOOLEAN
                         /\ \A b \in Kinds : LastPort(b) < 65536

VARIABLES bipartite,  \* which constructor
          localhost,  \* all parties run on one host
          done,       \* done[p]: the sockets <<q, c>> whose constructor has returned
          listening,  \* listening[p]: the port on which p is in accept, or None
          backlog,    \* backlog[p]: the connections queued there, by their client end
          peer        \* peer[e]: the end that end e is connected to, once accepted
vars == <<bipartite, localhost, done, listening, backlog, peer>>

None == 0
End == Party \X Party \X Conn  \* <<p, q, c>>: what p keeps in c[q]

Connected(p, q) ==
    /\ p # q
    /\ bipartite => ~ (p \in Rider /\ q \in Rider) /\ ~ (p \in Driver /\ q \in Driver)
Host(p) == IF localhost THEN 0 ELSE p
-----------------------------------------------------------------------------
\* Mutated form of PairPort: the drivers' ids are not counted from the first.
PairPortUnshifted(i, j) ==
    IF ~bipartite THEN port + 2 * (i * nP + j)
    ELSE IF i = 0 THEN port + 2 * j
    ELSE port + 2 * (nP - 1) + 2 * ((i - 1) * driver_count + j)

\* Mutated form of PairPort: comp_port does not depend on the rider.
PairPortPerDriver(i, j) ==
    IF ~bipartite THEN port + 2 * (i * nP + j)
    ELSE IF i = 0 THEN port + 2 * j
    ELSE port + 2 * (nP - 1) + 2 * (j - rider_count)

\* Mutated form of PairPort: a port for each rider and driver instead of two.
PairPortUndoubled(i, j) ==
    IF ~bipartite THEN port + 2 * (i * nP + j)
    ELSE IF i = 0 THEN port + 2 * j
    ELSE port + 2 * (nP - 1) + 2 + (i - 1) * driver_count + j - rider_count

\* The first port of the pair i < j.
PairPort(i, j) ==
    IF ~bipartite THEN port + 2 * (i * nP + j)
    ELSE IF i = 0 THEN port + 2 * j
    ELSE port + 2 * (nP - 1) + 2 * ((i - 1) * driver_count + j - rider_count)

\* Mutated form of Port: one port for both connections.
PortShared(p, q, c) ==
    (IF p < q THEN PairPort(p, q) ELSE PairPort(q, p)) % 65536

\* The port of p's socket c[q]; a port has 16 bits.
Port(p, q, c) ==
    ((IF p < q THEN PairPort(p, q) ELSE PairPort(q, p)) + (IF c = "ios2" THEN 1 ELSE 0)) % 65536

\* Who listens: the one with the higher id for ios, the other for ios2.
Serves(p, q, c) == IF c = "ios" THEN p > q ELSE p < q

\* Mutated form of Turn: the higher id opens ios2 first.
TurnSwapped(p, q, c) ==
    /\ Connected(p, q) /\ <<q, c>> \notin done[p]
    /\ c = "ios" /\ p > q => <<q, "ios2">> \in done[p]
    /\ c = "ios2" /\ p < q => <<q, "ios">> \in done[p]
    /\ \A r \in Party : Connected(p, r) /\ r < q => {r} \X Conn \subseteq done[p]

\* c[q] is the socket p opens next.  The loops over the pairs i < j bring the peers of
\* each party in the order of their ids, and ios before ios2.
Turn(p, q, c) ==
    /\ Connected(p, q) /\ <<q, c>> \notin done[p]
    /\ c = "ios2" => <<q, "ios">> \in done[p]
    /\ \A r \in Party : Connected(p, r) /\ r < q => {r} \X Conn \subseteq done[p]
-----------------------------------------------------------------------------
\* NetIO(nullptr, port): bind and listen.
Listen(p) == \E q \in Party, c \in Conn :
    /\ Turn(p, q, c) /\ Serves(p, q, c) /\ listening[p] = None
    /\ listening' = [listening EXCEPT ![p] = Port(p, q, c)]
    /\ UNCHANGED <<bipartite, localhost, done, backlog, peer>>

\* NetIO(address, port): a connect that succeeds, at whoever listens there.
Dial(p) == \E q \in Party, c \in Conn, s \in Party :
    /\ Turn(p, q, c) /\ ~Serves(p, q, c)
    /\ Host(s) = Host(q) /\ listening[s] = Port(p, q, c)
    /\ backlog' = [backlog EXCEPT ![s] = Append(@, <<p, q, c>>)]
    /\ done' = [done EXCEPT ![p] = @ \cup {<<q, c>>}]
    /\ UNCHANGED <<bipartite, localhost, listening, peer>>

\* The listener's accept, which takes the oldest connection; the rest are dropped.
Accept(p) == \E q \in Party, c \in Conn :
    /\ Turn(p, q, c) /\ listening[p] # None /\ backlog[p] # <<>>
    /\ peer' = [peer EXCEPT ![<<p, q, c>>] = Head(backlog[p]),
                            ![Head(backlog[p])] = <<p, q, c>>]
    /\ done' = [done EXCEPT ![p] = @ \cup {<<q, c>>}]
    /\ listening' = [listening EXCEPT ![p] = None]
    /\ backlog' = [backlog EXCEPT ![p] = <<>>]
    /\ UNCHANGED <<bipartite, localhost>>

Init == /\ bipartite \in Kinds /\ localhost \in BOOLEAN
        /\ done = [p \in Party |-> {}]
        /\ listening = [p \in Party |-> None]
        /\ backlog = [p \in Party |-> <<>>]
        /\ peer = [e \in End |-> <<>>]

Next == \E p \in Party : Listen(p) \/ Dial(p) \/ Accept(p)

\* A party that can go on does: every NetIO constructor blocks in the kernel or tries
\* again every millisecond.
Fairness == \A p \in Party : WF_vars(Listen(p) \/ Dial(p) \/ Accept(p))

Spec == Init /\ [][Next]_vars /\ Fairness
-----------------------------------------------------------------------------
TypeOK == /\ bipartite \in Kinds /\ localhost \in BOOLEAN
          /\ done \in [Party -> SUBSET (Party \X Conn)]
          /\ listening \in [Party -> {None} \cup (port + 1 .. LastPort(bipartite))]
          /\ backlog \in [Party -> Seq(End)]
          /\ peer \in [End -> End \cup {<<>>}]

\* Both ends of a connection take it for the same one: what p writes to c[q] reaches
\* what q reads from c[p] (the ports computed at the two ends, netmp.cpp:10-39, :51-122).
Paired == \A p, q \in Party, c \in Conn :
             peer[<<p, q, c>>] # <<>> => peer[<<p, q, c>>] = <<q, p, c>>

\* No bind finds its port taken, though all parties may share a host.
PortsFree == \A p, q \in Party :
                p # q /\ Host(p) = Host(q) /\ listening[p] # None => listening[p] # listening[q]

\* A listener's queue holds the one connection it waits for, so that none is dropped.
NoneDropped == \A p \in Party : Len(backlog[p]) <= (IF listening[p] = None THEN 0 ELSE 1)

Complete == \A p, q \in Party : Connected(p, q) => {q} \X Conn \subseteq done[p]

\* The constructors of all parties return: their orders of opening never wait for one
\* another in a circle.
Completes == <>Complete
=============================================================================
