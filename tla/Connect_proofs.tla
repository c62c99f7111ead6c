--------------------------- MODULE Connect_proofs ---------------------------
(***************************************************************************)
(* For any number of riders and drivers the constructors pair the sockets  *)
(* of the parties correctly.  No two connections have the same port        *)
(* (PortsDistinct), so that whoever is found listening at a port is the    *)
(* one that was meant; the invariant says that a listener waits for the    *)
(* socket it opens next, and has nothing but its peer's end in its queue.  *)
(***************************************************************************)
EXTENDS Connect, DataLemmas, SequenceTheorems

\* A pair of numbers is determined by its place in the order of the pairs.
LEMMA PlaceUnique ==
    ASSUME NEW n \in Nat, NEW a \in Int, NEW i \in Int, NEW k \in Int,
           NEW j \in a .. a + n - 1, NEW l \in a .. a + n - 1, i * n + j = k * n + l
    PROVE  i = k /\ j = l
<1> DEFINE m == i - k
<1>1. m \in Int /\ m * n = l - j /\ j \in Int /\ l \in Int
  <2>1. i * n - k * n = (i - k) * n
    OBVIOUS
  <2> DEFINE x == i * n
             y == k * n
  <2>2. x \in Int /\ y \in Int /\ x + j = y + l /\ j \in Int /\ l \in Int
    OBVIOUS
  <2> HIDE DEF x, y
  <2>3. x - y = l - j
    BY <2>2
  <2> QED
    BY <2>1, <2>2, <2>3 DEF x, y
<1> HIDE DEF m
<1>2. l - j < n /\ j - l < n
  OBVIOUS
<1>3. CASE m >= 1
  <2>1. m * n >= n
    BY <1>1, <1>3
  <2> QED
    BY <2>1, <1>1, <1>2
<1>4. CASE m <= -1
  <2>1. m * n <= -n
    BY <1>1, <1>4
  <2> QED
    BY <2>1, <1>1, <1>2
<1>5. CASE m = 0
  BY <1>1, <1>5 DEF m
<1> QED
  BY <1>1, <1>3, <1>4, <1>5

\* A port that fits is what the library makes of it.
LEMMA SixteenBits ==
    ASSUME NEW w \in Nat, NEW e \in 0 .. 1, port + 2 * w + 1 < 65536
    PROVE  (port + 2 * w + e) % 65536 = port + 2 * w + e
<1> DEFINE u == port + 2 * w + e
<1> DEFINE n == 65536
<1>1. u \in Nat /\ u < n /\ n \in Nat \ {0}
  <2>1. port \in Nat
    BY PortAssumption
  <2>2. u <= port + 2 * w + 1 /\ u \in Nat
    BY <2>1
  <2> QED
    BY <2>1, <2>2
<1> HIDE DEF u, n
<1>2. u % n = u
  BY <1>1, ModSmall
<1> QED
  BY <1>2 DEF u, n

\* The place of the pair i < j among the pairs of its constructor.
Place(i, j) == IF ~bipartite THEN i * nP + j
               ELSE IF i = 0 THEN j
               ELSE (nP - 1) + ((i - 1) * driver_count + j - rider_count)

\* The pairs the constructors go through.
Pair(i, j) == i \in Party /\ j \in Party /\ i < j /\ Connected(i, j)

LEMMA Numbers ==
    /\ rider_count \in Nat /\ driver_count \in Nat /\ nP \in Nat \ {0} /\ port \in Nat
    /\ nP = rider_count + driver_count + 1
    /\ \A p \in Party : p \in Nat /\ p < nP
BY CountAssumption, PortAssumption DEF nP, Party

LEMMA BipartitePair ==
    ASSUME NEW i, NEW j, Pair(i, j), bipartite, i # 0
    PROVE  i \in Rider /\ j \in Driver
BY Numbers DEF Pair, Connected, Party, Rider, Driver

LEMMA PlaceRange ==
    ASSUME NEW i, NEW j, Pair(i, j), bipartite \in Kinds
    PROVE  /\ Place(i, j) \in Nat \ {0}
           /\ PairPort(i, j) = port + 2 * Place(i, j)
           /\ port + 2 * Place(i, j) + 1 <= LastPort(bipartite)
<1>1. /\ i \in Nat /\ j \in Nat /\ i < j /\ j <= nP - 1 /\ bipartite \in BOOLEAN
  BY Numbers, PortAssumption DEF Pair
<1>2. CASE ~bipartite
  <2> DEFINE x == i * nP
             y == (nP - 2) * nP
  <2>1. x \in Nat /\ y \in Int
    BY <1>1, Numbers
  <2>2. x <= y
    BY <1>1, Numbers
  <2>3. Place(i, j) = x + j /\ LastPort(bipartite) = port + 2 * (y + nP - 1) + 1
    BY <1>2 DEF Place, LastPort
  <2>4. PairPort(i, j) = port + 2 * (x + j)
    BY <1>2 DEF PairPort
  <2> HIDE DEF x, y
  <2> QED
    BY <1>1, <2>1, <2>2, <2>3, <2>4, Numbers
<1>3. CASE bipartite /\ i = 0
  <2> DEFINE x == rider_count * driver_count
  <2>1. x \in Nat
    BY Numbers
  <2>2. /\ Place(i, j) = j /\ LastPort(bipartite) = port + 2 * (nP - 1) + 2 * x + 1
        /\ PairPort(i, j) = port + 2 * j
    BY <1>3 DEF Place, LastPort, PairPort
  <2> HIDE DEF x
  <2> QED
    BY <1>1, <2>1, <2>2, Numbers
<1>4. CASE bipartite /\ i # 0
  <2> DEFINE x == (i - 1) * driver_count
             y == (rider_count - 1) * driver_count
             z == rider_count * driver_count
  <2>1. i \in 1 .. rider_count /\ j \in rider_count + 1 .. nP - 1
    BY <1>4, BipartitePair DEF Rider, Driver
  <2>2. x \in Nat /\ y \in Int /\ z \in Int /\ z = y + driver_count
    BY <2>1, Numbers
  <2>3. x <= y
    BY <2>1, Numbers
  <2>4. /\ Place(i, j) = (nP - 1) + (x + j - rider_count)
        /\ LastPort(bipartite) = port + 2 * (nP - 1) + 2 * z + 1
        /\ PairPort(i, j) = port + 2 * (nP - 1) + 2 * (x + j - rider_count)
    BY <1>4 DEF Place, LastPort, PairPort
  <2> HIDE DEF x, y, z
  <2> QED
    BY <1>1, <2>1, <2>2, <2>3, <2>4, Numbers
<1> QED
  BY <1>1, <1>2, <1>3, <1>4

LEMMA PlacesDistinct ==
    ASSUME NEW i, NEW j, NEW k, NEW l, Pair(i, j), Pair(k, l), bipartite \in Kinds,
           Place(i, j) = Place(k, l)
    PROVE  i = k /\ j = l
<1>1. /\ i \in Nat /\ j \in Nat /\ j <= nP - 1 /\ k \in Nat /\ l \in Nat /\ l <= nP - 1
      /\ bipartite \in BOOLEAN
  BY Numbers, PortAssumption DEF Pair
<1>2. CASE ~bipartite
  <2>1. i * nP + j = k * nP + l
    BY <1>2 DEF Place
  <2>2. j \in 0 .. 0 + nP - 1 /\ l \in 0 .. 0 + nP - 1
    BY <1>1, Numbers
  <2> QED
    BY <1>1, <2>1, <2>2, PlaceUnique, Numbers
<1>3. CASE bipartite
  <2>1. ASSUME NEW u, NEW v, Pair(u, v), u # 0
        PROVE  /\ u - 1 \in Nat /\ v \in rider_count + 1 .. rider_count + 1 + driver_count - 1
               /\ (u - 1) * driver_count \in Nat /\ Place(u, v) > nP - 1
               /\ Place(u, v) = (nP - 1) + ((u - 1) * driver_count + v - rider_count)
    <3>1. u \in 1 .. rider_count /\ v \in rider_count + 1 .. nP - 1
      BY <1>3, <2>1, BipartitePair DEF Rider, Driver
    <3>2. (u - 1) * driver_count \in Nat /\ u - 1 \in Nat
      BY <3>1, Numbers
    <3> DEFINE x == (u - 1) * driver_count
    <3>3. Place(u, v) = (nP - 1) + (x + v - rider_count)
      BY <1>3, <2>1 DEF Place
    <3>4. x \in Nat
      BY <3>2
    <3> HIDE DEF x
    <3>5. (nP - 1) + (x + v - rider_count) > nP - 1
      BY <3>1, <3>4, Numbers
    <3> QED
      BY <3>1, <3>2, <3>3, <3>5, Numbers DEF x
  <2>2. ASSUME NEW v PROVE Place(0, v) = v
    BY <1>3 DEF Place
  <2>3. i = 0 <=> k = 0
    BY <1>1, <2>1, <2>2, Numbers
  <2>4. CASE i # 0
    <3> DEFINE x == (i - 1) * driver_count
               y == (k - 1) * driver_count
    <3>1. /\ x \in Nat /\ y \in Nat
          /\ (nP - 1) + (x + j - rider_count) = (nP - 1) + (y + l - rider_count)
      BY <2>1, <2>3, <2>4
    <3> HIDE DEF x, y
    <3>2. x + j = y + l
      BY <1>1, <3>1, Numbers
    <3>3. (i - 1) * driver_count + j = (k - 1) * driver_count + l
      BY <3>2 DEF x, y
    <3>4. /\ i - 1 \in Int /\ k - 1 \in Int /\ rider_count + 1 \in Int
          /\ j \in rider_count + 1 .. rider_count + 1 + driver_count - 1
          /\ l \in rider_count + 1 .. rider_count + 1 + driver_count - 1
      BY <2>1, <2>3, <2>4, Numbers
    <3>5. i - 1 = k - 1 /\ j = l
      BY <3>3, <3>4, PlaceUnique, Numbers
    <3> QED
      BY <1>1, <3>5
  <2> QED
    BY <2>2, <2>3, <2>4
<1> QED
  BY <1>1, <1>2, <1>3

\* Two sockets with one port are the two ends of one connection.
LEMMA PortsDistinct ==
    ASSUME bipartite \in Kinds,
           NEW p \in Party, NEW q \in Party, NEW c \in Conn, Connected(p, q),
           NEW r \in Party, NEW s \in Party, NEW d \in Conn, Connected(r, s),
           Port(p, q, c) = Port(r, s, d)
    PROVE  c = d /\ ((p = r /\ q = s) \/ (p = s /\ q = r))
<1> DEFINE i == IF p < q THEN p ELSE q
           j == IF p < q THEN q ELSE p
           k == IF r < s THEN r ELSE s
           l == IF r < s THEN s ELSE r
           x == Place(i, j)
           y == Place(k, l)
           a == IF c = "ios2" THEN 1 ELSE 0
           b == IF d = "ios2" THEN 1 ELSE 0
<1>1. Pair(i, j) /\ Pair(k, l)
  BY Numbers DEF Pair, Connected
<1>2. /\ x \in Nat /\ y \in Nat /\ a \in 0 .. 1 /\ b \in 0 .. 1
      /\ PairPort(i, j) = port + 2 * x /\ PairPort(k, l) = port + 2 * y
      /\ port + 2 * x + 1 < 65536 /\ port + 2 * y + 1 < 65536
  <2>1. LastPort(bipartite) < 65536 /\ bipartite \in BOOLEAN
    BY PortAssumption
  <2>2. LastPort(bipartite) \in Int
    BY Numbers, <2>1 DEF LastPort
  <2>3. /\ x \in Nat /\ y \in Nat
        /\ PairPort(i, j) = port + 2 * x /\ PairPort(k, l) = port + 2 * y
        /\ port + 2 * x + 1 <= LastPort(bipartite) /\ port + 2 * y + 1 <= LastPort(bipartite)
    BY <1>1, PlaceRange
  <2> HIDE DEF x, y, i, j, k, l
  <2> QED
    BY <2>1, <2>2, <2>3, Numbers
<1>3. Port(p, q, c) = (port + 2 * x + a) % 65536
  BY <1>2 DEF Port
<1>9. Port(r, s, d) = (port + 2 * y + b) % 65536
  BY <1>2 DEF Port
<1>4. (a = b => c = d) /\ (i = k /\ j = l => (p = r /\ q = s) \/ (p = s /\ q = r))
  BY DEF Conn
<1> HIDE DEF x, y, a, b, i, j, k, l
<1>5. Port(p, q, c) = port + 2 * x + a /\ Port(r, s, d) = port + 2 * y + b
  <2>2. /\ (port + 2 * x + a) % 65536 = port + 2 * x + a
        /\ (port + 2 * y + b) % 65536 = port + 2 * y + b
    BY <1>2, SixteenBits
  <2>3. Port(p, q, c) = port + 2 * x + a
    BY <1>3, <2>2
  <2>4. Port(r, s, d) = port + 2 * y + b
    BY <1>9, <2>2
  <2> QED
    BY <2>3, <2>4
<1>6. port + 2 * x + a = port + 2 * y + b
  BY <1>5
<1>7. a = b /\ x = y
  BY <1>2, <1>6, Numbers
<1>8. i = k /\ j = l
  BY <1>1, <1>7, PlacesDistinct DEF x, y
<1> QED
  BY <1>4, <1>7, <1>8

LEMMA PortType ==
    ASSUME bipartite \in Kinds, NEW p \in Party, NEW q \in Party, NEW c \in Conn, Connected(p, q)
    PROVE  Port(p, q, c) \in port + 1 .. LastPort(bipartite) /\ Port(p, q, c) # None
<1> DEFINE i == IF p < q THEN p ELSE q
           j == IF p < q THEN q ELSE p
           x == Place(i, j)
           a == IF c = "ios2" THEN 1 ELSE 0
           m == LastPort(bipartite)
<1>1. Pair(i, j)
  BY Numbers DEF Pair, Connected
<1>2. x \in Nat \ {0} /\ PairPort(i, j) = port + 2 * x /\ port + 2 * x + 1 <= m
  BY <1>1, PlaceRange
<1>3. Port(p, q, c) = (port + 2 * x + a) % 65536 /\ a \in 0 .. 1
  BY <1>2 DEF Port
<1>4. m < 65536 /\ m \in Int
  BY Numbers, PortAssumption DEF LastPort
<1> HIDE DEF x, a, m, i, j
<1>5. (port + 2 * x + a) % 65536 = port + 2 * x + a
  BY <1>2, <1>3, <1>4, SixteenBits, Numbers
<1>6. port + 2 * x + a \in port + 1 .. m /\ port + 2 * x + a # 0
  BY <1>2, <1>3, <1>4, Numbers
<1> QED
  BY <1>3, <1>5, <1>6 DEF m, None

\* A party opens one socket at a time.
LEMMA TurnUnique ==
    ASSUME NEW p \in Party, NEW q \in Party, NEW c \in Conn, Turn(p, q, c),
           NEW r \in Party, NEW d \in Conn, Turn(p, r, d)
    PROVE  q = r /\ c = d
<1>1. ASSUME NEW s \in Party, NEW t \in Party, NEW e \in Conn, NEW f \in Conn,
             Turn(p, s, e), Turn(p, t, f), s < t
      PROVE  FALSE
  BY <1>1 DEF Turn
<1>2. q = r
  <2>1. q \in Nat /\ r \in Nat
    BY Numbers
  <2>2. ~(q < r) /\ ~(r < q)
    BY <1>1
  <2> QED
    BY <2>1, <2>2
<1>3. c = d
  BY <1>2 DEF Turn, Conn
<1> QED
  BY <1>2, <1>3
-----------------------------------------------------------------------------
\* p is in the accept of its socket c[q].
Awaits(p, q, c) == Turn(p, q, c) /\ Serves(p, q, c) /\ listening[p] = Port(p, q, c)

\* A party listens for the socket it opens next.
ListensRight ==
    \A p \in Party : listening[p] # None => \E q \in Party, c \in Conn : Awaits(p, q, c)

\* What is queued there is the peer's end of it.
QueueRight ==
    \A p \in Party :
       backlog[p] # <<>> =>
          /\ listening[p] # None
          /\ \E q \in Party, c \in Conn :
                Turn(p, q, c) /\ backlog[p] = <<<<q, p, c>>>> /\ <<p, c>> \in done[q]

ConnectInv == TypeOK /\ ListensRight /\ QueueRight /\ Paired

LEMMA InitInv == Init => ConnectInv
<1> SUFFICES ASSUME Init PROVE ConnectInv
  OBVIOUS
<1>1. TypeOK
  BY DEF Init, TypeOK
<1>2. ListensRight /\ QueueRight
  BY DEF Init, ListensRight, QueueRight
<1>3. Paired
  BY DEF Init, Paired, End
<1> QED
  BY <1>1, <1>2, <1>3 DEF ConnectInv

\* The turn of a party depends on its own sockets alone.
LEMMA TurnFrame ==
    ASSUME bipartite' = bipartite, NEW p, done'[p] = done[p], NEW q, NEW c
    PROVE  Turn(p, q, c)' <=> Turn(p, q, c)
BY DEF Turn, Connected

LEMMA PortFrame ==
    ASSUME bipartite' = bipartite, NEW p, NEW q, NEW c
    PROVE  Port(p, q, c)' = Port(p, q, c)
BY DEF Port, PairPort

LEMMA ListenInv ==
    ASSUME ConnectInv, NEW p \in Party, Listen(p)
    PROVE  ConnectInv'
<1> USE DEF ConnectInv
<1>1. PICK q \in Party, c \in Conn :
         /\ Turn(p, q, c) /\ Serves(p, q, c) /\ listening[p] = None
         /\ listening' = [listening EXCEPT ![p] = Port(p, q, c)]
         /\ UNCHANGED <<bipartite, localhost, done, backlog, peer>>
  BY DEF Listen
<1>2. Connected(p, q) /\ bipartite \in Kinds
  BY <1>1 DEF Turn, TypeOK
<1>3. Port(p, q, c) \in port + 1 .. LastPort(bipartite) /\ Port(p, q, c) # None
  BY <1>2, PortType
<1>4. listening'[p] = Port(p, q, c) /\ \A r \in Party : r # p => listening'[r] = listening[r]
  BY <1>1 DEF TypeOK
<1>5. TypeOK'
  BY <1>1, <1>3 DEF TypeOK, LastPort
<1>6. ListensRight'
  <2> SUFFICES ASSUME NEW r \in Party, listening'[r] # None
               PROVE  \E s \in Party, d \in Conn : Awaits(r, s, d)'
    BY DEF ListensRight
  <2>1. CASE r = p
    <3>1. Turn(p, q, c)' /\ Port(p, q, c)' = Port(p, q, c) /\ Serves(p, q, c)'
      BY <1>1, TurnFrame, PortFrame DEF Serves
    <3> QED
      BY <1>4, <2>1, <3>1 DEF Awaits
  <2>2. CASE r # p
    <3>1. PICK s \in Party, d \in Conn : Awaits(r, s, d)
      BY <1>4, <2>2 DEF ListensRight
    <3>2. Turn(r, s, d)' /\ Port(r, s, d)' = Port(r, s, d)
      BY <1>1, <3>1, TurnFrame, PortFrame DEF Awaits
    <3> QED
      BY <1>4, <2>2, <3>1, <3>2 DEF Awaits, Serves
  <2> QED
    BY <2>1, <2>2
<1>7. QueueRight'
  <2> SUFFICES ASSUME NEW r \in Party, backlog'[r] # <<>>
               PROVE  /\ listening'[r] # None
                      /\ \E s \in Party, d \in Conn :
                            Turn(r, s, d)' /\ backlog'[r] = <<<<s, r, d>>>> /\ <<r, d>> \in done'[s]
    BY DEF QueueRight
  <2>1. listening[r] # None
    BY <1>1 DEF QueueRight
  <2>2. PICK s \in Party, d \in Conn :
           Turn(r, s, d) /\ backlog[r] = <<<<s, r, d>>>> /\ <<r, d>> \in done[s]
    BY <1>1 DEF QueueRight
  <2>3. Turn(r, s, d)'
    BY <1>1, <2>2, TurnFrame
  <2> QED
    BY <1>1, <1>4, <2>1, <2>2, <2>3
<1>8. Paired'
  BY <1>1 DEF Paired
<1> QED
  BY <1>5, <1>6, <1>7, <1>8

\* Who dials finds its peer, which waits for that socket and has nothing queued.
LEMMA DialFinds ==
    ASSUME ConnectInv, NEW p \in Party, NEW q \in Party, NEW c \in Conn, NEW s \in Party,
           Turn(p, q, c), ~Serves(p, q, c), listening[s] = Port(p, q, c)
    PROVE  s = q /\ Turn(q, p, c) /\ backlog[q] = <<>> /\ listening[p] = None
<1> USE DEF ConnectInv
<1>1. Connected(p, q) /\ bipartite \in Kinds /\ p # q
  BY DEF Turn, TypeOK, Connected
<1>2. listening[s] # None
  BY <1>1, PortType
<1>3. PICK r \in Party, d \in Conn : Awaits(s, r, d)
  BY <1>2 DEF ListensRight
<1>4. Connected(s, r) /\ Port(p, q, c) = Port(s, r, d)
  BY <1>3 DEF Awaits, Turn
<1>5. c = d /\ ((p = s /\ q = r) \/ (p = r /\ q = s))
  BY <1>1, <1>4, PortsDistinct
<1>6. s = q /\ r = p
  BY <1>3, <1>5 DEF Awaits
<1>7. Turn(q, p, c)
  BY <1>3, <1>5, <1>6 DEF Awaits
<1>8. backlog[q] = <<>>
  <2> SUFFICES ASSUME backlog[q] # <<>> PROVE FALSE
    OBVIOUS
  <2>1. PICK t \in Party, e \in Conn : Turn(q, t, e) /\ <<q, e>> \in done[t]
    BY DEF QueueRight
  <2>2. t = p /\ e = c
    BY <1>7, <2>1, TurnUnique
  <2> QED
    BY <2>1, <2>2 DEF Turn
<1>9. listening[p] = None
  <2> SUFFICES ASSUME listening[p] # None PROVE FALSE
    OBVIOUS
  <2>1. PICK t \in Party, e \in Conn : Awaits(p, t, e)
    BY DEF ListensRight
  <2>2. t = q /\ e = c
    BY <2>1, TurnUnique DEF Awaits
  <2> QED
    BY <2>1, <2>2 DEF Awaits
<1> QED
  BY <1>6, <1>7, <1>8, <1>9

LEMMA DialInv ==
    ASSUME ConnectInv, NEW p \in Party, Dial(p)
    PROVE  ConnectInv'
<1> USE DEF ConnectInv
<1>1. PICK q \in Party, c \in Conn, s \in Party :
         /\ Turn(p, q, c) /\ ~Serves(p, q, c)
         /\ listening[s] = Port(p, q, c)
         /\ backlog' = [backlog EXCEPT ![s] = Append(@, <<p, q, c>>)]
         /\ done' = [done EXCEPT ![p] = @ \cup {<<q, c>>}]
         /\ UNCHANGED <<bipartite, localhost, listening, peer>>
  BY DEF Dial
<1>2. s = q /\ Turn(q, p, c) /\ backlog[q] = <<>> /\ listening[p] = None /\ p # q
      /\ listening[q] # None
  <2>1. s = q /\ Turn(q, p, c) /\ backlog[q] = <<>> /\ listening[p] = None
    BY <1>1, DialFinds
  <2>2. Connected(p, q) /\ p # q /\ bipartite \in Kinds
    BY <1>1 DEF Turn, Connected, TypeOK
  <2> QED
    BY <1>1, <2>1, <2>2, PortType
<1>3. /\ backlog'[q] = <<<<p, q, c>>>>
      /\ \A r \in Party : r # q => backlog'[r] = backlog[r]
      /\ \A r \in Party : r # p => done'[r] = done[r]
      /\ \A r \in Party : done[r] \subseteq done'[r]
      /\ <<q, c>> \in done'[p]
  <2>1. backlog \in [Party -> Seq(End)] /\ done \in [Party -> SUBSET (Party \X Conn)]
    BY DEF TypeOK
  <2> QED
    BY <1>1, <1>2, <2>1
<1>4. TypeOK'
  <2>1. <<p, q, c>> \in End /\ <<q, c>> \in Party \X Conn
    BY DEF End
  <2>2. backlog' \in [Party -> Seq(End)]
    <3>1. <<<<p, q, c>>>> \in Seq(End)
      BY <2>1
    <3> QED
      BY <1>1, <1>2, <1>3, <3>1 DEF TypeOK
  <2>3. done' \in [Party -> SUBSET (Party \X Conn)]
    BY <1>1, <2>1 DEF TypeOK
  <2> QED
    BY <1>1, <2>2, <2>3 DEF TypeOK, LastPort
<1>5. ASSUME NEW r \in Party, NEW t \in Party, NEW d \in Conn, Turn(r, t, d), r # p
      PROVE  Turn(r, t, d)'
  BY <1>1, <1>3, <1>5, TurnFrame
<1>6. ListensRight'
  <2> SUFFICES ASSUME NEW r \in Party, listening'[r] # None
               PROVE  \E t \in Party, d \in Conn : Awaits(r, t, d)'
    BY DEF ListensRight
  <2>1. r # p /\ listening'[r] = listening[r]
    BY <1>1, <1>2
  <2>2. PICK t \in Party, d \in Conn : Awaits(r, t, d)
    BY <2>1 DEF ListensRight
  <2>3. Turn(r, t, d)' /\ Port(r, t, d)' = Port(r, t, d)
    BY <1>1, <1>5, <2>1, <2>2, PortFrame DEF Awaits
  <2> QED
    BY <2>1, <2>2, <2>3 DEF Awaits, Serves
<1>7. QueueRight'
  <2> SUFFICES ASSUME NEW r \in Party, backlog'[r] # <<>>
               PROVE  /\ listening'[r] # None
                      /\ \E t \in Party, d \in Conn :
                            Turn(r, t, d)' /\ backlog'[r] = <<<<t, r, d>>>> /\ <<r, d>> \in done'[t]
    BY DEF QueueRight
  <2>1. CASE r = q
    <3>1. Turn(q, p, c)'
      BY <1>2, <1>5
    <3> QED
      BY <1>1, <1>2, <1>3, <2>1, <3>1
  <2>2. CASE r # q
    <3>1. backlog[r] # <<>> /\ listening[r] # None /\ r # p
      BY <1>2, <1>3, <2>2 DEF QueueRight
    <3>2. PICK t \in Party, d \in Conn :
             Turn(r, t, d) /\ backlog[r] = <<<<t, r, d>>>> /\ <<r, d>> \in done[t]
      BY <3>1 DEF QueueRight
    <3>3. Turn(r, t, d)' /\ <<r, d>> \in done'[t]
      BY <1>3, <1>5, <3>1, <3>2
    <3> QED
      BY <1>1, <1>3, <2>2, <3>1, <3>2, <3>3
  <2> QED
    BY <2>1, <2>2
<1>8. Paired'
  BY <1>1 DEF Paired
<1> QED
  BY <1>4, <1>6, <1>7, <1>8

LEMMA AcceptInv ==
    ASSUME ConnectInv, NEW p \in Party, Accept(p)
    PROVE  ConnectInv'
<1> USE DEF ConnectInv
<1>1. PICK q \in Party, c \in Conn :
         /\ Turn(p, q, c) /\ listening[p] # None /\ backlog[p] # <<>>
         /\ peer' = [peer EXCEPT ![<<p, q, c>>] = Head(backlog[p]),
                                 ![Head(backlog[p])] = <<p, q, c>>]
         /\ done' = [done EXCEPT ![p] = @ \cup {<<q, c>>}]
         /\ listening' = [listening EXCEPT ![p] = None]
         /\ backlog' = [backlog EXCEPT ![p] = <<>>]
         /\ UNCHANGED <<bipartite, localhost>>
  BY DEF Accept
<1>2. Head(backlog[p]) = <<q, p, c>>
  <2>1. PICK r \in Party, d \in Conn : Turn(p, r, d) /\ backlog[p] = <<<<r, p, d>>>>
    BY <1>1 DEF QueueRight
  <2>2. r = q /\ d = c
    BY <1>1, <2>1, TurnUnique
  <2> QED
    BY <2>1, <2>2
<1>3. /\ listening'[p] = None /\ backlog'[p] = <<>>
      /\ \A r \in Party : r # p => /\ backlog'[r] = backlog[r] /\ done'[r] = done[r]
                                   /\ listening'[r] = listening[r]
      /\ \A r \in Party : done[r] \subseteq done'[r]
  BY <1>1 DEF TypeOK
<1>4. <<p, q, c>> \in End /\ <<q, p, c>> \in End /\ <<q, c>> \in Party \X Conn
  BY DEF End
<1>5. TypeOK'
  <2>1. done' \in [Party -> SUBSET (Party \X Conn)]
    BY <1>1, <1>4 DEF TypeOK
  <2>2. peer' \in [End -> End \cup {<<>>}]
    BY <1>1, <1>2, <1>4 DEF TypeOK
  <2>3. backlog' \in [Party -> Seq(End)]
    BY <1>1 DEF TypeOK
  <2>4. listening' \in [Party -> {None} \cup (port + 1 .. LastPort(bipartite))]
    BY <1>1 DEF TypeOK
  <2> QED
    BY <1>1, <2>1, <2>2, <2>3, <2>4 DEF TypeOK, LastPort
<1>6. ASSUME NEW r \in Party, NEW t \in Party, NEW d \in Conn, Turn(r, t, d), r # p
      PROVE  Turn(r, t, d)'
  BY <1>1, <1>3, <1>6, TurnFrame
<1>7. ListensRight'
  <2> SUFFICES ASSUME NEW r \in Party, listening'[r] # None
               PROVE  \E t \in Party, d \in Conn : Awaits(r, t, d)'
    BY DEF ListensRight
  <2>1. r # p /\ listening'[r] = listening[r]
    BY <1>3
  <2>2. PICK t \in Party, d \in Conn : Awaits(r, t, d)
    BY <2>1 DEF ListensRight
  <2>3. Turn(r, t, d)' /\ Port(r, t, d)' = Port(r, t, d)
    BY <1>1, <1>6, <2>1, <2>2, PortFrame DEF Awaits
  <2> QED
    BY <2>1, <2>2, <2>3 DEF Awaits, Serves
<1>8. QueueRight'
  <2> SUFFICES ASSUME NEW r \in Party, backlog'[r] # <<>>
               PROVE  /\ listening'[r] # None
                      /\ \E t \in Party, d \in Conn :
                            Turn(r, t, d)' /\ backlog'[r] = <<<<t, r, d>>>> /\ <<r, d>> \in done'[t]
    BY DEF QueueRight
  <2>1. r # p /\ backlog[r] # <<>> /\ listening[r] # None /\ listening'[r] = listening[r]
    BY <1>3 DEF QueueRight
  <2>2. PICK t \in Party, d \in Conn :
           Turn(r, t, d) /\ backlog[r] = <<<<t, r, d>>>> /\ <<r, d>> \in done[t]
    BY <2>1 DEF QueueRight
  <2>3. Turn(r, t, d)' /\ <<r, d>> \in done'[t]
    BY <1>3, <1>6, <2>1, <2>2
  <2> QED
    BY <1>3, <2>1, <2>2, <2>3
<1>9. Paired'
  <2> SUFFICES ASSUME NEW r \in Party, NEW t \in Party, NEW d \in Conn, peer'[<<r, t, d>>] # <<>>
               PROVE  peer'[<<r, t, d>>] = <<t, r, d>>
    BY DEF Paired
  <2>1. <<r, t, d>> \in End
    BY DEF End
  <2>2. peer'[<<r, t, d>>] = IF <<r, t, d>> = <<q, p, c>> THEN <<p, q, c>>
                             ELSE IF <<r, t, d>> = <<p, q, c>> THEN <<q, p, c>>
                             ELSE peer[<<r, t, d>>]
    BY <1>1, <1>2, <1>4, <2>1 DEF TypeOK
  <2> QED
    BY <2>2 DEF Paired
<1> QED
  BY <1>5, <1>7, <1>8, <1>9

LEMMA StepInv == ConnectInv /\ [Next]_vars => ConnectInv'
<1> SUFFICES ASSUME ConnectInv, [Next]_vars PROVE ConnectInv'
  OBVIOUS
<1>1. ASSUME NEW p \in Party, Listen(p) PROVE ConnectInv'
  BY <1>1, ListenInv
<1>2. ASSUME NEW p \in Party, Dial(p) PROVE ConnectInv'
  BY <1>2, DialInv
<1>3. ASSUME NEW p \in Party, Accept(p) PROVE ConnectInv'
  BY <1>3, AcceptInv
<1>4. CASE UNCHANGED vars
  <2> USE <1>4 DEF vars, ConnectInv
  <2>1. TypeOK'
    BY DEF TypeOK, LastPort
  <2>2. \A p, q, c : /\ Turn(p, q, c)' <=> Turn(p, q, c)
                     /\ Port(p, q, c)' = Port(p, q, c)
    BY DEF Turn, Connected, Port, PairPort
  <2>3. ListensRight'
    BY <2>2 DEF ListensRight, Awaits, Serves
  <2>4. QueueRight'
    BY <2>2 DEF QueueRight
  <2>5. Paired'
    BY DEF Paired
  <2> QED
    BY <2>1, <2>3, <2>4, <2>5
<1> QED
  BY <1>1, <1>2, <1>3, <1>4 DEF Next

LEMMA Invariant == Spec => []ConnectInv
<1>1. Init => ConnectInv
  BY InitInv
<1>2. ConnectInv /\ [Next]_vars => ConnectInv'
  BY StepInv
<1> QED
  BY <1>1, <1>2, PTL DEF Spec
-----------------------------------------------------------------------------
LEMMA InvPortsFree == ConnectInv => PortsFree
<1> SUFFICES ASSUME ConnectInv, NEW p \in Party, NEW q \in Party, p # q, listening[p] # None,
                    listening[p] = listening[q]
             PROVE  FALSE
  BY DEF PortsFree
<1> USE DEF ConnectInv
<1>1. PICK r \in Party, c \in Conn : Awaits(p, r, c)
  BY DEF ListensRight
<1>2. PICK s \in Party, d \in Conn : Awaits(q, s, d)
  BY DEF ListensRight
<1>3. /\ Connected(p, r) /\ Connected(q, s) /\ Port(p, r, c) = Port(q, s, d)
      /\ bipartite \in Kinds
  BY <1>1, <1>2 DEF Awaits, Turn, TypeOK
<1>4. c = d /\ p = s /\ r = q
  BY <1>3, PortsDistinct
<1>5. p \in Nat /\ q \in Nat
  BY Numbers
<1> QED
  BY <1>1, <1>2, <1>4, <1>5 DEF Awaits, Serves

LEMMA InvNoneDropped == ConnectInv => NoneDropped
<1> SUFFICES ASSUME ConnectInv, NEW p \in Party
             PROVE  Len(backlog[p]) <= (IF listening[p] = None THEN 0 ELSE 1)
  BY DEF NoneDropped
<1>1. CASE backlog[p] = <<>>
  BY <1>1
<1>2. CASE backlog[p] # <<>>
  <2>1. listening[p] # None
    BY <1>2 DEF ConnectInv, QueueRight
  <2>2. \E e : backlog[p] = <<e>>
    BY <1>2 DEF ConnectInv, QueueRight
  <2>3. Len(backlog[p]) = 1
    BY <2>2
  <2> QED
    BY <2>1, <2>3
<1> QED
  BY <1>1, <1>2

\* Type correctness: ports, queues and the ends of connections are what the constructors
\* make of them.
THEOREM TypeCorrect == Spec => []TypeOK
<1>1. ConnectInv => TypeOK
  BY DEF ConnectInv
<1> QED
  BY <1>1, Invariant, PTL

\* Whatever the order in which the parties come, the two ends of every connection
\* agree on what it is, with either constructor and any number of riders and drivers.
THEOREM SocketsPaired == Spec => []Paired
<1>1. ConnectInv => Paired
  BY DEF ConnectInv
<1> QED
  BY <1>1, Invariant, PTL

\* No party finds its port taken, though all may run on one host.
THEOREM NoPortTaken == Spec => []PortsFree
BY InvPortsFree, Invariant, PTL

\* No connection is left in the queue of a listener that stops listening.
THEOREM NoConnectionDropped == Spec => []NoneDropped
BY InvNoneDropped, Invariant, PTL
=============================================================================
