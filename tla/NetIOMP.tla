------------------------------ MODULE NetIOMP ------------------------------
(***************************************************************************)
(* The multi-party network object (src/src/io/netmp.{h,cpp}) on top of     *)
(* emp-tool's NetIO.  Every pair of neighbouring parties is joined by two  *)
(* TCP connections, kept in ios[] and ios2[]; each is a stdio stream with  *)
(* a write buffer, so that what was sent is visible to the peer only once  *)
(* that buffer has been flushed.  The object tracks in sent[] whether it   *)
(* ever wrote to a peer, and recv flushes the sender's own channel to the  *)
(* peer it is about to block on -- and to nobody else.                     *)
(*                                                                         *)
(* The parties are 0 (the service provider SP), the riders                 *)
(* 1..rider_count and the drivers rider_count+1..rider_count+driver_count. *)
(* Connection set-up is not modelled here: Init is the state at the end of *)
(* the constructor.                                                        *)
(***************************************************************************)
EXTENDS Integers, Sequences, FiniteSetsExt

CONSTANTS rider_count,   \* number of riders
          driver_count,  \* number of drivers
          Bipartite,     \* which constructor: bipartite (TRUE) or full mesh
          FlushOnSend,   \* __clang__ is defined: send() flushes
          BufCap,        \* items the stdio buffer of one stream holds
          Item,          \* what one array element sent is
          Message,       \* the arrays one send may carry
          MaxRead,       \* bound: the longest read
          MaxInFlight    \* bound: items sent and not yet read, over all pairs

ASSUME CountAssumption == rider_count \in Nat /\ driver_count \in Nat
ASSUME BuildAssumption == Bipartite \in BOOLEAN /\ FlushOnSend \in BOOLEAN
ASSUME BufAssumption == BufCap \in Nat
ASSUME MessageAssumption == Message \subseteq Seq(Item)
ASSUME BoundAssumption == MaxRead \in Nat /\ MaxInFlight \in Nat

nP == rider_count + driver_count + 1
Party == 0 .. nP - 1
Rider == 1 .. rider_count
Driver == rider_count + 1 .. nP - 1
Conn == {"ios", "ios2"}

\* The bipartite constructor leaves the entries of same-role pairs null.
Connected(p, q) ==
    /\ p # q
    /\ Bipartite => ~ (p \in Rider /\ q \in Rider) /\ ~ (p \in Driver /\ q \in Driver)
Neighbour == {l \in Party \X Party : Connected(l[1], l[2])}

\* A link is one direction of one connection: <<from, to, which array>>.
Link == {l \in Party \X Party \X Conn : Connected(l[1], l[2])}

VARIABLES out,      \* out[l]: items in the writer's stdio buffer
          wire,     \* wire[l]: items handed to TCP and not yet read
          sent,     \* sent[<<p, q>>]: p's flag sent[q]
          waiting,  \* waiting[p]: the recv p is blocked in, or Idle
          open      \* open[p]: p's NetIOMP object has not been destroyed
vars == <<out, wire, sent, waiting, open>>

Idle == [src |-> -1, n |-> 0]

Init == /\ out = [l \in Link |-> <<>>]
        /\ wire = [l \in Link |-> <<>>]
        /\ sent = [l \in Neighbour |-> FALSE]
        /\ waiting = [p \in Party |-> Idle]
        /\ open = [p \in Party |-> TRUE]
-----------------------------------------------------------------------------
\* Mutated form of SendChannel: send() forgets the ios2 branch.
SendChannelOneArray(p, q) == "ios"

\* send() and flush(dst) of p pick this array for peer q; recv() picks the other.
SendChannel(p, q) == IF p < q THEN "ios" ELSE "ios2"
RecvChannel(p, q) == IF q < p THEN "ios" ELSE "ios2"

\* flush(rider_count, driver_count, idx) picks the array by p's role.
RoleChannel(p) == IF p \in Driver THEN "ios2" ELSE "ios"

SendLink(p, q) == <<p, q, SendChannel(p, q)>>  \* p writes it
RecvLink(p, q) == <<q, p, RecvChannel(p, q)>>  \* p reads it

Queue(p, q) == wire[SendLink(p, q)] \o out[SendLink(p, q)]

\* Mutated form of Written: stdio writes nothing out before a flush.
WrittenOnlyOnFlush(s) == IF FlushOnSend THEN {Len(s)} ELSE {0}

\* How many items of stream contents s stdio may have written out: none while
\* they fit its buffer, otherwise enough for the rest to fit (how much more is
\* the C library's choice); everything when send() flushes.
Written(s) == IF FlushOnSend THEN {Len(s)}
              ELSE IF Len(s) <= BufCap THEN {0}
              ELSE {k \in 1 .. Len(s) : Len(s) - k <= BufCap}

\* Mutated form of FlushLinks: the buffer is written out but not emptied.
FlushLinksKeepsBuffer(L) ==
    /\ wire' = [l \in Link |-> IF l \in L THEN wire[l] \o out[l] ELSE wire[l]]
    /\ UNCHANGED out

\* fflush of every link in L.
FlushLinks(L) ==
    /\ wire' = [l \in Link |-> IF l \in L THEN wire[l] \o out[l] ELSE wire[l]]
    /\ out' = [l \in Link |-> IF l \in L THEN <<>> ELSE out[l]]

\* The thread of p runs: it is not blocked in recv and its object exists.
Running(p) == open[p] /\ waiting[p] = Idle

Send(p, q, data) ==
    /\ Running(p)
    /\ LET l == SendLink(p, q)
           s == out[l] \o data
       IN \E k \in Written(s) :
             /\ wire' = [wire EXCEPT ![l] = @ \o SubSeq(s, 1, k)]
             /\ out' = [out EXCEPT ![l] = SubSeq(s, k + 1, Len(s))]
    /\ sent' = [sent EXCEPT ![<<p, q>>] = TRUE]
    /\ UNCHANGED <<waiting, open>>

\* Mutated forms of RecvCall: no flush before blocking; the flush overload
\* that picks the array by p's role.
RecvCallNoFlush(p, q, n) ==
    /\ Running(p)
    /\ waiting' = [waiting EXCEPT ![p] = [src |-> q, n |-> n]]
    /\ UNCHANGED <<out, wire, sent, open>>

RecvCallByRole(p, q, n) ==
    /\ Running(p)
    /\ FlushLinks({<<p, q, RoleChannel(p)>>})
    /\ waiting' = [waiting EXCEPT ![p] = [src |-> q, n |-> n]]
    /\ UNCHANGED <<sent, open>>

\* recv(), up to the point where it blocks.
RecvCall(p, q, n) ==
    /\ Running(p)
    /\ FlushLinks(IF sent[<<p, q>>] THEN {SendLink(p, q)} ELSE {})
    /\ waiting' = [waiting EXCEPT ![p] = [src |-> q, n |-> n]]
    /\ UNCHANGED <<sent, open>>

\* The items a recv of p from q returns, and its return.
Received(p, q) == SubSeq(wire[RecvLink(p, q)], 1, waiting[p].n)

RecvReturn(p, q) ==
    /\ waiting[p].src = q
    /\ Len(wire[RecvLink(p, q)]) >= waiting[p].n
    /\ wire' = [wire EXCEPT ![RecvLink(p, q)] =
                              SubSeq(@, waiting[p].n + 1, Len(@))]
    /\ waiting' = [waiting EXCEPT ![p] = Idle]
    /\ UNCHANGED <<out, sent, open>>

\* flush(idx)
Flush(p, q) == /\ Running(p)
               /\ FlushLinks({SendLink(p, q)})
               /\ UNCHANGED <<sent, waiting, open>>

\* flush() of the mesh, flush(rider_count, driver_count) of the bipartite
\* graph: both connections to every neighbour.
FlushAll(p) == /\ Running(p)
               /\ FlushLinks({l \in Link : l[1] = p})
               /\ UNCHANGED <<sent, waiting, open>>

\* flush(rider_count, driver_count, idx)
FlushRole(p, q) == /\ Running(p)
                   /\ FlushLinks({<<p, q, RoleChannel(p)>>})
                   /\ UNCHANGED <<sent, waiting, open>>

\* Mutated form of Close: the streams are closed without being flushed.
CloseDropsBuffers(p) == /\ Running(p)
                        /\ open' = [open EXCEPT ![p] = FALSE]
                        /\ UNCHANGED <<out, wire, sent, waiting>>

\* The destructor: NetIO's own destructor flushes and closes each stream.
Close(p) == /\ Running(p)
            /\ FlushLinks({l \in Link : l[1] = p})
            /\ open' = [open EXCEPT ![p] = FALSE]
            /\ UNCHANGED <<sent, waiting>>
-----------------------------------------------------------------------------
InFlight == MapThenSumSet(LAMBDA l : Len(wire[l]) + Len(out[l]), Link)

Next == \/ \E l \in Neighbour :
              \/ \E data \in Message : /\ InFlight + Len(data) <= MaxInFlight
                                       /\ Send(l[1], l[2], data)
              \/ \E n \in 1 .. MaxRead : RecvCall(l[1], l[2], n)
              \/ RecvReturn(l[1], l[2])
              \/ Flush(l[1], l[2])
              \/ FlushRole(l[1], l[2])
        \/ \E p \in Party : FlushAll(p) \/ Close(p)

Spec == Init /\ [][Next]_vars

\* A party blocked in recv() wakes up once its socket holds the bytes.  No
\* other step is fair: whether and when a party sends or flushes is the
\* protocol's business.
FairSpec == Spec /\ \A l \in Neighbour : WF_vars(RecvReturn(l[1], l[2]))
-----------------------------------------------------------------------------
\* The types, and that no stream holds back more than a stdio buffer.
TypeOK == /\ out \in [Link -> Seq(Item)]
          /\ \A l \in Link : Len(out[l]) <= BufCap
          /\ wire \in [Link -> Seq(Item)]
          /\ sent \in [Neighbour -> BOOLEAN]
          /\ waiting \in [Party -> [src : Party \cup {-1}, n : Nat]]
          /\ open \in [Party -> BOOLEAN]

\* Everything p ever wrote for q is on the connection q reads p's data from:
\* the two ends agree, for every pair, on which of the two sockets carries
\* which direction.  (send/recv choose by comparing party numbers.)
EndsAgree ==
    \A l \in Link : l # RecvLink(l[2], l[1]) => out[l] = <<>> /\ wire[l] = <<>>

\* A party blocked on q has nothing left in its buffer for q, so that two
\* parties can never wait for each other because of unflushed data.  (recv's
\* `if (sent[src]) flush(src)`.)
FlushedBeforeBlocking ==
    \A l \in Neighbour :
        waiting[l[1]].src = l[2] => out[SendLink(l[1], l[2])] = <<>>

\* Reading, writing, flushing and closing together implement one FIFO stream
\* per ordered pair: nothing is lost, duplicated or reordered by the buffers,
\* by partial write-outs or by the two sockets.
FIFO == INSTANCE Channels WITH chan <- [l \in Neighbour |-> Queue(l[1], l[2])]
FIFOSpec == FIFO!Spec

\* Of two parties blocked on each other, one for which enough was sent resumes:
\* a dialogue cannot hang on buffered data, whatever the flush calls did before.
DialogueResumes ==
    \A l \in Neighbour :
        (/\ waiting[l[1]].src = l[2]
         /\ waiting[l[2]].src = l[1]
         /\ Len(Queue(l[2], l[1])) >= waiting[l[1]].n) ~> (waiting[l[1]] = Idle)
=============================================================================
