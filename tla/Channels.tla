------------------------------ MODULE Channels ------------------------------
(***************************************************************************)
(* What the protocols of this repository assume of the network: between    *)
(* every ordered pair of neighbouring parties there is one reliable,       *)
(* unbounded, unframed FIFO stream.  A party appends to its streams; a     *)
(* read names a source and a number of items, blocks, and takes exactly    *)
(* the oldest items of that stream.  Neither stdio buffers nor the two     *)
(* sockets per pair are visible here; NetIOMP.tla is shown to implement it.*)
(***************************************************************************)
EXTENDS Integers, Sequences

CONSTANTS Party,      \* the parties
          Neighbour,  \* the set of ordered pairs <<p, q>> that are connected
          Message,    \* the item sequences one send may carry
          MaxRead     \* the longest read

VARIABLES chan,       \* chan[<<p, q>>]: items sent by p and not yet read by q
          waiting     \* waiting[p]: the read p is blocked in, or Idle

Idle == [src |-> -1, n |-> 0]

Init == /\ chan = [l \in Neighbour |-> <<>>]
        /\ waiting = [p \in Party |-> Idle]

Put(p, q, data) == /\ waiting[p] = Idle
                   /\ chan' = [chan EXCEPT ![<<p, q>>] = @ \o data]
                   /\ UNCHANGED waiting

Ask(p, q, n) == /\ waiting[p] = Idle
                /\ waiting' = [waiting EXCEPT ![p] = [src |-> q, n |-> n]]
                /\ UNCHANGED chan

Take(p, q) == /\ waiting[p].src = q
              /\ Len(chan[<<q, p>>]) >= waiting[p].n
              /\ chan' = [chan EXCEPT ![<<q, p>>] =
                                        SubSeq(@, waiting[p].n + 1, Len(@))]
              /\ waiting' = [waiting EXCEPT ![p] = Idle]

Next == \E l \in Neighbour :
           \/ \E data \in Message : Put(l[1], l[2], data)
           \/ \E n \in 1..MaxRead : Ask(l[1], l[2], n)
           \/ Take(l[1], l[2])

Spec == Init /\ [][Next]_<<chan, waiting>>
=============================================================================
