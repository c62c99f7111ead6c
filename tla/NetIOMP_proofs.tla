--------------------------- MODULE NetIOMP_proofs ---------------------------
(***************************************************************************)
(* Proofs about NetIOMP for every number of riders and drivers, both       *)
(* constructors, both builds and every stdio buffer size.                  *)
(*                                                                         *)
(* The safety invariants are not inductive on their own: that a blocked    *)
(* party has flushed needs that a party whose flag sent[q] is still false  *)
(* has nothing buffered for q (FlagCoversBuffer).  The refinement needs    *)
(* only the types: every flush moves a suffix of a stream from out to wire *)
(* and leaves their concatenation alone.                                   *)
(***************************************************************************)
EXTENDS NetIOMP, DataLemmas

\* Concatenation of item sequences is associative.
LEMMA ItemsAssociate ==
    \A s, t, u \in Seq(Item) : (s \o t) \o u = s \o (t \o u)
BY ConcatAssociative

\* The link a party writes is a link, and it is the one its peer reads.
LEMMA Ends ==
    ASSUME NEW l \in Neighbour
    PROVE  /\ l[1] \in Party /\ l[2] \in Party /\ l = <<l[1], l[2]>>
           /\ l[1] # l[2] /\ l[1] # -1 /\ l[2] # -1
           /\ SendLink(l[1], l[2]) \in Link
           /\ RecvLink(l[1], l[2]) \in Link
           /\ RecvLink(l[1], l[2]) = SendLink(l[2], l[1])
           /\ <<l[2], l[1]>> \in Neighbour
<1>1. /\ l[1] \in Party /\ l[2] \in Party /\ l = <<l[1], l[2]>>
      /\ Connected(l[1], l[2]) /\ Connected(l[2], l[1]) /\ l[1] # l[2]
  BY DEF Neighbour, Connected
<1>2. l[1] \in Int /\ l[2] \in Int /\ l[1] # -1 /\ l[2] # -1
  BY <1>1, CountAssumption DEF Party, nP
<1>3. RecvChannel(l[1], l[2]) = SendChannel(l[2], l[1])
  BY DEF RecvChannel, SendChannel
<1> QED BY <1>1, <1>2, <1>3 DEF SendLink, RecvLink, SendChannel, RecvChannel,
                             Link, Conn, Neighbour
-----------------------------------------------------------------------------
\* What fflush does to the links: buffers in L are emptied, no stream changes.
LEMMA FlushEffect ==
    ASSUME TypeOK, NEW L, FlushLinks(L)
    PROVE  /\ out' \in [Link -> Seq(Item)] /\ wire' \in [Link -> Seq(Item)]
           /\ \A l \in Link : Len(out'[l]) <= BufCap
           /\ \A l \in Link : /\ wire'[l] \o out'[l] = wire[l] \o out[l]
                              /\ out'[l] = IF l \in L THEN <<>> ELSE out[l]
                              /\ wire'[l] = IF l \in L THEN wire[l] \o out[l]
                                                       ELSE wire[l]
<1>1. ASSUME NEW l \in Link
      PROVE  /\ wire[l] \in Seq(Item) /\ out[l] \in Seq(Item)
             /\ wire[l] \o out[l] \in Seq(Item)
             /\ (wire[l] \o out[l]) \o <<>> = wire[l] \o out[l]
  BY ConcatProperties, ConcatEmptySeq DEF TypeOK
<1>2. <<>> \in Seq(Item)
  OBVIOUS
<1>3. \A l \in Link : /\ out'[l] = IF l \in L THEN <<>> ELSE out[l]
                     /\ wire'[l] = IF l \in L THEN wire[l] \o out[l] ELSE wire[l]
  BY DEF FlushLinks
<1>4. out' \in [Link -> Seq(Item)] /\ wire' \in [Link -> Seq(Item)]
  BY <1>1, <1>2 DEF FlushLinks
<1>5. \A l \in Link : wire'[l] \o out'[l] = wire[l] \o out[l]
  BY <1>1, <1>3
<1>6. \A l \in Link : Len(out'[l]) <= BufCap
  BY <1>3, BufAssumption DEF TypeOK
<1> QED BY <1>3, <1>4, <1>5, <1>6

\* What send() does to the links: it appends to one stream, wherever stdio
\* cuts it into written and buffered.
LEMMA SendEffect ==
    ASSUME TypeOK, NEW l \in Neighbour, NEW data \in Seq(Item),
           Send(l[1], l[2], data)
    PROVE  LET k == SendLink(l[1], l[2])
           IN  /\ out' \in [Link -> Seq(Item)] /\ wire' \in [Link -> Seq(Item)]
               /\ \A m \in Link : Len(out'[m]) <= BufCap
               /\ \A m \in Link \ {k} : out'[m] = out[m] /\ wire'[m] = wire[m]
               /\ wire'[k] \o out'[k] = (wire[k] \o out[k]) \o data
<1> DEFINE k == SendLink(l[1], l[2])
           s == out[k] \o data
<1>1. k \in Link
  BY Ends
<1>2. out[k] \in Seq(Item) /\ wire[k] \in Seq(Item) /\ s \in Seq(Item)
  BY <1>1, ConcatProperties DEF TypeOK
<1>3. PICK n \in Written(s) :
            /\ wire' = [wire EXCEPT ![k] = @ \o SubSeq(s, 1, n)]
            /\ out' = [out EXCEPT ![k] = SubSeq(s, n + 1, Len(s))]
  BY DEF Send
<1> HIDE DEF k, s
<1>4. n \in 0 .. Len(s)
  <2>1. Len(s) \in Nat
    BY <1>2
  <2> QED BY <2>1 DEF Written
<1>10. Len(SubSeq(s, n + 1, Len(s))) <= BufCap
  <2>1. Len(s) \in Nat /\ Len(SubSeq(s, n + 1, Len(s))) = Len(s) - n
    BY <1>2, <1>4
  <2>2. n = Len(s) \/ Len(s) - n <= BufCap
    <3>1. n = 0 /\ Len(s) <= BufCap => Len(s) - n <= BufCap
      BY <2>1
    <3> QED BY <3>1 DEF Written
  <2>3. n = Len(s) => Len(s) - n <= BufCap
    BY <2>1, BufAssumption
  <2> QED BY <2>1, <2>2, <2>3
<1>5. /\ SubSeq(s, 1, n) \in Seq(Item) /\ SubSeq(s, n + 1, Len(s)) \in Seq(Item)
      /\ SubSeq(s, 1, n) \o SubSeq(s, n + 1, Len(s)) = s
  BY <1>2, <1>4, CutAndJoin
<1>6. wire[k] \o SubSeq(s, 1, n) \in Seq(Item)
  BY <1>2, <1>5, ConcatProperties
<1>7. /\ out' \in [Link -> Seq(Item)] /\ wire' \in [Link -> Seq(Item)]
      /\ \A m \in Link \ {k} : out'[m] = out[m] /\ wire'[m] = wire[m]
      /\ wire'[k] = wire[k] \o SubSeq(s, 1, n)
      /\ out'[k] = SubSeq(s, n + 1, Len(s))
  BY <1>1, <1>3, <1>5, <1>6 DEF TypeOK
<1>8. wire'[k] \o out'[k] = wire[k] \o s
  <2>1. (wire[k] \o SubSeq(s, 1, n)) \o SubSeq(s, n + 1, Len(s))
           = wire[k] \o (SubSeq(s, 1, n) \o SubSeq(s, n + 1, Len(s)))
    BY <1>2, <1>5, ItemsAssociate
  <2> QED BY <1>5, <1>7, <2>1
<1>9. wire[k] \o s = (wire[k] \o out[k]) \o data
  <2>1. wire[k] \o (out[k] \o data) = (wire[k] \o out[k]) \o data
    BY <1>2, ItemsAssociate
  <2> QED BY <2>1 DEF s
<1>11. \A m \in Link : Len(out'[m]) <= BufCap
  BY <1>7, <1>10 DEF TypeOK
<1> QED BY <1>7, <1>8, <1>9, <1>11 DEF k

\* What the return of recv() does to the links: it drops the front of one stream.
LEMMA ReturnEffect ==
    ASSUME TypeOK, NEW l \in Neighbour, RecvReturn(l[1], l[2])
    PROVE  LET k == RecvLink(l[1], l[2])
               n == waiting[l[1]].n
               q == wire[k] \o out[k]
           IN  /\ out' = out /\ wire' \in [Link -> Seq(Item)]
               /\ \A m \in Link \ {k} : wire'[m] = wire[m]
               /\ Len(q) >= n
               /\ wire'[k] \o out[k] = SubSeq(q, n + 1, Len(q))
               /\ wire[k] = <<>> => wire'[k] = <<>>
<1> DEFINE k == RecvLink(l[1], l[2])
           n == waiting[l[1]].n
<1>1. k \in Link /\ n \in Nat
  BY Ends DEF TypeOK
<1>2. out[k] \in Seq(Item) /\ wire[k] \in Seq(Item) /\ n <= Len(wire[k])
  BY <1>1 DEF TypeOK, RecvReturn
<1>3. SubSeq(wire[k], n + 1, Len(wire[k])) \in Seq(Item)
  BY <1>1, <1>2
<1>4. /\ out' = out /\ wire' \in [Link -> Seq(Item)]
      /\ \A m \in Link \ {k} : wire'[m] = wire[m]
      /\ wire'[k] = SubSeq(wire[k], n + 1, Len(wire[k]))
  BY <1>1, <1>3 DEF TypeOK, RecvReturn
<1> HIDE DEF k, n
<1>5. Len(wire[k] \o out[k]) >= n
  <2>1. Len(wire[k] \o out[k]) = Len(wire[k]) + Len(out[k])
    BY <1>2, ConcatProperties
  <2>2. Len(wire[k]) \in Nat /\ Len(out[k]) \in Nat
    BY <1>2
  <2>3. \A a, b, c \in Nat : c <= a => a + b >= c
    OBVIOUS
  <2> QED BY <1>1, <1>2, <2>1, <2>2, <2>3, Zenon
<1>6. wire[k] = <<>> => wire'[k] = <<>>
  BY <1>1, <1>2, <1>4
<1> QED BY <1>1, <1>2, <1>4, <1>5, <1>6, DropFront DEF k, n
-----------------------------------------------------------------------------
\* Types are preserved: in every reachable state the buffers and wires hold
\* items, and the bookkeeping of recv and of the destructor is well formed.
THEOREM TypeCorrect == Spec => []TypeOK
<1>1. Init => TypeOK
  BY BufAssumption DEF Init, TypeOK, Idle
<1>2. TypeOK /\ [Next]_vars => TypeOK'
  <2> SUFFICES ASSUME TypeOK, [Next]_vars PROVE TypeOK'
    OBVIOUS
  <2>1. ASSUME NEW l \in Neighbour, NEW data \in Message, Send(l[1], l[2], data)
        PROVE  TypeOK'
    <3>1. data \in Seq(Item) /\ l = <<l[1], l[2]>>
      BY MessageAssumption, Ends
    <3>2. /\ out' \in [Link -> Seq(Item)] /\ wire' \in [Link -> Seq(Item)]
          /\ \A m \in Link : Len(out'[m]) <= BufCap
      BY <2>1, <3>1, SendEffect
    <3>3. sent' \in [Neighbour -> BOOLEAN]
      BY <2>1, <3>1 DEF Send, TypeOK
    <3> QED BY <2>1, <3>2, <3>3 DEF Send, TypeOK
  <2>2. ASSUME NEW l \in Neighbour, NEW n \in 1 .. MaxRead, RecvCall(l[1], l[2], n)
        PROVE  TypeOK'
    <3>1. n \in Nat /\ l[1] \in Party /\ l[2] \in Party
      <4>1. n \in Nat
        BY BoundAssumption
      <4> QED BY <4>1, Ends
    <3>2. /\ out' \in [Link -> Seq(Item)] /\ wire' \in [Link -> Seq(Item)]
          /\ \A m \in Link : Len(out'[m]) <= BufCap
      BY <2>2, FlushEffect DEF RecvCall
    <3>3. waiting' \in [Party -> [src : Party \cup {-1}, n : Nat]]
      BY <2>2, <3>1 DEF RecvCall, TypeOK
    <3> QED BY <2>2, <3>2, <3>3 DEF RecvCall, TypeOK
  <2>3. ASSUME NEW l \in Neighbour, RecvReturn(l[1], l[2])
        PROVE  TypeOK'
    <3>1. out' = out /\ wire' \in [Link -> Seq(Item)]
      BY <2>3, ReturnEffect
    <3>2. waiting' \in [Party -> [src : Party \cup {-1}, n : Nat]]
      BY <2>3 DEF RecvReturn, TypeOK, Idle
    <3> QED BY <2>3, <3>1, <3>2 DEF RecvReturn, TypeOK
  <2>4. ASSUME NEW l \in Neighbour, Flush(l[1], l[2]) \/ FlushRole(l[1], l[2])
        PROVE  TypeOK'
    BY <2>4, FlushEffect DEF Flush, FlushRole, TypeOK
  <2>5. ASSUME NEW p \in Party, FlushAll(p)
        PROVE  TypeOK'
    BY <2>5, FlushEffect DEF FlushAll, TypeOK
  <2>6. ASSUME NEW p \in Party, Close(p)
        PROVE  TypeOK'
    BY <2>6, FlushEffect DEF Close, TypeOK
  <2>7. CASE UNCHANGED vars
    BY <2>7 DEF TypeOK, vars
  <2> QED BY <2>1, <2>2, <2>3, <2>4, <2>5, <2>6, <2>7 DEF Next
<1> QED BY <1>1, <1>2, PTL DEF Spec

\* A party that holds unflushed data for a peer has its flag for that peer set,
\* so that recv's test of the flag never skips a flush that is needed.
FlagCoversBuffer ==
    \A l \in Neighbour : out[SendLink(l[1], l[2])] # <<>> => sent[l]

IInv == TypeOK /\ EndsAgree /\ FlagCoversBuffer /\ FlushedBeforeBlocking

\* Flushing any links and blocking nobody preserves the invariant.
LEMMA FlushKeepsInv ==
    ASSUME IInv, NEW L, FlushLinks(L), UNCHANGED <<sent, waiting>>
    PROVE  EndsAgree' /\ FlagCoversBuffer' /\ FlushedBeforeBlocking'
<1>1. \A l \in Link : /\ out[l] = <<>> => out'[l] = <<>>
                      /\ out[l] = <<>> /\ wire[l] = <<>> => wire'[l] = <<>>
  <2>1. <<>> \o <<>> = <<>>
    OBVIOUS
  <2> QED BY <2>1, FlushEffect DEF IInv
<1>2. EndsAgree'
  <2>1. ASSUME NEW l \in Link, l # RecvLink(l[2], l[1])
        PROVE  out'[l] = <<>> /\ wire'[l] = <<>>
    BY <1>1, <2>1 DEF IInv, EndsAgree
  <2> QED BY <2>1 DEF EndsAgree, RecvLink, RecvChannel
<1>3. ASSUME NEW l \in Neighbour
      PROVE  /\ out'[SendLink(l[1], l[2])] # <<>> => sent[l]
             /\ waiting[l[1]].src = l[2] => out'[SendLink(l[1], l[2])] = <<>>
  <2>1. SendLink(l[1], l[2]) \in Link
    BY Ends
  <2>2. out[SendLink(l[1], l[2])] = <<>> => out'[SendLink(l[1], l[2])] = <<>>
    BY <1>1, <2>1
  <2>3. /\ out[SendLink(l[1], l[2])] # <<>> => sent[l]
        /\ waiting[l[1]].src = l[2] => out[SendLink(l[1], l[2])] = <<>>
    BY DEF IInv, FlagCoversBuffer, FlushedBeforeBlocking
  <2> QED BY <2>2, <2>3
<1>4. FlagCoversBuffer' /\ FlushedBeforeBlocking'
  BY <1>3 DEF FlagCoversBuffer, FlushedBeforeBlocking, SendLink, SendChannel
<1> QED BY <1>2, <1>4

\* The two ends of every pair use the same socket for a direction; a party's
\* flag covers its buffer; and a party blocked in recv on q has handed
\* everything it ever sent to q to the network.
THEOREM FlushDiscipline == Spec => [](EndsAgree /\ FlushedBeforeBlocking)
<1>1. Init => IInv
  <2> SUFFICES ASSUME Init PROVE IInv
    OBVIOUS
  <2>1. TypeOK
    BY BufAssumption DEF Init, TypeOK, Idle
  <2>2. EndsAgree
    BY DEF Init, EndsAgree
  <2>3. \A l \in Neighbour : out[SendLink(l[1], l[2])] = <<>>
    BY Ends DEF Init
  <2> QED BY <2>1, <2>2, <2>3 DEF IInv, FlagCoversBuffer, FlushedBeforeBlocking
<1>2. IInv /\ [Next]_vars => (EndsAgree /\ FlagCoversBuffer /\ FlushedBeforeBlocking)'
  <2> SUFFICES ASSUME IInv, [Next]_vars
               PROVE  EndsAgree' /\ FlagCoversBuffer' /\ FlushedBeforeBlocking'
    OBVIOUS
  <2> USE DEF IInv
  <2>1. ASSUME NEW l \in Neighbour, NEW data \in Message, Send(l[1], l[2], data)
        PROVE  EndsAgree' /\ FlagCoversBuffer' /\ FlushedBeforeBlocking'
    <3> DEFINE k == SendLink(l[1], l[2])
    <3>1. /\ data \in Seq(Item) /\ l = <<l[1], l[2]>> /\ k \in Link
          /\ l[1] \in Party /\ k = RecvLink(k[2], k[1])
      BY MessageAssumption, Ends DEF SendLink
    <3>2. \A m \in Link \ {k} : out'[m] = out[m] /\ wire'[m] = wire[m]
      BY <2>1, <3>1, SendEffect
    <3>3. EndsAgree'
      <4>1. ASSUME NEW m \in Link, m # RecvLink(m[2], m[1])
            PROVE  out'[m] = <<>> /\ wire'[m] = <<>>
        BY <3>1, <3>2, <4>1 DEF EndsAgree
      <4> QED BY <4>1 DEF EndsAgree, RecvLink, RecvChannel
    <3>4. ASSUME NEW m \in Neighbour
          PROVE  /\ out'[SendLink(m[1], m[2])] # <<>> => sent'[m]
                 /\ waiting'[m[1]].src = m[2] => out'[SendLink(m[1], m[2])] = <<>>
      <4>1. CASE m = l
        <5>1. sent'[m]
          BY <2>1, <3>1, <4>1 DEF Send, TypeOK
        <5>2. waiting'[m[1]] = Idle
          BY <2>1, <4>1 DEF Send, Running
        <5>3. m[2] # -1
          BY Ends
        <5> QED BY <5>1, <5>2, <5>3 DEF Idle
      <4>2. CASE m # l
        <5>1. SendLink(m[1], m[2]) \in Link \ {k}
          BY <3>1, <4>2, Ends DEF SendLink
        <5>2. sent'[m] = sent[m] /\ waiting' = waiting
          BY <2>1, <3>1, <4>2 DEF Send, TypeOK
        <5> QED BY <3>2, <5>1, <5>2 DEF FlagCoversBuffer, FlushedBeforeBlocking
      <4> QED BY <4>1, <4>2
    <3> QED BY <3>3, <3>4 DEF FlagCoversBuffer, FlushedBeforeBlocking,
                              SendLink, SendChannel
  <2>2. ASSUME NEW l \in Neighbour, NEW n \in 1 .. MaxRead, RecvCall(l[1], l[2], n)
        PROVE  EndsAgree' /\ FlagCoversBuffer' /\ FlushedBeforeBlocking'
    <3> DEFINE k == SendLink(l[1], l[2])
    <3>1. k \in Link /\ l = <<l[1], l[2]>> /\ l[1] \in Party
      BY Ends
    <3>2. \A m \in Link : /\ out[m] = <<>> => out'[m] = <<>>
                          /\ out[m] = <<>> /\ wire[m] = <<>> => wire'[m] = <<>>
      <4>1. <<>> \o <<>> = <<>>
        OBVIOUS
      <4> QED BY <2>2, <4>1, FlushEffect DEF RecvCall
    <3>3. out'[k] = <<>>
      <4>1. CASE sent[l]
        BY <2>2, <3>1, <4>1, FlushEffect DEF RecvCall
      <4>2. CASE ~ sent[l]
        BY <3>1, <3>2, <4>2 DEF FlagCoversBuffer
      <4> QED BY <4>1, <4>2
    <3>4. EndsAgree'
      <4>1. ASSUME NEW m \in Link, m # RecvLink(m[2], m[1])
            PROVE  out'[m] = <<>> /\ wire'[m] = <<>>
        BY <3>2, <4>1 DEF EndsAgree
      <4> QED BY <4>1 DEF EndsAgree, RecvLink, RecvChannel
    <3>5. ASSUME NEW m \in Neighbour
          PROVE  /\ out'[SendLink(m[1], m[2])] # <<>> => sent'[m]
                 /\ waiting'[m[1]].src = m[2] => out'[SendLink(m[1], m[2])] = <<>>
      <4>1. CASE m = l
        BY <3>3, <4>1
      <4>2. CASE m # l
        <5>1. SendLink(m[1], m[2]) \in Link /\ m = <<m[1], m[2]>>
          BY Ends
        <5>2. sent' = sent
          BY <2>2 DEF RecvCall
        <5>3. waiting'[m[1]].src = m[2] => waiting[m[1]].src = m[2]
          <6>1. CASE m[1] = l[1]
            <7>1. waiting'[m[1]].src = l[2]
              BY <2>2, <3>1, <6>1 DEF RecvCall, TypeOK
            <7> QED BY <3>1, <4>2, <5>1, <6>1, <7>1
          <6>2. CASE m[1] # l[1]
            BY <2>2, <3>1, <6>2, Ends DEF RecvCall, TypeOK
          <6> QED BY <6>1, <6>2
        <5>4. out[SendLink(m[1], m[2])] = <<>> => out'[SendLink(m[1], m[2])] = <<>>
          BY <3>2, <5>1
        <5> QED BY <5>2, <5>3, <5>4 DEF FlagCoversBuffer, FlushedBeforeBlocking
      <4> QED BY <4>1, <4>2
    <3> QED BY <3>4, <3>5 DEF FlagCoversBuffer, FlushedBeforeBlocking,
                              SendLink, SendChannel
  <2>3. ASSUME NEW l \in Neighbour, RecvReturn(l[1], l[2])
        PROVE  EndsAgree' /\ FlagCoversBuffer' /\ FlushedBeforeBlocking'
    <3>1. /\ out' = out /\ sent' = sent
          /\ \A m \in Link : wire[m] = <<>> => wire'[m] = <<>>
      <4>1. /\ out' = out
            /\ \A m \in Link \ {RecvLink(l[1], l[2])} : wire'[m] = wire[m]
            /\ wire[RecvLink(l[1], l[2])] = <<>> => wire'[RecvLink(l[1], l[2])] = <<>>
        BY <2>3, ReturnEffect
      <4> QED BY <2>3, <4>1 DEF RecvReturn
    <3>2. ASSUME NEW m \in Link, m # RecvLink(m[2], m[1])
          PROVE  out'[m] = <<>> /\ wire'[m] = <<>>
      BY <3>1, <3>2 DEF EndsAgree
    <3>3. ASSUME NEW m \in Neighbour, waiting'[m[1]].src = m[2]
          PROVE  waiting[m[1]].src = m[2]
      <4>1. m[2] # -1 /\ m[1] \in Party
        BY Ends
      <4> QED BY <2>3, <3>3, <4>1 DEF RecvReturn, TypeOK, Idle
    <3> QED BY <3>1, <3>2, <3>3 DEF EndsAgree, RecvLink, RecvChannel,
              FlagCoversBuffer, FlushedBeforeBlocking, SendLink, SendChannel
  <2>4. ASSUME NEW l \in Neighbour, Flush(l[1], l[2]) \/ FlushRole(l[1], l[2])
        PROVE  EndsAgree' /\ FlagCoversBuffer' /\ FlushedBeforeBlocking'
    BY <2>4, FlushKeepsInv DEF Flush, FlushRole
  <2>5. ASSUME NEW p \in Party, FlushAll(p) \/ Close(p)
        PROVE  EndsAgree' /\ FlagCoversBuffer' /\ FlushedBeforeBlocking'
    BY <2>5, FlushKeepsInv DEF FlushAll, Close
  <2>6. CASE UNCHANGED vars
    BY <2>6 DEF vars, EndsAgree, RecvLink, RecvChannel, FlagCoversBuffer,
                FlushedBeforeBlocking, SendLink, SendChannel
  <2> QED BY <2>1, <2>2, <2>3, <2>4, <2>5, <2>6 DEF Next
<1>3. IInv => EndsAgree /\ FlushedBeforeBlocking
  BY DEF IInv
<1> QED
  <2>1. IInv /\ TypeOK' /\ [Next]_vars => IInv'
    BY <1>2 DEF IInv
  <2> QED BY <1>1, <1>3, <2>1, TypeCorrect, PTL DEF Spec

\* Everything on the way from p to q is on the one socket from which q reads p's data.
THEOREM EndsMatch == Spec => []EndsAgree
  BY FlushDiscipline, PTL
-----------------------------------------------------------------------------
\* The stream of every ordered pair, as the refinement maps it.
Streams == [l \in Neighbour |-> Queue(l[1], l[2])]

\* A step that keeps every link's concatenation keeps every stream.
LEMMA SameStreams ==
    ASSUME \A k \in Link : wire'[k] \o out'[k] = wire[k] \o out[k]
    PROVE  Streams' = Streams
<1>1. ASSUME NEW l \in Neighbour PROVE Queue(l[1], l[2])' = Queue(l[1], l[2])
  BY Ends DEF Queue, SendLink, SendChannel
<1> QED BY <1>1 DEF Streams

\* The buffered, two-socket network implements one reliable FIFO stream per
\* ordered pair of neighbours: every send is one append, every returning recv
\* takes exactly the oldest items, and flushing, blocking, partial write-outs
\* and destroying the object change no stream.
THEOREM ImplementsFIFO == Spec => FIFOSpec
<1>1. Init => FIFO!Init
  <2> SUFFICES ASSUME Init PROVE FIFO!Init
    OBVIOUS
  <2>1. ASSUME NEW l \in Neighbour PROVE Queue(l[1], l[2]) = <<>>
    <3>1. SendLink(l[1], l[2]) \in Link
      BY Ends
    <3>2. <<>> \o <<>> = <<>>
      OBVIOUS
    <3> QED BY <3>1, <3>2 DEF Init, Queue
  <2> QED BY <2>1 DEF Init, FIFO!Init, Idle, FIFO!Idle
<1>2. TypeOK /\ [Next]_vars => [FIFO!Next]_<<Streams, waiting>>
  <2> SUFFICES ASSUME TypeOK, [Next]_vars
               PROVE  FIFO!Next \/ (Streams' = Streams /\ waiting' = waiting)
    BY DEF Streams
  <2>1. ASSUME NEW l \in Neighbour, NEW data \in Message, Send(l[1], l[2], data)
        PROVE  FIFO!Put(l[1], l[2], data)
    <3> DEFINE k == SendLink(l[1], l[2])
    <3>1. data \in Seq(Item) /\ l = <<l[1], l[2]>> /\ k \in Link
      BY MessageAssumption, Ends
    <3>2. /\ \A m \in Link \ {k} : out'[m] = out[m] /\ wire'[m] = wire[m]
          /\ wire'[k] \o out'[k] = (wire[k] \o out[k]) \o data
      BY <2>1, <3>1, SendEffect
    <3>3. ASSUME NEW m \in Neighbour
          PROVE  Queue(m[1], m[2])' = IF m = l THEN Queue(m[1], m[2]) \o data
                                               ELSE Queue(m[1], m[2])
      <4>1. CASE m = l
        BY <3>2, <4>1 DEF Queue, SendLink, SendChannel
      <4>2. CASE m # l
        <5>1. SendLink(m[1], m[2]) \in Link \ {k}
          BY <3>1, <4>2, Ends DEF SendLink
        <5> QED BY <3>2, <4>2, <5>1 DEF Queue, SendLink, SendChannel
      <4> QED BY <4>1, <4>2
    <3>4. Streams' = [Streams EXCEPT ![<<l[1], l[2]>>] = @ \o data]
      BY <3>1, <3>3 DEF Streams
    <3>5. waiting[l[1]] = FIFO!Idle /\ waiting' = waiting
      BY <2>1 DEF Send, Running, Idle, FIFO!Idle
    <3> QED BY <3>4, <3>5 DEF FIFO!Put, Streams
  <2>2. ASSUME NEW l \in Neighbour, NEW n \in 1 .. MaxRead, RecvCall(l[1], l[2], n)
        PROVE  FIFO!Ask(l[1], l[2], n)
    <3>1. Streams' = Streams
      BY <2>2, FlushEffect, SameStreams DEF RecvCall
    <3>2. waiting[l[1]] = FIFO!Idle
      BY <2>2 DEF RecvCall, Running, Idle, FIFO!Idle
    <3> QED BY <2>2, <3>1, <3>2 DEF RecvCall, FIFO!Ask, Streams
  <2>3. ASSUME NEW l \in Neighbour, RecvReturn(l[1], l[2])
        PROVE  FIFO!Take(l[1], l[2])
    <3> DEFINE k == RecvLink(l[1], l[2])
               r == <<l[2], l[1]>>
               n == waiting[l[1]].n
    <3>1. /\ k \in Link /\ r \in Neighbour /\ k = SendLink(r[1], r[2])
          /\ k = SendLink(l[2], l[1])
      BY Ends
    <3>2. /\ \A m \in Link \ {k} : wire'[m] = wire[m]
          /\ out' = out
          /\ Len(wire[k] \o out[k]) >= n
          /\ wire'[k] \o out[k] = SubSeq(wire[k] \o out[k], n + 1, Len(wire[k] \o out[k]))
      BY <2>3, ReturnEffect
    <3>3. Streams[r] = wire[k] \o out[k]
      BY <3>1 DEF Streams, Queue
    <3>4. ASSUME NEW m \in Neighbour
          PROVE  Queue(m[1], m[2])' =
                    IF m = r THEN SubSeq(Streams[r], n + 1, Len(Streams[r]))
                             ELSE Queue(m[1], m[2])
      <4>1. CASE m = r
        BY <3>1, <3>2, <3>3, <4>1 DEF Queue, SendLink, SendChannel
      <4>2. CASE m # r
        <5>1. SendLink(m[1], m[2]) \in Link \ {k}
          <6>1. SendLink(m[1], m[2]) \in Link /\ m = <<m[1], m[2]>>
            BY Ends
          <6>2. m[1] # l[2] \/ m[2] # l[1]
            BY <4>2, <6>1
          <6>3. SendLink(m[1], m[2]) # SendLink(l[2], l[1])
            BY <6>2 DEF SendLink
          <6> QED BY <3>1, <6>1, <6>3
        <5> QED BY <3>2, <4>2, <5>1 DEF Queue, SendLink, SendChannel
      <4> QED BY <4>1, <4>2
    <3>5. Streams' = [Streams EXCEPT ![r] = SubSeq(@, n + 1, Len(@))]
      BY <3>1, <3>4 DEF Streams
    <3>6. waiting[l[1]].src = l[2] /\ waiting' = [waiting EXCEPT ![l[1]] = FIFO!Idle]
      BY <2>3 DEF RecvReturn, Idle, FIFO!Idle
    <3> QED BY <3>2, <3>3, <3>5, <3>6 DEF FIFO!Take, Streams
  <2>4. ASSUME NEW l \in Neighbour, Flush(l[1], l[2]) \/ FlushRole(l[1], l[2])
        PROVE  Streams' = Streams /\ waiting' = waiting
    BY <2>4, FlushEffect, SameStreams DEF Flush, FlushRole
  <2>5. ASSUME NEW p \in Party, FlushAll(p) \/ Close(p)
        PROVE  Streams' = Streams /\ waiting' = waiting
    BY <2>5, FlushEffect, SameStreams DEF FlushAll, Close
  <2>6. CASE UNCHANGED vars
    BY <2>6, SameStreams DEF vars
  <2> QED BY <2>1, <2>2, <2>3, <2>4, <2>5, <2>6 DEF Next, FIFO!Next
<1> QED BY <1>1, <1>2, TypeCorrect, PTL DEF Spec, FIFOSpec, FIFO!Spec, Streams
=============================================================================
