-------------------------- MODULE MC_Intersection --------------------------
(***************************************************************************)
(* The instances of Intersection.                                          *)
(***************************************************************************)
EXTENDS Intersection

\* Every PRG of a party yields the same first value.
MCSelfKey == {1}

\* As in the headers: out of reach in version 1, strict and 0 in version 4.
MCThreshold == <<VERTEX_NUM + 1, 1, 1, 0>>

\* A small integer as a word (WORD = 5).
W(n) == {b \in 0 .. 4 : (n \div 2 ^ b) % 2 = 1}
T(a, b, c) == <<W(a), W(b), W(c)>>

\* For two riders and a driver; VERTEX_NUM = 2.
\* Vertices: the same edges in another place, one edge in common, none.
MCVertices == {<<<<1, 2, 3>>, <<4, 1, 2>>, <<3, 1, 2>>>>,
               <<<<3, 1, 2>>, <<2, 3, 1>>, <<3, 1, 2>>>>}
\* Points: the first rider has one edge in common with the driver, the second has all the
\* numbers but none of the edges; and the other way round.
MCPoints == {<<<<1, 2, 3, 4, 5, 6>>, <<2, 3, 4, 5, 6, 1>>, <<3, 4, 5, 6, 1, 2>>>>,
             <<<<3, 4, 1, 2, 5, 6>>, <<5, 6, 1, 2, 3, 4>>, <<5, 6, 1, 2, 4, 3>>>>}
\* Triples that differ in one bit of one value, with a short one to skip, one too many
\* and a fourth element; a value of four bits, which is beyond the limit; and one triple in
\* common, in a document that is short, behind an element to skip, and twice.
MCTriples == {<<<<T(1, 2, 3), T(7, 7, 7)>>,
                <<<<W(1), W(2)>>, T(1, 2, 7), T(5, 6, 3), T(1, 6, 3)>>,
                <<T(1, 6, 3), T(5, 2, 3) \o <<W(1)>>, T(1, 2, 3)>>>>,
              <<<<T(0, 1, 8), T(4, 4, 4)>>, <<T(3, 3, 3), T(0, 1, 0)>>,
                <<T(3, 3, 3), T(0, 1, 0)>>>>,
              <<<<T(3, 3, 3)>>, <<<<W(1)>>, T(2, 2, 2), T(3, 3, 3)>>,
                <<T(3, 3, 3), T(3, 3, 3)>>>>}
MCDocuments == <<MCVertices, MCPoints, MCVertices, MCTriples>>

\* A rider and a driver, routes of one triple or two, with none or one in common.
MCShort == {<<<<T(1, 1, 1)>>, <<T(2, 2, 2)>>>>,
            <<<<T(1, 1, 1), T(2, 2, 2)>>, <<T(2, 2, 2)>>>>}
MCShortDocuments == <<{}, {}, {}, MCShort>>

MCGarbage == {makeBlock(T(0, 0, 0))}
MCGarbages == {makeBlock(T(0, 0, 0)), makeBlock(T(3, 3, 3))}
=============================================================================
