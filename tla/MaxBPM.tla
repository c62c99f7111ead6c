------------------------------- MODULE MaxBPM -------------------------------
(***************************************************************************)
(* The matching at the end of pair_EDMatching (bpm and maxBPM in           *)
(* src/src/quickpool/ED_eval.cpp), over the bipartite graph of the pairs   *)
(* whose start and end points are close.  bpm takes seen and matchR by     *)
(* value: what it writes there is gone when it returns.                    *)
(***************************************************************************)
EXTENDS Integers, FiniteSetsExt

CONSTANTS M, N  \* the numbers of riders and of drivers, both positive

Rider == 0 .. M - 1
Driver == 0 .. N - 1

VARIABLES bpGraph,  \* bpGraph[u][v]: rider u and driver v match
          u, matchR, result  \* maxBPM's loop counter and local variables
vars == <<bpGraph, u, matchR, result>>

\* bpm(bpGraph, w, seen, owner).  The loop tries the drivers in order; From is its
\* continuation at driver v.  Only the caller's own copies of seen and owner are
\* changed on the way, so that the recursive call sees this loop's seen.
RECURSIVE Bpm(_, _, _, _), From(_, _, _, _, _)
From(g, w, seen, owner, v) ==
    /\ v < N
    /\ IF g[w][v] /\ v \notin seen
       THEN \/ owner[v] < 0
            \/ Bpm(g, owner[v], seen \cup {v}, owner)
            \/ From(g, w, seen \cup {v}, owner, v + 1)
       ELSE From(g, w, seen, owner, v + 1)
Bpm(g, w, seen, owner) == From(g, w, seen, owner, 0)

Init == /\ bpGraph \in [Rider -> [Driver -> BOOLEAN]]
        /\ u = 0
        /\ matchR = [v \in Driver |-> -1]
        /\ result = 0

\* One iteration of maxBPM's loop.  matchR goes to bpm by value.
Step ==
    /\ u < M
    /\ result' = result + (IF Bpm(bpGraph, u, {}, matchR) THEN 1 ELSE 0)
    /\ u' = u + 1
    /\ UNCHANGED <<bpGraph, matchR>>

Next == Step
Spec == Init /\ [][Next]_vars
-----------------------------------------------------------------------------
Edges == {e \in Rider \X Driver : bpGraph[e[1]][e[2]]}
IsMatching(E) == \A e, f \in E : e[1] = f[1] \/ e[2] = f[2] => e = f
MaximumMatching == Max({Cardinality(E) : E \in {F \in SUBSET Edges : IsMatching(F)}})

\* What the comment on maxBPM (ED_eval.cpp:274) says: the size of a maximum
\* matching.
FindsMaximumMatching == u = M => result = MaximumMatching
=============================================================================
