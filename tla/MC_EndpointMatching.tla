------------------------ MODULE MC_EndpointMatching ------------------------
(***************************************************************************)
(* The instances of EndpointMatching: the Euclidean-distance circuit, and  *)
(* a circuit with every gate type, two levels and multiplications bundled  *)
(* with dot products.                                                      *)
(***************************************************************************)
EXTENDS EndpointMatching

\* input_pid of the Euclidean-distance circuit: per coordinate two inputs of the
\* rider, two of the driver (test/quickpool_endpoint.cpp:49-65).
EDSPid(c) == [w \in {v \in DOMAIN c.gates : c.gates[v].type = "kInp"} |->
                 IF ((w - 1) % 14) % 4 < 2 THEN c.gates[w].rider_id ELSE c.gates[w].driver_id]
MCEDS == EDSCircuit(rider_count, driver_count)
MCEDSPid == EDSPid(MCEDS)

\* Everybody at (1, 1), except that the driver's start and end are a and b further
\* along the first coordinate in an odd pair, b and 0 in an even one.
Trip(a, b) ==
    [w \in DOMAIN MCEDSPid |->
        LET odd == ((w - 1) \div 14) % 2 = 0
        IN  CASE (w - 1) % 14 = 2 -> 1 + (IF odd THEN a ELSE b)
              [] (w - 1) % 14 = 3 -> 1 + (IF odd THEN b ELSE 0)
              [] OTHER -> 1]

\* With Threshold = 4: both within; start on the boundary; end beyond; far off.
MCTrips == {Trip(1, 0), Trip(2, 1), Trip(0, 3), Trip(7, 6)}
\* For two pairs: both match; only the second does.
MCTrips2 == {Trip(1, 0), Trip(2, 1)}

\* Outputs of the PRG.  The masks of the two distances mod RtModulus are
\* (10, 8), (6, 6) and (12, 13) for one pair; 6, 4, 8, 10 for two pairs.
Tape(c) == [n \in 1 .. 60 |-> (c * n * n + 5 * n + 3) % Modulus]
MCTapes == {Tape(5), Tape(27), Tape(6)}
MCTapes2 == {Tape(13)}

Rhos(S) == {[w \in Wires |-> rho] : rho \in S}
MCRho == Rhos({5})
MCRhos == Rhos({0, 5, RtModulus - 3})

\* For riders 1 and 2 and driver 3.
MCMixed ==
    [gates |-> <<NewGate("kInp", <<>>, <<>>, 0, 1, 3),
                 NewGate("kInp", <<>>, <<>>, 0, 1, 3),
                 NewGate("kMul", <<1>>, <<2>>, 0, 1, 3),
                 NewGate("kAdd", <<3>>, <<1>>, 0, 1, 3),
                 NewGate("kConstMul", <<4>>, <<>>, 3, 1, 3),
                 NewGate("kDotprod", <<5, 1>>, <<2, 3>>, 0, 1, 3),
                 NewGate("kConstAdd", <<6>>, <<>>, 2, 1, 3),
                 NewGate("kInp", <<>>, <<>>, 0, 2, 3),
                 NewGate("kInp", <<>>, <<>>, 0, 2, 3),
                 NewGate("kDotprod", <<8, 9>>, <<9, 9>>, 0, 2, 3),
                 NewGate("kMul", <<8>>, <<9>>, 0, 2, 3),
                 NewGate("kSub", <<10>>, <<11>>, 0, 2, 3)>>,
     outputs |-> <<7, 12, 4>>]
MCMixedPid == 1 :> 1 @@ 2 :> 3 @@ 8 :> 3 @@ 9 :> 2
MCMixedInputs == {1 :> 2 @@ 2 :> 5 @@ 8 :> 3 @@ 9 :> 7,
                  1 :> 63 @@ 2 :> 40 @@ 8 :> 0 @@ 9 :> 33}
=============================================================================
