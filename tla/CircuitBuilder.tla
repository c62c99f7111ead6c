--------------------------- MODULE CircuitBuilder ---------------------------
(***************************************************************************)
(* The methods that build a circuit by hand (class Circuit in              *)
(* src/src/utils/circuit.h), and what the rest of the program relies on in *)
(* every circuit they can build.  A call with an unknown wire, the wrong   *)
(* gate type or operand vectors of different lengths throws before it      *)
(* changes anything: it is no step here.                                   *)
(***************************************************************************)
EXTENDS Circuit

CONSTANTS Owner,     \* the <<rider_id, driver_id>> pairs a gate may carry
          Cval,      \* the constants of constant-operand gates
          MaxGates,  \* bound: gates in the circuit
          DotVectors,\* the operand vectors <<input1, input2>> of dot products
          MaxOutputs \* bound: setAsOutput calls
ASSUME BoundsAssumption == MaxGates \in Nat /\ MaxOutputs \in Nat
ASSUME VectorsAssumption == DotVectors \subseteq Seq(Nat) \X Seq(Nat)
ASSUME OwnerAssumption == Owner \subseteq Int \X Int
ASSUME CvalAssumption == Cval \subseteq Int

VARIABLES gates_, outputs_, output_owners_
circuitVars == <<gates_, outputs_, output_owners_>>

InitCircuit == gates_ = <<>> /\ outputs_ = <<>> /\ output_owners_ = <<>>

isWireValid(w) == w \in 1 .. Len(gates_)

AddGate(g) == /\ Len(gates_) < MaxGates
              /\ gates_' = Append(gates_, g)
              /\ UNCHANGED <<outputs_, output_owners_>>

newInputWire(o) == AddGate(NewGate("kInp", <<>>, <<>>, 0, o[1], o[2]))

addGate(type, w1, w2, o) ==
    /\ isWireValid(w1) /\ isWireValid(w2)
    /\ AddGate(NewGate(type, <<w1>>, <<w2>>, 0, o[1], o[2]))

addConstOpGate(type, w, c, o) ==
    /\ isWireValid(w)
    /\ AddGate(NewGate(type, <<w>>, <<>>, c, o[1], o[2]))

\* Mutated form of addDotprod: operands are not checked, so that a gate may
\* read the wire it is about to define or a later one.
addDotprodUnchecked(v1, v2, o) ==
    /\ Len(v1) = Len(v2)
    /\ AddGate(NewGate("kDotprod", v1, v2, 0, o[1], o[2]))

\* addGate for vectors
addDotprod(v1, v2, o) ==
    /\ Len(v1) = Len(v2)
    /\ \A w \in Range(v1) \cup Range(v2) : isWireValid(w)
    /\ AddGate(NewGate("kDotprod", v1, v2, 0, o[1], o[2]))

setAsOutput(w) ==
    /\ isWireValid(w)
    /\ Len(outputs_) < MaxOutputs
    /\ outputs_' = Append(outputs_, w)
    /\ UNCHANGED <<gates_, output_owners_>>

\* The overload that names the output's owners; the last call for a wire wins.
setAsOwnedOutput(w, o) ==
    /\ isWireValid(w)
    /\ Len(outputs_) < MaxOutputs
    /\ outputs_' = Append(outputs_, w)
    /\ output_owners_' = [x \in DOMAIN output_owners_ \cup {w} |->
                              IF x = w THEN o ELSE output_owners_[x]]
    /\ UNCHANGED gates_

BuildCircuit ==
    \/ \E o \in Owner :
        \/ newInputWire(o)
        \/ \E w1, w2 \in 1 .. MaxGates, type \in FIn2Types : addGate(type, w1, w2, o)
        \/ \E w \in 1 .. MaxGates, c \in Cval, type \in ConstOpTypes :
                addConstOpGate(type, w, c, o)
        \/ \E v \in DotVectors : addDotprod(v[1], v[2], o)
        \/ \E w \in 1 .. MaxGates : setAsOwnedOutput(w, o)
    \/ \E w \in 1 .. MaxGates : setAsOutput(w)

CircuitSpec == InitCircuit /\ [][BuildCircuit]_circuitVars
-----------------------------------------------------------------------------
GateRecord == [type : GateTypes, in1 : Seq(Nat), in2 : Seq(Nat), cval : Int,
         rider_id : Int, driver_id : Int]

\* Every circuit that can be built is well formed: gates read only wires
\* defined before them (no cycle, nothing undefined), a gate has the operands its
\* type takes (a dot product's vectors pair up), and outputs and their owners name
\* wires of the circuit.
WellFormed ==
    /\ gates_ \in Seq(GateRecord)
    /\ outputs_ \in Seq(1 .. Len(gates_))
    /\ DOMAIN output_owners_ \subseteq 1 .. Len(gates_)
    /\ \A w \in DOMAIN gates_ :
          /\ Reads(gates_[w]) \subseteq 1 .. w - 1
          /\ HasOperands(gates_[w])

\* What the comment on LevelOrderedCircuit promises and the online phase needs:
\* the levels hold every gate once; a gate reads only gates of lower levels or
\* gates listed before it in its own; and a gate the parties talk for reads
\* only lower levels, since all of a level's messages are computed before any
\* of its wires is set.
LevelsTopological ==
    LET levels == ByLevel(gates_)
        order == FlattenSeq(levels)
        At(w) == CHOOSE i \in DOMAIN order : order[i] = w
        LevelAt(w) == CHOOSE l \in DOMAIN levels : w \in Range(levels[l])
    IN  /\ Len(order) = Len(gates_)
        /\ Range(order) = DOMAIN gates_
        /\ \A w \in DOMAIN gates_ : \A r \in Reads(gates_[w]) :
              /\ At(r) < At(w)
              /\ gates_[w].type \in Communicating => LevelAt(r) < LevelAt(w)

\* Evaluating level by level gives every wire the value that evaluating the
\* gates in the order they were added gives it, for all inputs.
EvaluationAgrees ==
    LET inp == {w \in DOMAIN gates_ : gates_[w].type = "kInp"}
    IN  \A inputs \in [inp -> 0 .. Modulus - 1] :
            Evaluate(gates_, inputs)
                = EvaluateInOrder(gates_, inputs, [w \in DOMAIN gates_ |-> w])
=============================================================================
