----------------------------- MODULE EvalCircuit -----------------------------
(***************************************************************************)
(* evalCircuit of circuit.c, loop iteration by loop iteration: load the    *)
(* input bits into the first wires, evaluate the gates in order, copy the  *)
(* output wires.  In case 1 the enclave runs this code on the plain bits;  *)
(* for case 2 it is the specification that the garbled evaluation has to   *)
(* implement.                                                              *)
(***************************************************************************)
EXTENDS Circuit

CONSTANTS
  Circuits,     \* the circuits the program may be given
  Unset         \* the value of an array cell that was never written

ASSUME CircuitsAssumption == \A c \in Circuits : ValidCircuit(c)
ASSUME UnsetAssumption == Unset \notin Bit

VARIABLES
  C,            \* parameter: the circuit
  input,        \* parameter: the input bits
  pc,           \* the loop being executed
  i,            \* its loop variable
  wires,        \* local: the value of each wire
  output        \* result array

vars == <<C, input, pc, i, wires, output>>

Init ==
  /\ C \in Circuits
  /\ input \in [Index(C.inpSize) -> Bit]
  /\ pc = "load"
  /\ i = 0
  /\ wires = [w \in Wires(C) |-> Unset]
  /\ output = [n \in Index(C.outSize) |-> Unset]

Load ==
  /\ pc = "load" /\ i < C.inpSize
  /\ wires' = [wires EXCEPT ![i] = input[i]]
  /\ i' = i + 1
  /\ UNCHANGED <<C, input, pc, output>>

(* A mutant: the last input is not loaded. *)
EndLoadEarly ==
  /\ pc = "load" /\ i = C.inpSize - 1
  /\ pc' = "gates"
  /\ i' = 0
  /\ UNCHANGED <<C, input, wires, output>>

EndLoad ==
  /\ pc = "load" /\ i = C.inpSize
  /\ pc' = "gates"
  /\ i' = 0
  /\ UNCHANGED <<C, input, wires, output>>

EvalGateStep ==
  /\ pc = "gates" /\ i < C.numGates
  /\ LET g == C.gates[i] IN
       wires' = [wires EXCEPT ![g.out] = evalGate(g, wires[g.a], wires[g.b])]
  /\ i' = i + 1
  /\ UNCHANGED <<C, input, pc, output>>

EndGates ==
  /\ pc = "gates" /\ i = C.numGates
  /\ pc' = "store"
  /\ i' = 0
  /\ UNCHANGED <<C, input, wires, output>>

Store ==
  /\ pc = "store" /\ i < C.outSize
  /\ output' = [output EXCEPT ![i] = wires[C.outWLabels[i]]]
  /\ i' = i + 1
  /\ UNCHANGED <<C, input, pc, wires>>

EndStore ==
  /\ pc = "store" /\ i = C.outSize
  /\ pc' = "done"
  /\ UNCHANGED <<C, input, i, wires, output>>

(* The function has returned. *)
Returned == pc = "done" /\ UNCHANGED vars

Next ==
  \/ Load \/ EndLoad
  \/ EvalGateStep \/ EndGates
  \/ Store \/ EndStore
  \/ Returned

Spec == Init /\ [][Next]_vars

-----------------------------------------------------------------------------

TypeOK ==
  /\ C \in Circuits
  /\ input \in [Index(C.inpSize) -> Bit]
  /\ pc \in {"load", "gates", "store", "done"}
  /\ i \in Nat
  /\ wires \in [Wires(C) -> Bit \cup {Unset}]
  /\ output \in [Index(C.outSize) -> Bit \cup {Unset}]

(* No wire is read before it is written: evalCircuit leaves its wires      *)
(* array uninitialised, and relies on the order of the gates.              *)
DrivenWiresSet ==
  /\ pc = "load" => \A w \in Index(i) : wires[w] \in Bit
  /\ pc = "gates" => i <= C.numGates /\ \A w \in Driven(C, i) : wires[w] \in Bit
  /\ pc \in {"store", "done"} =>
        \A w \in Driven(C, C.numGates) : wires[w] \in Bit
=============================================================================
