------------------------------- MODULE Circuit -------------------------------
(***************************************************************************)
(* The data of circuit.h and the gate evaluator of circuit.c, the part of  *)
(* the program that both cases share.                                      *)
(*                                                                         *)
(* C arrays of length n are functions with domain 0..n-1.  A truth table   *)
(* is the number the reader stores: XOR = 6, AND = 8, and INV = 7 on a     *)
(* gate whose two inputs are the same wire.                                *)
(***************************************************************************)
EXTENDS Integers

Bit == {0, 1}

Index(n) == 0..(n - 1)

(* A mutant: one input counts as much as the other. *)
evalGateSymmetric(G, a, b) == (G.T \div 2^(a + b)) % 2

(* Bit number a + a + b of the truth table; in C, + binds tighter than >>. *)
evalGate(G, a, b) == (G.T \div 2^(a + a + b)) % 2

(* The wires that hold a value once the inputs and the first n gates have  *)
(* been evaluated.                                                         *)
Driven(C, n) == Index(C.inpSize) \cup {C.gates[j].out : j \in Index(n)}

Wires(C) == Index(C.numWires)

Gate(C) == [a : Wires(C), b : Wires(C), out : Wires(C), T : 0..15]

(* What the comments of circuit.h ask of a circuit: the inputs are the     *)
(* first wires, the gates are topologically sorted, and every output wire  *)
(* is driven.                                                              *)
ValidCircuit(C) ==
  /\ C.numGates \in Nat /\ C.numWires \in Nat
  /\ C.inpSize \in Nat  /\ C.outSize \in Nat
  /\ C.inpSize <= C.numWires
  /\ C.gates \in [Index(C.numGates) -> Gate(C)]
  /\ C.outWLabels \in [Index(C.outSize) -> Wires(C)]
  /\ \A n \in Index(C.numGates) :
        C.gates[n].a \in Driven(C, n) /\ C.gates[n].b \in Driven(C, n)
  /\ \A n \in Index(C.outSize) : C.outWLabels[n] \in Driven(C, C.numGates)
=============================================================================
