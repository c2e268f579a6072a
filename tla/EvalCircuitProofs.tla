-------------------------- MODULE EvalCircuitProofs --------------------------
(***************************************************************************)
(* Proofs about EvalCircuit, for all valid circuits and inputs.            *)
(***************************************************************************)
EXTENDS EvalCircuit, TLAPS

(* The shift distances of a truth table (evalGate). *)
LEMMA PowersOfTwo ==
  ASSUME NEW n \in 0..3
  PROVE  2^n \in {1, 2, 4, 8}
<1>1. n = 0 \/ n = 1 \/ n = 2 \/ n = 3
  OBVIOUS
<1>2. 2^0 = 1 /\ 2^1 = 2 /\ 2^2 = 4 /\ 2^3 = 8
  OBVIOUS
<1> QED
  BY <1>1, <1>2, Zenon

(* The value of a gate is a bit (evalGate). *)
LEMMA EvalGateIsBit ==
  ASSUME NEW G, G.T \in 0..15, NEW a \in Bit, NEW b \in Bit
  PROVE  evalGate(G, a, b) \in Bit
<1>1. a + a + b \in 0..3
  BY DEF Bit
<1> DEFINE d == 2^(a + a + b)
<1>2. d \in {1, 2, 4, 8}
  BY <1>1, PowersOfTwo
<1> HIDE DEF d
<1>3. (G.T \div d) % 2 \in {0, 1}
  BY <1>2
<1> QED
  BY <1>3 DEF evalGate, Bit, d

(* The wires driven by one more gate. *)
LEMMA DrivenStep ==
  ASSUME NEW c, NEW n \in Nat
  PROVE  /\ Driven(c, 0) = Index(c.inpSize)
         /\ Driven(c, n + 1) = Driven(c, n) \cup {c.gates[n].out}
<1>1. Index(0) = {} /\ Index(n + 1) = Index(n) \cup {n}
  BY DEF Index
<1> QED
  BY <1>1 DEF Driven

LEMMA ValidGate ==
  ASSUME NEW c, ValidCircuit(c), NEW n \in Index(c.numGates)
  PROVE  LET g == c.gates[n] IN
         /\ g.a \in Wires(c) /\ g.b \in Wires(c) /\ g.out \in Wires(c)
         /\ g.T \in 0..15
  BY DEF ValidCircuit, Gate

LEMMA DrivenAreWires ==
  ASSUME NEW c, ValidCircuit(c), NEW n \in Nat, n <= c.numGates
  PROVE  Driven(c, n) \subseteq Wires(c)
<1>1. c.numGates \in Nat /\ c.numWires \in Nat /\ c.inpSize \in Nat /\ c.inpSize <= c.numWires
  BY DEF ValidCircuit
<1>2. \A j \in Index(n) : c.gates[j].out \in Wires(c)
  BY <1>1, ValidGate DEF Index
<1>3. Index(c.inpSize) \subseteq Wires(c)
  BY <1>1 DEF Index, Wires
<1> QED
  BY <1>2, <1>3 DEF Driven

(* The loop variable stays in the bounds of its loop. *)
LoopBound ==
  /\ pc = "load"  => i <= C.inpSize
  /\ pc = "store" => i <= C.outSize

(* The inductive invariant: without the bound on the loop variable the     *)
(* input bits could run out of the wires array.                            *)
IInv == TypeOK /\ LoopBound /\ DrivenWiresSet

LEMMA CircuitFacts ==
  ASSUME NEW c \in Circuits
  PROVE  /\ c.numGates \in Nat /\ c.numWires \in Nat
         /\ c.inpSize \in Nat /\ c.outSize \in Nat
         /\ c.inpSize <= c.numWires
         /\ c.outWLabels \in [Index(c.outSize) -> Wires(c)]
         /\ \A n \in Index(c.numGates) :
              c.gates[n].a \in Driven(c, n) /\ c.gates[n].b \in Driven(c, n)
         /\ \A n \in Index(c.outSize) : c.outWLabels[n] \in Driven(c, c.numGates)
  BY CircuitsAssumption DEF ValidCircuit

LEMMA InitInv == Init => IInv
<1> SUFFICES ASSUME Init PROVE IInv
  OBVIOUS
<1>1. TypeOK
  BY DEF Init, TypeOK
<1>2. LoopBound /\ DrivenWiresSet
  BY CircuitFacts DEF Init, LoopBound, DrivenWiresSet, Index
<1> QED
  BY <1>1, <1>2 DEF IInv

LEMMA LoadInv == IInv /\ Load => IInv'
<1> SUFFICES ASSUME IInv, Load PROVE IInv'
  OBVIOUS
<1> USE DEF IInv
<1>1. /\ C \in Circuits /\ i \in Nat /\ i' = i + 1 /\ i \in Index(C.inpSize)
      /\ pc = "load" /\ pc' = "load" /\ i < C.inpSize
      /\ wires' = [wires EXCEPT ![i] = input[i]]
      /\ UNCHANGED <<C, input, output>>
  BY CircuitFacts DEF Load, TypeOK, Index
<1>2. input[i] \in Bit
  BY <1>1 DEF TypeOK
<1>3. TypeOK'
  <2>1. wires' \in [Wires(C) -> Bit \cup {Unset}]
    BY <1>1, <1>2 DEF TypeOK
  <2> QED
    BY <1>1, <2>1 DEF TypeOK
<1>4. LoopBound'
  BY <1>1, CircuitFacts DEF LoopBound
<1>5. DrivenWiresSet'
  <2>1. i \in Wires(C) /\ Index(i + 1) = Index(i) \cup {i} /\ Index(i) \subseteq Wires(C)
    BY <1>1, CircuitFacts DEF Wires, Index
  <2>2. \A w \in Index(i + 1) : wires'[w] \in Bit
    BY <1>1, <1>2, <2>1 DEF DrivenWiresSet, TypeOK
  <2> QED
    BY <1>1, <2>2 DEF DrivenWiresSet
<1> QED
  BY <1>3, <1>4, <1>5

(* A gate reads wires that are set, because the gates are sorted. *)
LEMMA EvalGateStepInv == IInv /\ EvalGateStep => IInv'
<1> SUFFICES ASSUME IInv, EvalGateStep PROVE IInv'
  OBVIOUS
<1> USE DEF IInv
<1> DEFINE g == C.gates[i]
           v == evalGate(g, wires[g.a], wires[g.b])
<1>1. /\ C \in Circuits /\ i \in Nat /\ i' = i + 1 /\ i \in Index(C.numGates)
      /\ pc = "gates" /\ pc' = "gates" /\ i < C.numGates
      /\ wires' = [wires EXCEPT ![g.out] = v]
      /\ UNCHANGED <<C, input, output>>
  BY CircuitFacts DEF EvalGateStep, TypeOK, Index
<1>2. g.out \in Wires(C) /\ g.T \in 0..15
  BY <1>1, ValidGate, CircuitsAssumption
<1>3. wires[g.a] \in Bit /\ wires[g.b] \in Bit
  BY <1>1, CircuitFacts DEF DrivenWiresSet
<1>4. v \in Bit
  BY <1>2, <1>3, EvalGateIsBit
<1> HIDE DEF v
<1>5. TypeOK'
  BY <1>1, <1>2, <1>4 DEF TypeOK
<1>6. DrivenWiresSet'
  <2>1. Driven(C, i + 1) = Driven(C, i) \cup {g.out} /\ Driven(C, i) \subseteq Wires(C)
    <3>1. C.numGates \in Nat /\ i <= C.numGates /\ ValidCircuit(C)
      BY <1>1, CircuitFacts, CircuitsAssumption
    <3>2. Driven(C, i + 1) = Driven(C, i) \cup {g.out}
      BY <1>1, DrivenStep
    <3> QED
      BY <1>1, <3>1, <3>2, DrivenAreWires
  <2>2. \A w \in Driven(C, i) : wires[w] \in Bit
    BY <1>1 DEF DrivenWiresSet
  <2> HIDE DEF g
  <2>3. \A w \in Driven(C, i + 1) : wires'[w] \in Bit
    BY <1>1, <1>2, <1>4, <2>1, <2>2 DEF TypeOK
  <2>4. i' <= C'.numGates
    BY <1>1, CircuitFacts
  <2> QED
    BY <1>1, <2>3, <2>4 DEF DrivenWiresSet
<1> QED
  BY <1>1, <1>5, <1>6 DEF LoopBound

LEMMA StoreInv == IInv /\ Store => IInv'
<1> SUFFICES ASSUME IInv, Store PROVE IInv'
  OBVIOUS
<1> USE DEF IInv
<1>1. /\ C \in Circuits /\ i \in Nat /\ i' = i + 1 /\ i \in Index(C.outSize)
      /\ pc = "store" /\ pc' = "store" /\ i < C.outSize
      /\ output' = [output EXCEPT ![i] = wires[C.outWLabels[i]]]
      /\ UNCHANGED <<C, input, wires>>
  BY CircuitFacts DEF Store, TypeOK, Index
<1>2. wires[C.outWLabels[i]] \in Bit
  BY <1>1, CircuitFacts DEF DrivenWiresSet
<1>3. TypeOK'
  BY <1>1, <1>2 DEF TypeOK
<1>4. LoopBound'
  BY <1>1, CircuitFacts DEF LoopBound
<1>5. DrivenWiresSet'
  BY <1>1 DEF DrivenWiresSet
<1> QED
  BY <1>3, <1>4, <1>5

(* The steps between the loops, and after them. *)
LEMMA EndInv ==
  ASSUME IInv, EndLoad \/ EndGates \/ EndStore \/ UNCHANGED vars
  PROVE  IInv'
<1> USE DEF IInv
<1>1. TypeOK'
  BY DEF TypeOK, EndLoad, EndGates, EndStore, vars
<1>2. LoopBound'
  BY CircuitFacts DEF TypeOK, LoopBound, EndLoad, EndGates, EndStore, vars
<1>3. CASE EndLoad
  <2>1. Driven(C, 0) = Index(C.inpSize)
    BY DrivenStep
  <2>2. \A w \in Driven(C, 0) : wires[w] \in Bit
    BY <1>3, <2>1 DEF EndLoad, DrivenWiresSet
  <2> QED
    BY <1>1, <1>2, <1>3, <2>2, CircuitFacts DEF EndLoad, DrivenWiresSet, TypeOK
<1>4. CASE EndGates \/ EndStore \/ UNCHANGED vars
  BY <1>1, <1>2, <1>4 DEF EndGates, EndStore, vars, DrivenWiresSet
<1> QED
  BY <1>3, <1>4

LEMMA IInvAlways == Spec => []IInv
<1>1. Init => IInv
  BY InitInv
<1>2. IInv /\ [Next]_vars => IInv'
  BY LoadInv, EvalGateStepInv, StoreInv, EndInv DEF Next, Returned
<1> QED
  BY <1>1, <1>2, PTL DEF Spec

-----------------------------------------------------------------------------
(* Every wire and every output bit is a bit or was never written: no step  *)
(* leaves its arrays (evalCircuit).                                        *)
THEOREM TypeCorrect == Spec => []TypeOK
<1>1. IInv => TypeOK
  BY DEF IInv
<1> QED
  BY <1>1, IInvAlways, PTL

(* In a circuit that is as circuit.h asks, evalCircuit never reads a cell  *)
(* of its uninitialised wires array that it has not written before.        *)
THEOREM NoUnsetWireIsRead == Spec => []DrivenWiresSet
<1>1. IInv => DrivenWiresSet
  BY DEF IInv
<1> QED
  BY <1>1, IInvAlways, PTL
=============================================================================
