---------------------------- MODULE MCEvalCircuit ----------------------------
(* TLC instance of EvalCircuit: the circuits of two inputs and MCGates     *)
(* gates of the three kinds the reader knows, a gate's inputs in           *)
(* increasing order.  A gate drives a new wire or, again, wire 1, an       *)
(* input; the outputs are the last gate's wire and wire 1.                 *)
EXTENDS EvalCircuit, TLC

CONSTANTS MCGates

XOR == 6
AND == 8
INV == 7

MCGateSet(w) ==
  {g \in [a : Index(w), b : Index(w), out : {1, w}, T : {XOR, AND, INV}] :
      g.a <= g.b /\ (g.T = INV => g.a = g.b)}

(* Wires are numbered by the gates: gate k drives wire 2 + k or wire 1. *)
MCGateSeqs(n) ==
  {gs \in [Index(n) -> UNION {MCGateSet(2 + k) : k \in Index(n)}] :
     \A k \in Index(n) :
        /\ gs[k] \in MCGateSet(2 + k)
        /\ {gs[k].a, gs[k].b} \subseteq {0, 1} \cup {gs[j].out : j \in Index(k)}}

MCCircuit(gs, n) ==
  [numGates |-> n, numWires |-> 2 + n, inpSize |-> 2, outSize |-> 2,
   gates |-> gs, outWLabels |-> (0 :> gs[n - 1].out @@ 1 :> 1)]

MCCircuits == {MCCircuit(gs, MCGates) : gs \in MCGateSeqs(MCGates)}

-----------------------------------------------------------------------------
(* The value of wire w after the first n gates, from the circuit's meaning *)
(* and on demand: the last of those gates that drives the wire decides.    *)
RECURSIVE Value(_, _)
Value(w, n) ==
  LET drivers == {j \in Index(n) : C.gates[j].out = w} IN
    IF drivers = {} THEN input[w]
    ELSE LET j == CHOOSE j \in drivers : \A k \in drivers : k <= j
             g == C.gates[j]
             a == Value(g.a, j)
             b == Value(g.b, j)
         IN CASE g.T = XOR -> IF a # b THEN 1 ELSE 0
              [] g.T = AND -> IF a = 1 /\ b = 1 THEN 1 ELSE 0
              [] g.T = INV -> 1 - a

(* evalCircuit computes the function that the circuit denotes: each output *)
(* bit is the value of its wire under the boolean meaning of XOR, AND and  *)
(* INV, also when a gate drives a wire that already had a value.           *)
ComputesTheFunction ==
  pc = "done" =>
    \A n \in Index(C.outSize) : output[n] = Value(C.outWLabels[n], C.numGates)
=============================================================================
