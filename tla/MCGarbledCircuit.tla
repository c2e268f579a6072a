--------------------------- MODULE MCGarbledCircuit ---------------------------
(* TLC instances of GarbledCircuit: blocks of three bits, two of them in   *)
(* the first byte and one beyond the four bytes of an integer; circuits    *)
(* with two inputs, MCGates gates in a row and the last wires as outputs.  *)
EXTENDS GarbledCircuit

CONSTANTS MCGates

MCBits == {0, 1, 32}
MCLowBits == {0, 1}

(* A keystream in which every bit depends on every bit of the counter. *)
MCStream ==
  [k \in SUBSET MCBits |->
     LET n == (IF 0 \in k THEN 1 ELSE 0) + (IF 1 \in k THEN 2 ELSE 0)
                + (IF 32 \in k THEN 4 ELSE 0)
         m == (5 * n * n + 3 * n + 6) % 8
     IN  (IF m % 2 = 1 THEN {0} ELSE {}) \cup (IF (m \div 2) % 2 = 1 THEN {1} ELSE {})
           \cup (IF m \div 4 = 1 THEN {32} ELSE {})]

MCGenKeys == {{}, {0, 32}, {0, 1}}
MCTails == {{}, {32}}
MCStale == {{}, {1, 32}, {0}}

MCGateSet(w) ==
  {g \in [a : 0..(w - 1), b : 0..(w - 1), out : {w}, T : {6, 7, 8}] :
      IF g.T = 7 THEN g.a = g.b ELSE g.a < g.b}

MCGateSeqs(n) ==
  {gs \in [Index(n) -> UNION {MCGateSet(2 + k) : k \in Index(n)}] :
     \A k \in Index(n) : gs[k] \in MCGateSet(2 + k)}

MCCircuits ==
  {[numGates |-> MCGates, numWires |-> 2 + MCGates, inpSize |-> 2, outSize |-> 2,
    gates |-> gs, outWLabels |-> [n \in Index(2) |-> n + MCGates]]
      : gs \in MCGateSeqs(MCGates)}
=============================================================================
