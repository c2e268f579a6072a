---------------------------- MODULE MCWireFormat ----------------------------
(* TLC instance of WireFormat: the files of circuits of two input wires    *)
(* and up to two gates, whole or cut short, and some with gates of other   *)
(* types than the reader's, of one input (EQW) or two (NOR).               *)
EXTENDS WireFormat, SequencesExt

(* Keys whose words are no labels of wires and no sizes. *)
MCKey(n) == [k \in 1..KEY |-> 100 * n + k]
MCKeys == {MCKey(n) : n \in 5..6}
MCTables == {[r \in 1..4 |-> MCKey(r)]}

Text(w) == [num |-> FALSE, v |-> w]
MCWords == {"XOR", "AND", "INV", "NOR", "EQW"}

(* The words of the tables, and gates that drive the wire w. *)
MCOne == 7 :> "INV" @@ 10 :> "EQW"
MCTwo == 6 :> "XOR" @@ 8 :> "AND" @@ 1 :> "NOR"

MCGate(w) ==
  {[a |-> a, b |-> w - 1, out |-> w, T |-> T] : a \in 0..(w - 2), T \in DOMAIN MCTwo}
    \cup {[a |-> a, b |-> a, out |-> w, T |-> T] : a \in 0..(w - 1), T \in DOMAIN MCOne}

MCCircuit(gs, sizes, o) ==
  [numGates |-> Len(gs), numWires |-> 2 + Len(gs), num_of_clients |-> Len(sizes),
   inpSize |-> 2, inpSizes |-> [k \in Index(Len(sizes)) |-> sizes[k + 1]],
   outSize |-> o, gates |-> [k \in Index(Len(gs)) |-> gs[k + 1]],
   outWLabels |-> [n \in Index(o) |-> 2 + Len(gs) - o + n]]

MCCircuits ==
  {MCCircuit(gs, sizes, o) :
     gs \in {<<>>} \cup {<<g>> : g \in MCGate(2)}
              \cup {<<g, h>> : g \in MCGate(2), h \in MCGate(3)},
     sizes \in {<<1, 1>>, <<2>>}, o \in 1..2}

(* The text of a circuit. *)
GateTokens(g) ==
  IF g.T \in DOMAIN MCOne
  THEN <<Num(1), Num(1), Num(g.a), Num(g.out), Text(MCOne[g.T])>>
  ELSE <<Num(2), Num(1), Num(g.a), Num(g.b), Num(g.out), Text(MCTwo[g.T])>>

HeadTokens(c) ==
  <<Num(c.numGates), Num(c.numWires), Num(c.num_of_clients)>>
    \o [k \in 1..c.num_of_clients |-> Num(c.inpSizes[k - 1])] \o <<Num(c.outSize)>>

Tokens(c) ==
  HeadTokens(c) \o FlattenSeq([k \in 1..c.numGates |-> GateTokens(c.gates[k - 1])])

(* The number of tokens of the first k gates, of wires of the first k      *)
(* clients.                                                                *)
Upto(len(_), k) == FoldSet(LAMBDA j, n : n + len(j), 0, Index(k))
Ends(c) ==
  [k \in 0..c.numGates |->
     4 + c.num_of_clients + Upto(LAMBDA j : Len(GateTokens(c.gates[j])), k)]
Firsts(c) == [k \in 0..c.num_of_clients |-> Upto(LAMBDA j : c.inpSizes[j], k)]

(* The file of c, cut by k tokens. *)
File(c, k) ==
  [exists |-> TRUE, text |-> Tokens(c), circuit |-> c, at |-> Ends(c),
   first |-> Firsts(c), missing |-> k]

MCFiles ==
  LET files == {File(c, k) : c \in MCCircuits, k \in 0..14}
      absent == {[File(c, 0) EXCEPT !.exists = FALSE] : c \in MCCircuits}
  IN  absent \cup {f \in files : f.missing <= Len(f.text)}
=============================================================================
