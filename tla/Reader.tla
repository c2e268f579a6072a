------------------------------- MODULE Reader -------------------------------
(***************************************************************************)
(* readBRISCircuit of reader.c (the two cases' differ in num_of_clients    *)
(* only), one action per fscanf of the head and per part of a gate.  No    *)
(* result of fscanf is looked at: a conversion that fails leaves its       *)
(* variable and the text as they are, and so do all that follow it.        *)
(*                                                                         *)
(* A file is a sequence of tokens, numbers and words of three letters,     *)
(* and comes with the circuit that it was written to describe.  A variable *)
(* that was never assigned is Unset; where a loop or an allocation goes by *)
(* such a variable, anything may happen.  What becomes of the circuit is   *)
(* the matter of WireFormat.                                               *)
(***************************************************************************)
EXTENDS Integers, Sequences

CONSTANTS
  Files,        \* the files there may be: see Describes
  Unset,        \* the value of a variable that was never assigned
  Words         \* the words of the files

ASSUME UnsetAssumption == Unset \notin Int \cup Words

Index(n) == 0..(n - 1)

(* The numbers in a file have no sign. *)
Token == [num : {TRUE}, v : Nat] \cup [num : {FALSE}, v : Words]
Num(n) == [num |-> TRUE, v |-> n]

(* A circuit as it comes from a file: whatever the numbers are. *)
IsCircuit(c) ==
  c \in [numGates : Nat, numWires : Nat, num_of_clients : Nat,
         inpSize : Nat, inpSizes : [Index(c.num_of_clients) -> Nat], outSize : Nat,
         gates : [Index(c.numGates) -> [a : Nat, b : Nat, out : Nat, T : 0..15]],
         outWLabels : [Index(c.outSize) -> Int]]

(* The head of the file f, and its gate k.  A gate of one input is an INV  *)
(* (the table 7), one of two inputs an XOR (6) or an AND (8); and there    *)
(* are gates of other types, with other tables and words.                  *)
HeadDescribes(f) ==
  LET c == f.circuit IN
    /\ f.text[1] = Num(c.numGates) /\ f.text[2] = Num(c.numWires)
    /\ f.text[3] = Num(c.num_of_clients)
    /\ \A k \in Index(c.num_of_clients) :
         /\ f.text[4 + k] = Num(c.inpSizes[k])
         /\ f.first[k + 1] = f.first[k] + c.inpSizes[k]
    /\ f.text[4 + c.num_of_clients] = Num(c.outSize)
    /\ f.first[0] = 0 /\ f.first[c.num_of_clients] = c.inpSize
    /\ f.at[0] = 4 + c.num_of_clients /\ f.at[c.numGates] = Len(f.text)
    /\ c.outWLabels = [n \in Index(c.outSize) |-> c.numWires - c.outSize + n]

Kind(f, k) == f.text[f.at[k + 1]].v
OneInput(f, k) == f.at[k + 1] = f.at[k] + 5
Known(f, k) == Kind(f, k) \in IF OneInput(f, k) THEN {"INV"} ELSE {"XOR", "AND"}

GateDescribes(f, k) ==
  LET g == f.circuit.gates[k]
      p == f.at[k]
  IN  /\ f.text[p + 2] = Num(1) /\ f.text[p + 3] = Num(g.a)
      /\ ~f.text[f.at[k + 1]].num
      /\ \/ /\ OneInput(f, k) /\ g.b = g.a
            /\ f.text[p + 1] = Num(1) /\ f.text[p + 4] = Num(g.out)
            /\ (g.T = 7) <=> (Kind(f, k) = "INV")
         \/ /\ f.at[k + 1] = p + 6
            /\ f.text[p + 1] = Num(2)
            /\ f.text[p + 4] = Num(g.b) /\ f.text[p + 5] = Num(g.out)
            /\ (g.T = 6) <=> (Kind(f, k) = "XOR")
            /\ (g.T = 8) <=> (Kind(f, k) = "AND")

(* How many tokens of f there are, and which gates have all of theirs. *)
There(f) == Len(f.text) - f.missing
Whole(f) == {k \in Index(f.circuit.numGates) : f.at[k + 1] <= There(f)}

(* The file f: does it exist; the text that was written, and how many      *)
(* tokens are missing at its end; the circuit; where in the text the gates *)
(* begin, and with which wire the clients' inputs.                         *)
Describes(f) ==
  LET c == f.circuit IN
    /\ f.exists \in BOOLEAN
    /\ f.text \in Seq(Token) /\ f.missing \in 0..Len(f.text)
    /\ IsCircuit(c)
    /\ f.first \in [0..c.num_of_clients -> Nat]
    /\ f.at \in [0..c.numGates -> 0..Len(f.text)]
    /\ \A j, k \in 0..c.numGates : j < k => f.at[j] < f.at[k]
    /\ HeadDescribes(f)
    /\ \A k \in Index(c.numGates) : GateDescribes(f, k)

ASSUME FilesAssumption == \A f \in Files : Describes(f)

VARIABLES
  file,         \* the file, what is left of it in rest
  rest,
  rpc, ri,      \* where the function is; i
  C,            \* the circuit that is returned
  gateInpSize,  \* locals: the number of inputs, and the type of a gate
  gtype

readerVars == <<file, rest, rpc, ri, C, gateInpSize, gtype>>

NoGate == [a |-> Unset, b |-> Unset, out |-> Unset, T |-> Unset]

ReaderInit ==
  /\ file \in Files
  /\ rest = SubSeq(file.text, 1, There(file))
  /\ rpc = "open" /\ ri = 0
  /\ C = [numGates |-> Unset, numWires |-> Unset, num_of_clients |-> Unset,
          inpSize |-> 0, inpSizes |-> <<>>, outSize |-> Unset,
          gates |-> <<>>, outWLabels |-> <<>>]
  /\ gateInpSize = Unset /\ gtype = Unset

(* How many conversions of a format succeed: %d takes a number, and %s any *)
(* token.  (The 3 of "%s3" is a literal that white space does not match.)  *)
Matched(format) ==
  CHOOSE k \in 0..Len(format) :
    /\ k <= Len(rest)
    /\ \A j \in 1..k : format[j] = "%s" \/ rest[j].num
    /\ \/ k = Len(format) \/ k = Len(rest)
       \/ format[k + 1] = "%d" /\ ~rest[k + 1].num

(* fscanf: conversion j, for a variable whose value was old; what is left. *)
Scan(format, j, old) == IF j <= Matched(format) THEN rest[j].v ELSE old
Left(format) == SubSeq(rest, Matched(format) + 1, Len(rest))

(* What follows, if the variable just read decides about it. *)
Unless(value, next) == IF value = Unset THEN "undefined" ELSE next

-----------------------------------------------------------------------------

Open ==
  /\ rpc = "open"
  /\ rpc' = IF file.exists THEN "meta" ELSE "exit"
  /\ UNCHANGED <<file, rest, ri, C, gateInpSize, gtype>>

ReadMeta ==
  /\ rpc = "meta"
  /\ LET f == <<"%d", "%d">> IN
       /\ C' = [C EXCEPT !.numGates = Scan(f, 1, @), !.numWires = Scan(f, 2, @)]
       /\ rest' = Left(f)
  /\ rpc' = Unless(C'.numWires, "numInputs")
  /\ UNCHANGED <<file, ri, gateInpSize, gtype>>

ReadNumInputs ==
  /\ rpc = "numInputs"
  /\ LET n == Scan(<<"%d">>, 1, Unset) IN
       /\ C' = [C EXCEPT !.num_of_clients = n,
                         !.inpSizes = [k \in Index(IF n = Unset THEN 0 ELSE n) |-> Unset]]
       /\ rpc' = Unless(n, "inpSizes")
  /\ rest' = Left(<<"%d">>)
  /\ UNCHANGED <<file, ri, gateInpSize, gtype>>

(* inpSize counts up what was read; of a garbage value, nothing is known. *)
ReadInpSize ==
  /\ rpc = "inpSizes" /\ ri < C.num_of_clients
  /\ LET n == Scan(<<"%d">>, 1, Unset) IN
       /\ C' = [C EXCEPT !.inpSizes[ri] = n,
                         !.inpSize = IF n = Unset THEN @ ELSE @ + n]
       /\ rpc' = Unless(n, rpc)
  /\ rest' = Left(<<"%d">>)
  /\ ri' = ri + 1
  /\ UNCHANGED <<file, gateInpSize, gtype>>

ReadOutSize ==
  /\ rpc = "inpSizes" /\ ri = C.num_of_clients
  /\ C' = [C EXCEPT !.outSize = Scan(<<"%d">>, 1, @),
                    !.gates = [k \in Index(C.numGates) |-> NoGate]]
  /\ rest' = Left(<<"%d">>)
  /\ rpc' = Unless(C'.outSize, "gates")
  /\ ri' = 0
  /\ UNCHANGED <<file, gateInpSize, gtype>>

(* gateInpSize keeps the value of the gate before if the number is missing. *)
ReadGateSize ==
  /\ rpc = "gates" /\ ri < C.numGates
  /\ gateInpSize' = Scan(<<"%d">>, 1, gateInpSize)
  /\ rest' = Left(<<"%d">>)
  /\ rpc' = CASE gateInpSize' = Unset -> "undefined"
             [] gateInpSize' = 1 -> "oneInput"
             [] gateInpSize' = 2 -> "twoInputs"
             [] OTHER -> "exit"
  /\ UNCHANGED <<file, ri, C, gtype>>

(* A number is no type.  A word that is missing leaves in gtype what the   *)
(* stack held there.                                                       *)
Type(format) ==
  LET n == Len(format) IN
    IF Matched(format) = n THEN {IF rest[n].num THEN Unset ELSE rest[n].v}
    ELSE Words

(* A mutant: the wires are read into local variables that keep their value. *)
ReadOneInputStale ==
  /\ rpc = "oneInput"
  /\ LET f == <<"%d", "%d", "%d", "%s">>
         a == Scan(f, 2, IF ri = 0 THEN Unset ELSE C.gates[ri - 1].a)
         out == Scan(f, 3, IF ri = 0 THEN Unset ELSE C.gates[ri - 1].out)
     IN  /\ C' = [C EXCEPT !.gates[ri] = [a |-> a, b |-> a, T |-> 7, out |-> out]]
         /\ gtype' \in Type(f)
         /\ rest' = Left(f)
  /\ rpc' = "gates" /\ ri' = ri + 1
  /\ UNCHANGED <<file, gateInpSize>>

(* A gate with one input becomes an INV, whatever its type says. *)
ReadOneInput ==
  /\ rpc = "oneInput"
  /\ LET f == <<"%d", "%d", "%d", "%s">>
         a == Scan(f, 2, Unset)
     IN  /\ C' = [C EXCEPT !.gates[ri] = [a |-> a, b |-> a, T |-> 7,
                                         out |-> Scan(f, 3, Unset)]]
         /\ gtype' \in Type(f)
         /\ rest' = Left(f)
  /\ rpc' = "gates" /\ ri' = ri + 1
  /\ UNCHANGED <<file, gateInpSize>>

(* A mutant: what is neither XOR nor AND is an AND. *)
ReadTwoInputsAny ==
  /\ rpc = "twoInputs"
  /\ LET f == <<"%d", "%d", "%d", "%d", "%s">> IN
       /\ gtype' \in Type(f)
       /\ C' = [C EXCEPT !.gates[ri] =
                  [a |-> Scan(f, 2, Unset), b |-> Scan(f, 3, Unset),
                   out |-> Scan(f, 4, Unset),
                   T |-> IF gtype' = "XOR" THEN 6 ELSE 8]]
       /\ rest' = Left(f)
  /\ rpc' = "gates"
  /\ ri' = ri + 1
  /\ UNCHANGED <<file, gateInpSize>>

ReadTwoInputs ==
  /\ rpc = "twoInputs"
  /\ LET f == <<"%d", "%d", "%d", "%d", "%s">> IN
       /\ gtype' \in Type(f)
       /\ C' = [C EXCEPT !.gates[ri] =
                  [a |-> Scan(f, 2, Unset), b |-> Scan(f, 3, Unset),
                   out |-> Scan(f, 4, Unset),
                   T |-> CASE gtype' = "XOR" -> 6
                           [] gtype' = "AND" -> 8
                           [] OTHER -> Unset]]
       /\ rest' = Left(f)
  /\ rpc' = IF gtype' \in {"XOR", "AND"} THEN "gates" ELSE "exit"
  /\ ri' = ri + 1
  /\ UNCHANGED <<file, gateInpSize>>

(* A mutant: the outputs are the first wires that a gate drives. *)
FirstOutputs ==
  /\ rpc = "gates" /\ ri = C.numGates
  /\ C' = [C EXCEPT !.outWLabels = [n \in Index(C.outSize) |-> C.inpSize + n]]
  /\ rpc' = "done"
  /\ UNCHANGED <<file, rest, ri, gateInpSize, gtype>>

(* The outputs are the last wires of the circuit. *)
LabelOutputs ==
  /\ rpc = "gates" /\ ri = C.numGates
  /\ C' = [C EXCEPT !.outWLabels =
             [n \in Index(C.outSize) |-> C.numWires - C.outSize + n]]
  /\ rpc' = "done"
  /\ UNCHANGED <<file, rest, ri, gateInpSize, gtype>>

readBRISCircuit ==
  \/ Open \/ ReadMeta \/ ReadNumInputs \/ ReadInpSize \/ ReadOutSize
  \/ ReadGateSize \/ ReadOneInput \/ ReadTwoInputs \/ LabelOutputs

-----------------------------------------------------------------------------

(* Is each gate that is there one the reader lets pass? *)
Passes(f) == \A k \in Whole(f) : OneInput(f, k) \/ Kind(f, k) \in {"XOR", "AND"}

(* The message of readBRISCircuit says "only (XOR, AND, INV)", and that is *)
(* what it holds gates of two inputs to: a file with another one is never  *)
(* read to the end, and a whole file is given up for nothing else.  Gates  *)
(* of one input it takes for INV whatever their word, an EQW for instance: *)
(* what is read from a whole file differs from the circuit it describes in *)
(* exactly these gates, and nobody is told.                                *)
ChecksTwoInputGates ==
  /\ rpc = "done" => file.exists /\ Passes(file)
  /\ rpc \in {"exit", "undefined"} /\ file.missing = 0 =>
       ~file.exists \/ ~Passes(file)
  /\ rpc = "done" /\ file.missing = 0 =>
       \A k \in Index(file.circuit.numGates) :
         (C.gates[k] = file.circuit.gates[k]) <=> Known(file, k)

Read(g) == Unset \notin {g.a, g.b, g.out}
SameWires(g, h) == g.a = h.a /\ g.b = h.b /\ g.out = h.out

(* The reader returns a circuit from a file that was cut short, too.  Then *)
(* no gate has other wires than the file's: some have none, and if only    *)
(* the last word is missing, that gate may be of the other type.  (Any     *)
(* gate of one input that is no INV is of another type in any case.)       *)
CutFileShows ==
  rpc = "done" /\ file.missing > 0 =>
    LET gs == file.circuit.gates IN
      /\ \A n \in DOMAIN gs : Read(C.gates[n]) => SameWires(C.gates[n], gs[n])
      /\ file.missing > 1 => \E n \in DOMAIN gs : ~Read(C.gates[n])
      /\ \A n \in DOMAIN gs :
           Read(C.gates[n]) /\ C.gates[n].T # gs[n].T =>
             IF OneInput(file, n) THEN ~Known(file, n)
             ELSE \A k \in DOMAIN gs : k > n => ~Read(C.gates[k])
=============================================================================
