----------------------------- MODULE WireFormat -----------------------------
(***************************************************************************)
(* How a program gets from its file to its owner (Reader), from there to   *)
(* the enclave, and its garbled form back, as bytes in a buffer: the two   *)
(* pairs of a writer and a reader in Enclave.cpp and program_owner.c, one  *)
(* action per group of memcpy or loop iteration.  What goes wrong on the   *)
(* way is the matter of Transfer.                                          *)
(*                                                                         *)
(* Memory is counted in words of four bytes: an int is one word, a Gate    *)
(* four (the last one holds T and padding), a key four, and a GGate 19.    *)
(* The owner's circuit is Reader's C, the enclave's copy is EC.            *)
(***************************************************************************)
EXTENDS Reader

CONSTANTS
  Keys,         \* the values of a garbling or a key, each of four words
  Tables,       \* the four rows that garbleGate may make of a gate
  LIMIT,        \* the words of a buffer (PROGLIMIT/4)
  Junk          \* what is read where nothing meaningful was written

KEY == 4        \* words of a key
GATE == 4       \* words of a Gate
GGATE == 19     \* words of a GGate

ASSUME KeysAssumption == \A k \in Keys : k = [j \in 1..KEY |-> k[j]]
ASSUME TablesAssumption ==
  \A t \in Tables : t = [r \in 1..4 |-> [j \in 1..KEY |-> t[r][j]]]
ASSUME LimitAssumption == LIMIT \in Nat /\ LIMIT >= 6   \* the header fits

VARIABLES
  pc, i, counter,
  buffer,       \* the words of the buffer
  hidden,       \* the addresses whose words are encrypted
  damaged,      \* has a word been written past the end of a buffer?
  EC,           \* the enclave's circuit
  GC,           \* the enclave's garbled circuit, with ginput and fixedkey
  OGC           \* the owner's copy of it

wireVars == <<pc, i, counter, buffer, hidden, damaged, EC, GC, OGC>>
vars == <<readerVars, wireVars>>

Blank == [a \in Index(LIMIT) |-> Junk]
Nothing(n) == [k \in Index(n) |-> Junk]

Init ==
  /\ ReaderInit
  /\ pc = "putHeader" /\ i = 0 /\ counter = 1
  /\ buffer = Blank /\ hidden = {} /\ damaged = FALSE
  /\ EC = Junk /\ GC = Junk /\ OGC = Junk

(* memcpy of words to the address "counter".  What is written past the end *)
(* of a buffer never reaches the other side.                               *)
Put(words) ==
  /\ buffer' = [a \in Index(LIMIT) |->
                  IF a \in counter..(counter + Len(words) - 1)
                  THEN words[a - counter + 1] ELSE buffer[a]]
  /\ counter' = counter + Len(words)
  /\ damaged' = (damaged \/ counter' > LIMIT)

(* n words from address a. *)
Word(a) == IF a < LIMIT /\ a \notin hidden THEN buffer[a] ELSE Junk
WordsAt(a, n) == [k \in 1..n |-> Word(a + k - 1)]

(* The structs as words, and words as structs. *)
OfGate(g) == <<g.a, g.b, g.out, g.T>>
AsGate(w) == [a |-> w[1], b |-> w[2], out |-> w[3], T |-> w[4]]

OfGGate(g) ==
  [k \in 1..GGATE |-> IF k < KEY THEN <<g.a, g.b, g.out>>[k]
                      ELSE g.table[k \div KEY][(k % KEY) + 1]]
AsGGate(w) ==
  [a |-> w[1], b |-> w[2], out |-> w[3],
   table |-> [r \in 1..4 |-> [j \in 1..KEY |-> w[KEY * r + j - 1]]]]

(* The size goes to the front, and all but the size is encrypted. *)
Close ==
  /\ buffer' = [buffer EXCEPT ![0] = counter]
  /\ hidden' = 1..(counter - 1)

(* The addresses that decryption makes readable: it goes by the size that  *)
(* came with the message.                                                  *)
Opened == 1..(buffer[0] - 1)

(* The bound of the loop being executed, and what follows it. *)
Bound ==
  CASE pc = "putGates"      -> C.numGates
    [] pc = "putInpSizes"   -> C.num_of_clients
    [] pc = "putOutWLabels" -> C.outSize
    [] pc = "getGates"      -> EC.numGates
    [] pc = "getInpSizes"   -> EC.num_of_clients
    [] pc = "getOutWLabels" -> EC.outSize
    [] pc = "putGGates"     -> EC.numGates
    [] pc = "putGOutWLabels" -> GC.outSize
    [] pc = "getGGates"     -> OGC.numGates
    [] pc = "getGOutWLabels" -> OGC.outSize

After ==
  [putGates  |-> "putInpSizes",    putInpSizes    |-> "putOutWLabels",
   getGates  |-> "getInpSizes",    getInpSizes    |-> "getOutWLabels",
   putGGates |-> "putGOutWLabels", putGOutWLabels |-> "putKeys",
   getGGates |-> "getGOutWLabels", getGOutWLabels |-> "getKeys",
   putOutWLabels |-> "putSize",    getOutWLabels  |-> "garble"]

Iterate(loop) == pc = loop /\ i < Bound /\ i' = i + 1 /\ UNCHANGED pc

EndLoop ==
  /\ pc \in DOMAIN After /\ i = Bound
  /\ pc' = After[pc] /\ i' = 0
  /\ UNCHANGED <<counter, buffer, hidden, damaged, EC, GC, OGC>>

Goto(here, there) == pc = here /\ pc' = there /\ i' = 0

-----------------------------------------------------------------------------
(* The owner: EncapsulateProgram and its encryption. *)

PutHeader ==
  /\ Goto("putHeader", "putGates")
  /\ Put(<<C.numGates, C.numWires, C.num_of_clients, C.inpSize, C.outSize>>)
  /\ UNCHANGED <<hidden, EC, GC, OGC>>

PutGate ==
  /\ Iterate("putGates")
  /\ Put(OfGate(C.gates[i]))
  /\ UNCHANGED <<hidden, EC, GC, OGC>>

PutInpSize ==
  /\ Iterate("putInpSizes")
  /\ Put(<<C.inpSizes[i]>>)
  /\ UNCHANGED <<hidden, EC, GC, OGC>>

PutOutWLabel ==
  /\ Iterate("putOutWLabels")
  /\ Put(<<C.outWLabels[i]>>)
  /\ UNCHANGED <<hidden, EC, GC, OGC>>

(* A mutant: the size counts neither itself nor the last word. *)
PutSizeShort ==
  /\ Goto("putSize", "getHeader")
  /\ buffer' = [buffer EXCEPT ![0] = counter - 1]
  /\ hidden' = 1..(counter - 1)
  /\ counter' = 1
  /\ UNCHANGED <<damaged, EC, GC, OGC>>

PutSize ==
  /\ Goto("putSize", "getHeader")
  /\ Close
  /\ counter' = 1
  /\ UNCHANGED <<damaged, EC, GC, OGC>>

-----------------------------------------------------------------------------
(* The enclave: decryptProgram, which starts behind the size. *)

GetHeader ==
  /\ Goto("getHeader", "getGates")
  /\ hidden' = hidden \ Opened
  /\ LET h == [k \in Index(5) |-> buffer[counter + k]] IN
       EC' = [numGates |-> h[0], numWires |-> h[1], num_of_clients |-> h[2],
             inpSize |-> h[3], outSize |-> h[4], gates |-> Nothing(h[0]),
             inpSizes |-> Nothing(h[2]), outWLabels |-> Nothing(h[4])]
  /\ counter' = counter + 5
  /\ UNCHANGED <<buffer, damaged, GC, OGC>>

GetGate ==
  /\ Iterate("getGates")
  /\ EC' = [EC EXCEPT !.gates[i] = AsGate(WordsAt(counter, GATE))]
  /\ counter' = counter + GATE
  /\ UNCHANGED <<buffer, hidden, damaged, GC, OGC>>

GetInpSize ==
  /\ Iterate("getInpSizes")
  /\ EC' = [EC EXCEPT !.inpSizes[i] = Word(counter)]
  /\ counter' = counter + 1
  /\ UNCHANGED <<buffer, hidden, damaged, GC, OGC>>

GetOutWLabel ==
  /\ Iterate("getOutWLabels")
  /\ EC' = [EC EXCEPT !.outWLabels[i] = Word(counter)]
  /\ counter' = counter + 1
  /\ UNCHANGED <<buffer, hidden, damaged, GC, OGC>>

(* garbleCircuit (see GarbledCircuit): the wires of a garbled gate are the *)
(* gate's, read or not; the keys may be any.  The buffer is a new one.     *)
Garble ==
  /\ Goto("garble", "putGHeader")
  /\ \E ginput \in [Index(EC.inpSize) -> Keys], fixedkey \in Keys,
        tables \in [Index(EC.numGates) -> Tables] :
       GC' = [numGates |-> EC.numGates, numWires |-> EC.numWires,
              inpSize |-> EC.inpSize, outSize |-> EC.outSize,
              ggates |-> [n \in Index(EC.numGates) |->
                LET g == EC.gates[n]
                IN  [a |-> g.a, b |-> g.b, out |-> g.out, table |-> tables[n]]],
              outWLabels |-> EC.outWLabels, ginput |-> ginput, fixedkey |-> fixedkey]
  /\ counter' = 1 /\ buffer' = Blank /\ hidden' = {}
  /\ UNCHANGED <<damaged, EC, OGC>>

-----------------------------------------------------------------------------
(* The enclave: EncapsulateGProgram. *)

(* A mutant: with the field that only a program has. *)
PutGHeaderOfProgram ==
  /\ Goto("putGHeader", "putGGates")
  /\ Put(<<GC.numGates, GC.numWires, EC.num_of_clients, GC.inpSize, GC.outSize>>)
  /\ UNCHANGED <<hidden, EC, GC, OGC>>

PutGHeader ==
  /\ Goto("putGHeader", "putGGates")
  /\ Put(<<GC.numGates, GC.numWires, GC.inpSize, GC.outSize>>)
  /\ UNCHANGED <<hidden, EC, GC, OGC>>

PutGGate ==
  /\ Iterate("putGGates")
  /\ Put(OfGGate(GC.ggates[i]))
  /\ UNCHANGED <<hidden, EC, GC, OGC>>

PutGOutWLabel ==
  /\ Iterate("putGOutWLabels")
  /\ Put(<<GC.outWLabels[i]>>)
  /\ UNCHANGED <<hidden, EC, GC, OGC>>

(* ginput and fixedkey. *)
KeyAt(n) == IF n < GC.inpSize THEN GC.ginput[n] ELSE GC.fixedkey

PutKeys ==
  /\ Goto("putKeys", "putGSize")
  /\ Put([k \in 1..((GC.inpSize + 1) * KEY) |-> KeyAt((k - 1) \div KEY)[((k - 1) % KEY) + 1]])
  /\ UNCHANGED <<hidden, EC, GC, OGC>>

PutGSize ==
  /\ Goto("putGSize", "getGHeader")
  /\ Close
  /\ counter' = 1
  /\ UNCHANGED <<damaged, EC, GC, OGC>>

-----------------------------------------------------------------------------
(* The owner: decryption and decryptGProgram. *)

(* A mutant: the two sizes are taken in the order of the other format. *)
GetGHeaderSwapped ==
  /\ Goto("getGHeader", "getGGates")
  /\ hidden' = hidden \ Opened
  /\ LET h == [k \in Index(4) |-> buffer[counter + k]] IN
       OGC' = [numGates |-> h[0], numWires |-> h[1], inpSize |-> h[3],
               outSize |-> h[2], ggates |-> Nothing(h[0]),
               outWLabels |-> Nothing(h[2]), ginput |-> <<>>, fixedkey |-> Junk]
  /\ counter' = counter + 4
  /\ UNCHANGED <<buffer, damaged, EC, GC>>

GetGHeader ==
  /\ Goto("getGHeader", "getGGates")
  /\ hidden' = hidden \ Opened
  /\ LET h == [k \in Index(4) |-> buffer[counter + k]] IN
       OGC' = [numGates |-> h[0], numWires |-> h[1], inpSize |-> h[2],
               outSize |-> h[3], ggates |-> Nothing(h[0]),
               outWLabels |-> Nothing(h[3]), ginput |-> <<>>, fixedkey |-> Junk]
  /\ counter' = counter + 4
  /\ UNCHANGED <<buffer, damaged, EC, GC>>

GetGGate ==
  /\ Iterate("getGGates")
  /\ OGC' = [OGC EXCEPT !.ggates[i] = AsGGate(WordsAt(counter, GGATE))]
  /\ counter' = counter + GGATE
  /\ UNCHANGED <<buffer, hidden, damaged, EC, GC>>

GetGOutWLabel ==
  /\ Iterate("getGOutWLabels")
  /\ OGC' = [OGC EXCEPT !.outWLabels[i] = Word(counter)]
  /\ counter' = counter + 1
  /\ UNCHANGED <<buffer, hidden, damaged, EC, GC>>

GetKeys ==
  /\ Goto("getKeys", "done")
  /\ OGC' = [OGC EXCEPT
       !.ginput = [n \in Index(OGC.inpSize) |-> WordsAt(counter + n * KEY, KEY)],
       !.fixedkey = WordsAt(counter + OGC.inpSize * KEY, KEY)]
  /\ counter' = counter + (OGC.inpSize + 1) * KEY
  /\ UNCHANGED <<buffer, hidden, damaged, EC, GC>>

(* A process that has written past the end of a buffer may die. *)
Crash ==
  /\ damaged /\ pc \notin {"done", "crashed"}
  /\ pc' = "crashed"
  /\ UNCHANGED <<i, counter, buffer, hidden, damaged, EC, GC, OGC>>

(* Nothing is written before the file has been read. *)
Round ==
  /\ rpc = "done"
  /\ \/ EndLoop
     \/ PutHeader \/ PutGate \/ PutInpSize \/ PutOutWLabel \/ PutSize
     \/ GetHeader \/ GetGate \/ GetInpSize \/ GetOutWLabel
     \/ Garble
     \/ PutGHeader \/ PutGGate \/ PutGOutWLabel \/ PutKeys \/ PutGSize
     \/ GetGHeader \/ GetGGate \/ GetGOutWLabel \/ GetKeys
     \/ Crash

Returned ==
  /\ rpc \in {"exit", "undefined"} \/ pc \in {"done", "crashed"}
  /\ UNCHANGED vars

Next ==
  \/ readBRISCircuit /\ UNCHANGED wireVars
  \/ Round /\ UNCHANGED readerVars
  \/ Returned

Spec == Init /\ [][Next]_vars

-----------------------------------------------------------------------------

ProgramSize(c) == 6 + c.numGates * GATE + c.num_of_clients + c.outSize
GProgramSize(c) == 5 + c.numGates * GGATE + c.outSize + (c.inpSize + 1) * KEY

Fits(c) == ProgramSize(c) <= LIMIT /\ GProgramSize(c) <= LIMIT

Intact ==
  /\ file.exists /\ file.missing = 0
  /\ \A k \in Index(file.circuit.numGates) : Known(file, k)

(* A file that is whole and names the three kinds of gates only is read as *)
(* the circuit it describes, and that is what the enclave garbles, down to *)
(* the last gate, if the program fits in its buffer.                       *)
ProgramArrives ==
  Intact =>
    /\ rpc \notin {"exit", "undefined"}
    /\ rpc = "done" => C = file.circuit
    /\ pc = "garble" /\ ProgramSize(C) <= LIMIT => EC = C

(* The owner evaluates the garbled circuit and the garbled input that the  *)
(* enclave made of it, if both forms fit in their buffers.                 *)
GarbledArrives == pc = "done" /\ Fits(C) => OGC = GC

(* PROGLIMIT bounds the circuits, and nothing else does: memory is damaged *)
(* in the course of a round exactly by the circuits that do not fit.       *)
DamagedUnlessFits == pc = "done" => (damaged <=> ~Fits(C))
=============================================================================
