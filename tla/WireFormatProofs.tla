-------------------------- MODULE WireFormatProofs --------------------------
(***************************************************************************)
(* What a reader, and the two writers and readers of a buffer, keep to for *)
(* all files, sizes of circuits and sizes of the buffer: of the types of   *)
(* gates only those of two inputs are checked, a file that was cut short   *)
(* shows it, a whole one of known gates arrives at the enclave, its        *)
(* garbled form arrives at the owner, and memory is damaged by exactly the *)
(* programs that do not fit.                                               *)
(* The one assumption about the files is that each has the form of a       *)
(* circuit file, whatever was cut off its end (FilesAssumption).           *)
(*                                                                         *)
(* The invariant has two parts: RInv, where in the text the reader is, and *)
(* WInv, where in the buffer the writer or reader of the round is.         *)
(***************************************************************************)
EXTENDS WireFormat, SequenceTheorems, TLAPS

-----------------------------------------------------------------------------
(* The invariant of the reader: what is left of the file is what follows   *)
(* the first p tokens of the text, and what was read is what it says.  A   *)
(* gate that is there but for its last word has the wires, and one of      *)
(* which more is missing has no output wire.                               *)

At(r, f, p) ==
  /\ r \in Seq(Token)
  /\ Len(r) = (IF p <= There(f) THEN There(f) - p ELSE 0)
  /\ \A j \in 1..Len(r) : r[j] = f.text[p + j]

Circ(n, w, m, s, ss, o, gs, ls) ==
  [numGates |-> n, numWires |-> w, num_of_clients |-> m, inpSize |-> s,
   inpSizes |-> ss, outSize |-> o, gates |-> gs, outWLabels |-> ls]

GateRead(k) ==
  LET g == C.gates[k]
      h == file.circuit.gates[k]
      q == file.at[k + 1]
  IN  /\ g = [a |-> g.a, b |-> g.b, out |-> g.out, T |-> g.T]
      /\ q <= There(file) + 1 => SameWires(g, h)
      /\ q <= There(file) /\ ~OneInput(file, k) =>
           g.T = h.T /\ Kind(file, k) \in {"XOR", "AND"}
      /\ OneInput(file, k) /\ q <= There(file) + 1 => g.T = 7
      /\ q > There(file) + 1 => g.out = Unset

(* The gates before ri have been read. *)
GatesRead ==
  /\ C.gates = [k \in Index(file.circuit.numGates) |-> C.gates[k]]
  /\ \A k \in Index(file.circuit.numGates) : k < ri => GateRead(k)

RPlaces ==
  {"open", "meta", "numInputs", "inpSizes", "gates", "oneInput", "twoInputs",
   "done", "exit", "undefined"}

(* A whole file whose gates the reader lets pass. *)
Taken == file.exists /\ file.missing = 0 /\ Passes(file)

RTypeOK ==
  /\ file \in Files /\ rpc \in RPlaces
  /\ rpc \notin {"open", "exit"} => file.exists
  /\ Taken => rpc \notin {"exit", "undefined"}

RHead ==
  LET c == file.circuit IN
    /\ rpc \in {"open", "meta"} =>
         At(rest, file, 0) /\ ri = 0 /\ C = Circ(Unset, Unset, Unset, 0, <<>>, Unset, <<>>, <<>>)
    /\ rpc = "numInputs" =>
         /\ At(rest, file, 2) /\ ri = 0
         /\ C = Circ(c.numGates, c.numWires, Unset, 0, <<>>, Unset, <<>>, <<>>)
    /\ rpc = "inpSizes" =>
         /\ ri \in 0..c.num_of_clients /\ At(rest, file, 3 + ri)
         /\ C = Circ(c.numGates, c.numWires, c.num_of_clients, file.first[ri],
                     [k \in Index(c.num_of_clients) |-> IF k < ri THEN c.inpSizes[k] ELSE Unset],
                     Unset, <<>>, <<>>)

RGates ==
  LET c == file.circuit IN
    /\ rpc \in {"gates", "oneInput", "twoInputs"} =>
         /\ C = Circ(c.numGates, c.numWires, c.num_of_clients, c.inpSize,
                     c.inpSizes, c.outSize, C.gates, <<>>)
         /\ GatesRead
    /\ rpc \in {"gates", "oneInput", "twoInputs", "done"} =>
         4 + c.num_of_clients <= There(file)
    /\ rpc = "gates" => ri \in 0..c.numGates /\ At(rest, file, file.at[ri])
    /\ rpc \in {"oneInput", "twoInputs"} =>
         ri \in Index(c.numGates) /\ At(rest, file, file.at[ri] + 1)
    /\ rpc = "oneInput"  => OneInput(file, ri) \/ file.at[ri] + 1 > There(file)
    /\ rpc = "twoInputs" => ~OneInput(file, ri) \/ file.at[ri] + 1 > There(file)
    /\ rpc = "done" =>
         /\ C = Circ(c.numGates, c.numWires, c.num_of_clients, c.inpSize,
                     c.inpSizes, c.outSize, C.gates, c.outWLabels)
         /\ ri = c.numGates /\ GatesRead

RInv == RTypeOK /\ RHead /\ RGates
-----------------------------------------------------------------------------
(* The invariant of the path: how far a buffer is written or read goes by  *)
(* the place and i, and so do the words that it holds below its end, what  *)
(* has been read of them, and whether some were written beyond it.         *)

PutPlaces == {"putGates", "putInpSizes", "putOutWLabels", "putSize"}
GetPlaces == {"getHeader", "getGates", "getInpSizes", "getOutWLabels"}
PutGPlaces == {"putGHeader", "putGGates", "putGOutWLabels", "putKeys", "putGSize"}
GetGPlaces == {"getGHeader", "getGGates", "getGOutWLabels", "getKeys"}
WPlaces ==
  {"putHeader", "garble", "done", "crashed"}
    \cup PutPlaces \cup GetPlaces \cup PutGPlaces \cup GetGPlaces

(* Where the parts of the two messages begin. *)
GateAt(n) == 6 + GATE * n
SizeAt(n) == GateAt(C.numGates) + n
LabelAt(n) == SizeAt(C.num_of_clients) + n
GGateAt(n) == 5 + GGATE * n
GLabelAt(n) == GGateAt(C.numGates) + n
KeysAt == GLabelAt(C.outSize)

(* Their words. *)
ProgramWords(c) ==
  [a \in 1..(ProgramSize(c) - 1) |->
     IF a < 6 THEN <<c.numGates, c.numWires, c.num_of_clients, c.inpSize, c.outSize>>[a]
     ELSE IF a < 6 + GATE * c.numGates
          THEN OfGate(c.gates[(a - 6) \div GATE])[((a - 6) % GATE) + 1]
     ELSE IF a < 6 + GATE * c.numGates + c.num_of_clients
          THEN c.inpSizes[a - (6 + GATE * c.numGates)]
     ELSE c.outWLabels[a - (6 + GATE * c.numGates + c.num_of_clients)]]

GKeyAt(g, n) == IF n < g.inpSize THEN g.ginput[n] ELSE g.fixedkey

GProgramWords(g) ==
  [a \in 1..(GProgramSize(g) - 1) |->
     IF a < 5 THEN <<g.numGates, g.numWires, g.inpSize, g.outSize>>[a]
     ELSE IF a < 5 + GGATE * g.numGates
          THEN OfGGate(g.ggates[(a - 5) \div GGATE])[((a - 5) % GGATE) + 1]
     ELSE IF a < 5 + GGATE * g.numGates + g.outSize
          THEN g.outWLabels[a - (5 + GGATE * g.numGates)]
     ELSE LET k == a - (5 + GGATE * g.numGates + g.outSize)
          IN  GKeyAt(g, k \div KEY)[(k % KEY) + 1]]

(* The buffer b holds the words w below address n, as far as it goes. *)
Holds(b, w, n) == \A a \in 1..(n - 1) : a < LIMIT => b[a] = w[a]

WKinds ==
  /\ pc \in WPlaces /\ i \in Nat /\ counter \in Nat \ {0}
  /\ buffer = [a \in Index(LIMIT) |-> buffer[a]] /\ damaged \in BOOLEAN
  /\ pc # "putHeader" => rpc = "done"
  /\ pc = "putHeader" => i = 0 /\ hidden = {} /\ ~damaged

Position ==
  /\ pc \in {"putHeader", "getHeader", "putGHeader", "getGHeader"} => counter = 1
  /\ pc \in {"putGates", "getGates"} => i <= C.numGates /\ counter = GateAt(i)
  /\ pc \in {"putInpSizes", "getInpSizes"} =>
       i <= C.num_of_clients /\ counter = SizeAt(i)
  /\ pc \in {"putOutWLabels", "getOutWLabels"} =>
       i <= C.outSize /\ counter = LabelAt(i)
  /\ pc = "putSize" => counter = ProgramSize(C)
  /\ pc \in {"putGGates", "getGGates"} => i <= C.numGates /\ counter = GGateAt(i)
  /\ pc \in {"putGOutWLabels", "getGOutWLabels"} =>
       i <= C.outSize /\ counter = GLabelAt(i)
  /\ pc \in {"putKeys", "getKeys"} => counter = KeysAt
  /\ pc = "putGSize" => counter = GProgramSize(C)

Damage ==
  /\ pc \in PutPlaces => (damaged <=> counter > LIMIT)
  /\ pc \in GetPlaces \cup {"garble"} => (damaged <=> ProgramSize(C) > LIMIT)
  /\ pc \in PutGPlaces => (damaged <=> (ProgramSize(C) > LIMIT \/ counter > LIMIT))
  /\ pc \in GetGPlaces \cup {"done"} => (damaged <=> ~Fits(C))

Contents ==
  /\ pc \in PutPlaces => Holds(buffer, ProgramWords(C), counter) /\ hidden = {}
  /\ pc \in GetPlaces =>
       /\ Holds(buffer, ProgramWords(C), ProgramSize(C))
       /\ buffer[0] = ProgramSize(C)
       /\ hidden = IF pc = "getHeader" THEN 1..(ProgramSize(C) - 1) ELSE {}
  /\ pc \in PutGPlaces => Holds(buffer, GProgramWords(GC), counter) /\ hidden = {}
  /\ pc \in GetGPlaces =>
       /\ Holds(buffer, GProgramWords(GC), GProgramSize(C))
       /\ buffer[0] = GProgramSize(C)
       /\ hidden = IF pc = "getGHeader" THEN 1..(GProgramSize(C) - 1) ELSE {}

(* f and g agree below n. *)
Agree(f, g, n) == \A k \in Index(n) : f[k] = g[k]

(* The enclave's circuit has the numbers of the owner's, and the rest of   *)
(* it, too, if the program fits in its buffer.                             *)
ECForm ==
  /\ EC = Circ(C.numGates, C.numWires, C.num_of_clients, C.inpSize, EC.inpSizes,
               C.outSize, EC.gates, EC.outWLabels)
  /\ EC.gates = [k \in Index(C.numGates) |-> EC.gates[k]]
  /\ EC.inpSizes = [k \in Index(C.num_of_clients) |-> EC.inpSizes[k]]
  /\ EC.outWLabels = [k \in Index(C.outSize) |-> EC.outWLabels[k]]

Enclaves ==
  /\ pc \in {"getGates", "getInpSizes", "getOutWLabels", "garble"} \cup PutGPlaces => ECForm
  /\ rpc = "done" /\ ProgramSize(C) <= LIMIT =>
       /\ pc = "getGates" => Agree(EC.gates, C.gates, i)
       /\ pc = "getInpSizes" => EC.gates = C.gates /\ Agree(EC.inpSizes, C.inpSizes, i)
       /\ pc = "getOutWLabels" =>
            /\ EC.gates = C.gates /\ EC.inpSizes = C.inpSizes
            /\ Agree(EC.outWLabels, C.outWLabels, i)
       /\ pc = "garble" => EC = C

(* A garbled circuit with the numbers of the owner's circuit. *)
Garbled(gs, ls, ks, fk) ==
  [numGates |-> C.numGates, numWires |-> C.numWires, inpSize |-> C.inpSize,
   outSize |-> C.outSize, ggates |-> gs, outWLabels |-> ls, ginput |-> ks,
   fixedkey |-> fk]

GCForm ==
  /\ GC = Garbled(GC.ggates, GC.outWLabels, GC.ginput, GC.fixedkey)
  /\ GC.ggates = [k \in Index(C.numGates) |-> GC.ggates[k]]
  /\ \A k \in Index(C.numGates) :
       LET g == GC.ggates[k]
       IN  /\ g = [a |-> g.a, b |-> g.b, out |-> g.out, table |-> g.table]
           /\ g.table \in Tables
  /\ GC.outWLabels = [k \in Index(C.outSize) |-> GC.outWLabels[k]]
  /\ GC.ginput \in [Index(C.inpSize) -> Keys] /\ GC.fixedkey \in Keys

OGCForm ==
  /\ OGC = Garbled(OGC.ggates, OGC.outWLabels, OGC.ginput, OGC.fixedkey)
  /\ OGC.ggates = [k \in Index(C.numGates) |-> OGC.ggates[k]]
  /\ OGC.outWLabels = [k \in Index(C.outSize) |-> OGC.outWLabels[k]]

Owners ==
  /\ pc \in PutGPlaces \cup GetGPlaces \cup {"done"} => GCForm
  /\ pc \in {"getGGates", "getGOutWLabels", "getKeys", "done"} => OGCForm
  /\ rpc = "done" /\ GProgramSize(C) <= LIMIT =>
       /\ pc = "getGGates" => Agree(OGC.ggates, GC.ggates, i)
       /\ pc = "getGOutWLabels" =>
            OGC.ggates = GC.ggates /\ Agree(OGC.outWLabels, GC.outWLabels, i)
       /\ pc = "getKeys" => OGC.ggates = GC.ggates /\ OGC.outWLabels = GC.outWLabels
       /\ pc = "done" => OGC = GC

WInv == WKinds /\ Position /\ Damage /\ Contents /\ Enclaves /\ Owners

-----------------------------------------------------------------------------
(* What the conversions of fscanf yield. *)

LEMMA TheFile ==
  ASSUME file \in Files
  PROVE  Describes(file) /\ There(file) \in Nat /\ There(file) <= Len(file.text)
<1>1. Describes(file)
  BY FilesAssumption
<1>2. Len(file.text) \in Nat
  BY <1>1 DEF Describes
<1> QED
  BY <1>1, <1>2 DEF Describes, There

LEMMA Numbers ==
  ASSUME NEW n
  PROVE  Num(n).num /\ Num(n).v = n
  BY DEF Num

LEMMA MatchedIs ==
  ASSUME NEW format, NEW n \in Nat, Len(format) = n, rest \in Seq(Token),
         NEW k \in 0..n, k <= Len(rest), k = n \/ k = Len(rest),
         \A j \in 1..k : format[j] = "%s" \/ rest[j].num
  PROVE  Matched(format) = k
<1> DEFINE P(m) == /\ m <= Len(rest)
                   /\ \A j \in 1..m : format[j] = "%s" \/ rest[j].num
                   /\ \/ m = n \/ m = Len(rest)
                      \/ format[m + 1] = "%d" /\ ~rest[m + 1].num
<1>0. Len(rest) \in Nat
  OBVIOUS
<1>1. P(k)
  OBVIOUS
<1>2. ASSUME NEW m \in 0..n, P(m)
      PROVE  m = k
  <2>1. CASE m < k
    <3>1. m + 1 \in 1..k
      BY <2>1
    <3>2. m # n /\ m # Len(rest)
      BY <2>1, <1>0
    <3> QED
      BY <3>1, <3>2, <1>2
  <2>2. CASE m > k
    BY <2>2, <1>2, <1>0
  <2> QED
    BY <2>1, <2>2
<1>3. Matched(format) = CHOOSE m \in 0..n : P(m)
  BY DEF Matched
<1> HIDE DEF P
<1> QED
  BY <1>1, <1>2, <1>3

(* A format that fits the text where the file is read. *)
Fitting(format, n, p) ==
  \A j \in 1..n : p + j <= There(file) => format[j] = "%s" \/ file.text[p + j].num

LEMMA ScanAt ==
  ASSUME file \in Files, NEW p \in Nat, At(rest, file, p),
         NEW format, NEW n \in Nat, Len(format) = n, Fitting(format, n, p)
  PROVE  /\ Matched(format) = (IF p + n <= There(file) THEN n ELSE Len(rest))
         /\ \A j \in 1..n : \A old :
              Scan(format, j, old) = IF p + j <= There(file) THEN file.text[p + j].v ELSE old
         /\ rest' = Left(format) => At(rest', file, p + n)
<1> DEFINE k == IF p + n <= There(file) THEN n ELSE Len(rest)
<1>1. There(file) \in Nat
  BY TheFile
<1>2. rest \in Seq(Token) /\ Len(rest) = (IF p <= There(file) THEN There(file) - p ELSE 0)
  BY DEF At
<1>3. k \in 0..n /\ k <= Len(rest) /\ (k = n \/ k = Len(rest))
  BY <1>1, <1>2
<1>4. \A j \in 1..k : p + j <= There(file) /\ rest[j] = file.text[p + j]
  BY <1>1, <1>2, <1>3 DEF At
<1>5. \A j \in 1..k : format[j] = "%s" \/ rest[j].num
  BY <1>3, <1>4 DEF Fitting
<1>6. Matched(format) = k
  <2> HIDE DEF k
  <2> QED
    BY <1>2, <1>3, <1>5, MatchedIs
<1>7. \A j \in 1..n : j <= k <=> p + j <= There(file)
  BY <1>1, <1>2
<1>8. \A j \in 1..n : \A old :
        Scan(format, j, old) = IF p + j <= There(file) THEN file.text[p + j].v ELSE old
  BY <1>3, <1>4, <1>6, <1>7 DEF Scan
<1>9. ASSUME rest' = Left(format)
      PROVE  At(rest', file, p + n)
  <2>1. rest' = SubSeq(rest, k + 1, Len(rest))
    BY <1>9, <1>6 DEF Left
  <2>3. rest' \in Seq(Token) /\ Len(rest') = Len(rest) - k
    <3> HIDE DEF k
    <3> QED
      BY <2>1, <1>2, <1>3, SubSeqProperties
  <2>4. \A j \in 1..Len(rest') : rest'[j] = rest[k + j]
    <3> HIDE DEF k
    <3> QED
      BY <2>1, <1>2, <1>3, SubSeqProperties
  <2>5. Len(rest') = (IF p + n <= There(file) THEN There(file) - (p + n) ELSE 0)
    BY <2>3, <1>1, <1>2
  <2>6. ASSUME NEW j \in 1..Len(rest')
        PROVE  rest'[j] = file.text[(p + n) + j]
    <3>1. k = n
      BY <2>3, <2>6, <1>1, <1>2
    <3>2. rest[k + j] = file.text[p + (k + j)]
      BY <2>3, <2>6, <1>2, <1>3 DEF At
    <3>3. j \in Nat /\ p + (k + j) = (p + n) + j
      BY <3>1, <2>6
    <3> QED
      BY <3>2, <3>3, <2>4, <2>6
  <2> QED
    BY <2>3, <2>5, <2>6 DEF At
<1> QED
  BY <1>6, <1>8, <1>9

(* At the end of the file nothing is read. *)
LEMMA ScanNothing ==
  ASSUME file \in Files, NEW p \in Nat, At(rest, file, p), p >= There(file),
         NEW format, NEW n \in Nat, Len(format) = n
  PROVE  /\ \A j \in 1..n : \A old : Scan(format, j, old) = old
         /\ n > 0 => Matched(format) # n
         /\ rest' = Left(format) =>
              \A q \in Nat : q >= There(file) => At(rest', file, q)
<1>1. There(file) \in Nat
  BY TheFile
<1>2. Fitting(format, n, p)
  BY <1>1 DEF Fitting
<1>3. Len(rest) = 0
  BY <1>1 DEF At
<1>4. /\ Matched(format) = (IF p + n <= There(file) THEN n ELSE Len(rest))
      /\ \A j \in 1..n : \A old :
              Scan(format, j, old) = IF p + j <= There(file) THEN file.text[p + j].v ELSE old
      /\ rest' = Left(format) => At(rest', file, p + n)
  BY <1>2, ScanAt
<1>5. ASSUME rest' = Left(format), NEW q \in Nat, q >= There(file)
      PROVE  At(rest', file, q)
  <2>1. At(rest', file, p + n)
    BY <1>4, <1>5
  <2>2. rest' \in Seq(Token) /\ Len(rest') = 0
    BY <2>1, <1>1 DEF At
  <2> QED
    BY <2>1, <2>2, <1>1, <1>5 DEF At
<1>6. ASSUME n > 0
      PROVE  Matched(format) # n
  BY <1>1, <1>3, <1>4, <1>6
<1> QED
  BY <1>1, <1>4, <1>5, <1>6

LEMMA ScanOne ==
  ASSUME file \in Files, NEW p \in Nat, At(rest, file, p),
         NEW q, q = p + 1, q <= There(file) => file.text[q].num
  PROVE  /\ \A old : Scan(<<"%d">>, 1, old) =
                       IF q <= There(file) THEN file.text[q].v ELSE old
         /\ rest' = Left(<<"%d">>) => At(rest', file, q)
<1> DEFINE f == <<"%d">>
<1>1. PICK n \in Nat : n = 1
  OBVIOUS
<1>2. Fitting(f, n, p) /\ Len(f) = n
  BY <1>1 DEF Fitting
<1> HIDE DEF f
<1>3. \A j \in 1..n : \A old :
        Scan(f, j, old) = IF p + j <= There(file) THEN file.text[p + j].v ELSE old
  BY <1>2, ScanAt
<1>4. rest' = Left(f) => At(rest', file, p + n)
  BY <1>2, ScanAt
<1>5. 1 \in 1..n
  BY <1>1
<1> QED
  BY <1>1, <1>3, <1>4, <1>5 DEF f

-----------------------------------------------------------------------------
(* What the file says. *)

LEMMA FileHead ==
  ASSUME file \in Files
  PROVE  LET c == file.circuit IN
         /\ c.numGates \in Nat /\ c.numWires \in Nat /\ c.num_of_clients \in Nat
         /\ c.inpSize \in Nat /\ c.outSize \in Nat
         /\ c.inpSizes \in [Index(c.num_of_clients) -> Nat]
         /\ file.first \in [0..c.num_of_clients -> Nat]
         /\ file.at[0] = 4 + c.num_of_clients
         /\ file.text[1] = Num(c.numGates) /\ file.text[2] = Num(c.numWires)
         /\ file.text[3] = Num(c.num_of_clients)
         /\ file.text[4 + c.num_of_clients] = Num(c.outSize)
         /\ file.first[0] = 0 /\ file.first[c.num_of_clients] = c.inpSize
         /\ \A k \in Index(c.num_of_clients) :
              /\ file.text[4 + k] = Num(c.inpSizes[k])
              /\ file.first[k + 1] = file.first[k] + c.inpSizes[k]
         /\ c = Circ(c.numGates, c.numWires, c.num_of_clients, c.inpSize, c.inpSizes,
                     c.outSize, c.gates, c.outWLabels)
         /\ c.outWLabels = [n \in Index(c.outSize) |-> c.numWires - c.outSize + n]
<1>1. Describes(file)
  BY TheFile
<1>2. IsCircuit(file.circuit)
  BY <1>1 DEF Describes
<1>3. LET c == file.circuit IN
        /\ c.numGates \in Nat /\ c.numWires \in Nat /\ c.num_of_clients \in Nat
        /\ c.inpSize \in Nat /\ c.outSize \in Nat
        /\ c.inpSizes \in [Index(c.num_of_clients) -> Nat]
  BY <1>2 DEF IsCircuit
<1>4. LET c == file.circuit IN
        c = Circ(c.numGates, c.numWires, c.num_of_clients, c.inpSize, c.inpSizes,
                 c.outSize, c.gates, c.outWLabels)
  BY <1>2 DEF IsCircuit, Circ
<1>5. HeadDescribes(file) /\ file.first \in [0..file.circuit.num_of_clients -> Nat]
  BY <1>1 DEF Describes
<1> QED
  BY <1>3, <1>4, <1>5 DEF HeadDescribes

LEMMA FileGate ==
  ASSUME file \in Files, NEW k \in Index(file.circuit.numGates)
  PROVE  LET g == file.circuit.gates[k]
             p == file.at[k]
             q == file.at[k + 1]
         IN
         /\ p \in Nat /\ q \in Nat /\ q <= Len(file.text)
         /\ g = [a |-> g.a, b |-> g.b, out |-> g.out, T |-> g.T]
         /\ g.a \in Nat /\ g.b \in Nat /\ g.out \in Nat /\ g.T \in Nat
         /\ ~file.text[q].num /\ Kind(file, k) \in Words
         /\ file.text[p + 2] = Num(1) /\ file.text[p + 3] = Num(g.a)
         /\ OneInput(file, k) =>
              /\ g.b = g.a /\ q = p + 5
              /\ file.text[p + 1] = Num(1) /\ file.text[p + 4] = Num(g.out)
              /\ (g.T = 7) <=> (Kind(file, k) = "INV")
         /\ ~OneInput(file, k) =>
              /\ q = p + 6
              /\ file.text[p + 1] = Num(2)
              /\ file.text[p + 4] = Num(g.b) /\ file.text[p + 5] = Num(g.out)
              /\ (g.T = 6) <=> (Kind(file, k) = "XOR")
              /\ (g.T = 8) <=> (Kind(file, k) = "AND")
         /\ Taken => Kind(file, k) \in {"XOR", "AND"} \/ OneInput(file, k)
<1> DEFINE c == file.circuit
           p == file.at[k]
           q == file.at[k + 1]
<1>1. Describes(file) /\ IsCircuit(c) /\ c.numGates \in Nat
  BY TheFile, FileHead DEF Describes
<1>2. GateDescribes(file, k) /\ k \in 0..c.numGates /\ k + 1 \in 0..c.numGates
  BY <1>1 DEF Describes, Index
<1>3. p \in 0..Len(file.text) /\ q \in 0..Len(file.text)
  BY <1>1, <1>2 DEF Describes
<1>4. Len(file.text) \in Nat /\ file.text \in Seq(Token)
  BY <1>1 DEF Describes
<1>5. c.gates[k] \in [a : Nat, b : Nat, out : Nat, T : Nat]
  BY <1>1 DEF IsCircuit
<1>6. q = p + 5 \/ q = p + 6
  BY <1>2 DEF GateDescribes, OneInput
<1>7. file.text[q] \in Token
  BY <1>3, <1>4, <1>6
<1>8. ~file.text[q].num /\ Kind(file, k) \in Words
  BY <1>2, <1>7 DEF GateDescribes, Kind, Token
<1>9. Taken => Kind(file, k) \in {"XOR", "AND"} \/ OneInput(file, k)
  <2>1. file.at[k + 1] <= Len(file.text) /\ Len(file.text) \in Nat
    BY <1>1, <1>2 DEF Describes
  <2>2. Taken => file.at[k + 1] <= There(file)
    BY <2>1 DEF Taken, There
  <2> QED
    BY <2>2 DEF Taken, Passes, Whole
<1>10. LET g == file.circuit.gates[k] IN
         /\ g = [a |-> g.a, b |-> g.b, out |-> g.out, T |-> g.T]
         /\ g.a \in Nat /\ g.b \in Nat /\ g.out \in Nat /\ g.T \in Nat
  BY <1>5
<1>11. p \in Nat /\ q \in Nat /\ q <= Len(file.text)
  BY <1>3, <1>4
<1>12. LET g == file.circuit.gates[k] IN
         /\ file.text[p + 2] = Num(1) /\ file.text[p + 3] = Num(g.a)
         /\ OneInput(file, k) =>
              /\ g.b = g.a /\ q = p + 5
              /\ file.text[p + 1] = Num(1) /\ file.text[p + 4] = Num(g.out)
              /\ (g.T = 7) <=> (Kind(file, k) = "INV")
         /\ ~OneInput(file, k) =>
              /\ q = p + 6
              /\ file.text[p + 1] = Num(2)
              /\ file.text[p + 4] = Num(g.b) /\ file.text[p + 5] = Num(g.out)
              /\ (g.T = 6) <=> (Kind(file, k) = "XOR")
              /\ (g.T = 8) <=> (Kind(file, k) = "AND")
  BY <1>2, <1>3, <1>10 DEF GateDescribes, OneInput
<1> QED
  BY <1>8, <1>9, <1>10, <1>11, <1>12

(* An intact file is taken. *)
LEMMA IntactIsTaken ==
  ASSUME Intact
  PROVE  Taken
  BY DEF Intact, Taken, Passes, Whole, Known

(* Of such a file everything is there. *)
LEMMA EnoughText ==
  ASSUME file \in Files, Taken
  PROVE  /\ There(file) = Len(file.text) /\ 4 + file.circuit.num_of_clients <= There(file)
         /\ \A k \in Index(file.circuit.numGates) : file.at[k + 1] <= There(file)
<1>1. Describes(file) /\ There(file) \in Nat
  BY TheFile
<1>2. There(file) = Len(file.text)
  BY <1>1 DEF Describes, Taken, There
<1>3. file.at[0] \in 0..Len(file.text)
  <2>1. 0 \in 0..file.circuit.numGates
    BY FileHead
  <2> QED
    BY <1>1, <2>1 DEF Describes
<1>4. 4 + file.circuit.num_of_clients <= There(file)
  BY <1>1, <1>2, <1>3, FileHead
<1>5. \A k \in Index(file.circuit.numGates) : file.at[k + 1] <= There(file)
  BY <1>2, FileGate
<1> QED
  BY <1>2, <1>4, <1>5

LEMMA UnsetIsNoNumber ==
  Unset \notin Nat /\ \A n \in Nat : n # Unset
  BY UnsetAssumption

-----------------------------------------------------------------------------
(* The steps of the reader, the head first. *)

LEMMA ReaderStarts ==
  Init => RInv
<1> SUFFICES ASSUME Init
             PROVE  RInv
  OBVIOUS
<1>1. file \in Files /\ rpc = "open" /\ ri = 0
  BY DEF Init, ReaderInit
<1>2. C = Circ(Unset, Unset, Unset, 0, <<>>, Unset, <<>>, <<>>)
  BY DEF Init, ReaderInit, Circ
<1>3. There(file) \in Nat /\ There(file) <= Len(file.text) /\ Describes(file)
  BY <1>1, TheFile
<1>4. file.text \in Seq(Token) /\ Len(file.text) \in Nat
  BY <1>3 DEF Describes
<1>5. rest = SubSeq(file.text, 1, There(file))
  BY DEF Init, ReaderInit, There
<1>6. \A j \in 1..There(file) : file.text[j] \in Token
  BY <1>3, <1>4
<1>7. /\ rest \in Seq(Token)
      /\ Len(rest) = (IF 1 <= There(file) THEN There(file) - 1 + 1 ELSE 0)
      /\ \A j \in 1..(There(file) - 1 + 1) : rest[j] = file.text[1 + j - 1]
  BY <1>3, <1>5, <1>6, SubSeqProperties
<1>8. Len(rest) = There(file)
  BY <1>3, <1>7
<1>9. At(rest, file, 0)
  BY <1>3, <1>7, <1>8 DEF At
<1> QED
  BY <1>1, <1>2, <1>9 DEF RInv, RTypeOK, RPlaces, RHead, RGates

LEMMA OpenStep ==
  ASSUME RInv, Open
  PROVE  RInv'
<1>1. /\ rpc = "open" /\ rpc' = IF file.exists THEN "meta" ELSE "exit"
      /\ UNCHANGED <<file, rest, ri, C>>
  BY DEF Open
<1>2. file \in Files /\ At(rest, file, 0) /\ ri = 0 /\ C = Circ(Unset, Unset, Unset, 0, <<>>, Unset, <<>>, <<>>)
  BY <1>1 DEF RInv, RTypeOK, RHead
<1>3. At(rest', file, 0) /\ Taken' = Taken
  BY <1>1, <1>2 DEF At, There, Taken
<1>4. file' \in Files
  BY <1>1, <1>2
<1>5. RTypeOK'
  BY <1>1, <1>3, <1>4 DEF RTypeOK, RPlaces, Taken
<1> QED
  BY <1>1, <1>2, <1>3, <1>5 DEF RInv, RHead, RGates

LEMMA ReadMetaStep ==
  ASSUME RInv, ReadMeta
  PROVE  RInv'
<1> DEFINE c == file.circuit
           f == <<"%d", "%d">>
<1>1. /\ rpc = "meta" /\ file \in Files /\ file.exists /\ At(rest, file, 0) /\ ri = 0
      /\ C = Circ(Unset, Unset, Unset, 0, <<>>, Unset, <<>>, <<>>)
  BY DEF RInv, RTypeOK, RHead, ReadMeta
<1>2. /\ rest' = Left(f) /\ UNCHANGED file /\ ri' = 0
      /\ C' = Circ(Scan(f, 1, Unset), Scan(f, 2, Unset), Unset, 0, <<>>, Unset, <<>>, <<>>)
      /\ rpc' = Unless(C'.numWires, "numInputs")
  BY <1>1 DEF ReadMeta, Circ
<1>3. Fitting(f, 2, 0) /\ Len(f) = 2
  <2>1. file.text[1].num /\ file.text[2].num
    BY <1>1, FileHead, Numbers
  <2> QED
    BY <2>1 DEF Fitting
<1>4. /\ \A j \in 1..2 : \A old :
           Scan(f, j, old) = IF 0 + j <= There(file) THEN file.text[0 + j].v ELSE old
      /\ At(rest', file, 0 + 2)
  <2>1. 0 \in Nat /\ 2 \in Nat /\ file \in Files /\ At(rest, file, 0)
    BY <1>1
  <2> HIDE DEF f
  <2>2. \A j \in 1..2 : \A old :
           Scan(f, j, old) = IF 0 + j <= There(file) THEN file.text[0 + j].v ELSE old
    BY <2>1, <1>3, ScanAt
  <2>3. At(rest', file, 0 + 2)
    BY <2>1, <1>2, <1>3, ScanAt
  <2> QED
    BY <2>2, <2>3
<1>5. There(file) \in Nat /\ c.numGates \in Nat /\ c.numWires \in Nat
  BY <1>1, TheFile, FileHead
<1>6. CASE 2 <= There(file)
  <2>1. Scan(f, 1, Unset) = c.numGates /\ Scan(f, 2, Unset) = c.numWires
    BY <1>1, <1>4, <1>5, <1>6, FileHead, Numbers
  <2>2. C' = Circ(c.numGates, c.numWires, Unset, 0, <<>>, Unset, <<>>, <<>>)
    BY <1>2, <2>1
  <2>3. rpc' = "numInputs"
    BY <1>2, <1>5, <2>2, UnsetIsNoNumber DEF Circ, Unless
  <2> QED
    BY <1>1, <1>2, <1>4, <2>2, <2>3 DEF RInv, RTypeOK, RPlaces, RHead, RGates
<1>7. CASE ~(2 <= There(file))
  <2>1. Scan(f, 2, Unset) = Unset
    BY <1>4, <1>7
  <2>2. rpc' = "undefined"
    BY <1>2, <2>1 DEF Circ, Unless
  <2>3. ~Taken
    BY <1>1, <1>5, <1>7, FileHead, EnoughText
  <2>4. ~Taken'
    BY <1>2, <2>3 DEF Taken
  <2> QED
    BY <1>1, <1>2, <2>2, <2>4 DEF RInv, RTypeOK, RPlaces, RHead, RGates
<1> QED
  BY <1>6, <1>7

LEMMA ReadNumInputsStep ==
  ASSUME RInv, ReadNumInputs
  PROVE  RInv'
<1> DEFINE c == file.circuit
           f == <<"%d">>
           n == Scan(f, 1, Unset)
<1>1. /\ rpc = "numInputs" /\ file \in Files /\ file.exists /\ At(rest, file, 2) /\ ri = 0
      /\ C = Circ(c.numGates, c.numWires, Unset, 0, <<>>, Unset, <<>>, <<>>)
  BY DEF RInv, RTypeOK, RHead, ReadNumInputs
<1>2. /\ rest' = Left(f) /\ UNCHANGED file /\ ri' = 0
      /\ C' = Circ(c.numGates, c.numWires, n, 0,
                   [k \in Index(IF n = Unset THEN 0 ELSE n) |-> Unset], Unset, <<>>, <<>>)
      /\ rpc' = Unless(n, "inpSizes")
  BY <1>1 DEF ReadNumInputs, Circ
<1>3. file.text[3].num /\ 2 \in Nat /\ 3 = 2 + 1
  BY <1>1, FileHead, Numbers
<1>4. n = (IF 3 <= There(file) THEN file.text[3].v ELSE Unset) /\ At(rest', file, 3)
  BY <1>1, <1>2, <1>3, ScanOne
<1>5. There(file) \in Nat /\ c.num_of_clients \in Nat
  BY <1>1, TheFile, FileHead
<1>6. CASE 3 <= There(file)
  <2>1. n = c.num_of_clients /\ n # Unset
    BY <1>1, <1>4, <1>5, <1>6, FileHead, Numbers, UnsetIsNoNumber
  <2> HIDE DEF n
  <2>2. rpc' = "inpSizes" /\ ri' \in 0..c.num_of_clients
    BY <1>2, <1>5, <2>1 DEF Unless
  <2>3. file.first[ri'] = 0
    BY <1>1, <1>2, FileHead
  <2>4. [k \in Index(IF n = Unset THEN 0 ELSE n) |-> Unset]
          = [k \in Index(c.num_of_clients) |-> IF k < ri' THEN c.inpSizes[k] ELSE Unset]
    BY <1>2, <1>5, <2>1 DEF Index
  <2>5. C' = Circ(c.numGates, c.numWires, c.num_of_clients, file.first[ri'],
                  [k \in Index(c.num_of_clients) |-> IF k < ri' THEN c.inpSizes[k] ELSE Unset],
                  Unset, <<>>, <<>>)
    BY <1>2, <2>1, <2>3, <2>4
  <2>6. At(rest', file', 3 + ri')
    BY <1>2, <1>4
  <2> QED
    BY <1>1, <1>2, <2>2, <2>5, <2>6 DEF RInv, RTypeOK, RPlaces, RHead, RGates
<1>7. CASE ~(3 <= There(file))
  <2>1. n = Unset
    BY <1>4, <1>7
  <2>2. rpc' = "undefined"
    BY <1>2, <2>1 DEF Unless
  <2>3. ~Taken
    BY <1>1, <1>5, <1>7, FileHead, EnoughText
  <2>4. ~Taken'
    BY <1>2, <2>3 DEF Taken
  <2> QED
    BY <1>1, <1>2, <2>2, <2>4 DEF RInv, RTypeOK, RPlaces, RHead, RGates
<1> QED
  BY <1>6, <1>7

LEMMA ReadInpSizeStep ==
  ASSUME RInv, ReadInpSize
  PROVE  RInv'
<1> DEFINE c == file.circuit
           f == <<"%d">>
           n == Scan(f, 1, Unset)
           upTo(r) == [k \in Index(c.num_of_clients) |-> IF k < r THEN c.inpSizes[k] ELSE Unset]
<1>1. /\ rpc = "inpSizes" /\ file \in Files /\ file.exists /\ At(rest, file, 3 + ri)
      /\ ri \in 0..c.num_of_clients
      /\ C = Circ(c.numGates, c.numWires, c.num_of_clients, file.first[ri], upTo(ri),
                  Unset, <<>>, <<>>)
  BY DEF RInv, RTypeOK, RHead, ReadInpSize
<1>2. C.num_of_clients = c.num_of_clients /\ c.num_of_clients \in Nat /\ There(file) \in Nat
  BY <1>1, FileHead, TheFile DEF Circ
<1>3. ri \in Index(c.num_of_clients) /\ ri \in Nat /\ 3 + ri \in Nat
  BY <1>1, <1>2 DEF ReadInpSize, Index
<1>4. /\ rest' = Left(f) /\ UNCHANGED file /\ ri' = ri + 1
      /\ C' = Circ(c.numGates, c.numWires, c.num_of_clients,
                   IF n = Unset THEN file.first[ri] ELSE file.first[ri] + n,
                   [upTo(ri) EXCEPT ![ri] = n], Unset, <<>>, <<>>)
      /\ rpc' = Unless(n, "inpSizes")
  <2>1. rest' = Left(f) /\ UNCHANGED file /\ ri' = ri + 1 /\ rpc' = Unless(n, "inpSizes")
    BY <1>1 DEF ReadInpSize
  <2>2. C' = [C EXCEPT !.inpSizes[ri] = n,
                       !.inpSize = IF n = Unset THEN @ ELSE @ + n]
    BY DEF ReadInpSize
  <2> HIDE DEF upTo, n
  <2>3. C' = Circ(c.numGates, c.numWires, c.num_of_clients,
                   IF n = Unset THEN file.first[ri] ELSE file.first[ri] + n,
                   [upTo(ri) EXCEPT ![ri] = n], Unset, <<>>, <<>>)
    BY <1>1, <2>2 DEF Circ
  <2> QED
    BY <2>1, <2>3 DEF upTo, n
<1>5. file.text[4 + ri] = Num(c.inpSizes[ri]) /\ c.inpSizes[ri] \in Nat
      /\ file.first[ri + 1] = file.first[ri] + c.inpSizes[ri]
  BY <1>1, <1>3, FileHead
<1>6. file.text[4 + ri].num /\ 4 + ri = (3 + ri) + 1
  BY <1>3, <1>5, Numbers
<1>7. n = (IF 4 + ri <= There(file) THEN file.text[4 + ri].v ELSE Unset) /\ At(rest', file, 4 + ri)
  BY <1>1, <1>3, <1>4, <1>6, ScanOne
<1>8. CASE 4 + ri <= There(file)
  <2>1. n = c.inpSizes[ri] /\ n # Unset
    BY <1>5, <1>7, <1>8, Numbers, UnsetIsNoNumber
  <2>2. rpc' = "inpSizes" /\ ri' \in 0..c.num_of_clients
    BY <1>2, <1>3, <1>4, <2>1 DEF Unless, Index
  <2>3. [upTo(ri) EXCEPT ![ri] = n] = upTo(ri')
    <3>1. \A k \in Index(c.num_of_clients) :
             (IF k < ri' THEN c.inpSizes[k] ELSE Unset)
               = IF k = ri THEN c.inpSizes[ri] ELSE IF k < ri THEN c.inpSizes[k] ELSE Unset
      BY <1>3, <1>4 DEF Index
    <3>2. [upTo(ri) EXCEPT ![ri] = n]
            = [k \in Index(c.num_of_clients) |->
                 IF k = ri THEN n ELSE IF k < ri THEN c.inpSizes[k] ELSE Unset]
      BY <1>3
    <3> HIDE DEF n
    <3> QED
      BY <2>1, <3>1, <3>2
  <2>4. C' = Circ(c.numGates, c.numWires, c.num_of_clients, file.first[ri'], upTo(ri'),
                  Unset, <<>>, <<>>)
    <3> HIDE DEF n, upTo
    <3> QED
      BY <1>4, <1>5, <2>1, <2>3
  <2>5. At(rest', file', 3 + ri')
    <3>1. 3 + ri' = 4 + ri
      BY <1>3, <1>4
    <3> QED
      BY <1>4, <1>7, <3>1
  <2> QED
    BY <1>1, <1>4, <2>2, <2>4, <2>5 DEF RInv, RTypeOK, RPlaces, RHead, RGates, Taken
<1>9. CASE ~(4 + ri <= There(file))
  <2>1. n = Unset
    BY <1>7, <1>9
  <2>2. rpc' = "undefined"
    BY <1>4, <2>1 DEF Unless
  <2>3. ~Taken
    BY <1>1, <1>2, <1>3, <1>9, EnoughText DEF Index
  <2>4. ~Taken'
    BY <1>4, <2>3 DEF Taken
  <2> QED
    BY <1>1, <1>4, <2>2, <2>4 DEF RInv, RTypeOK, RPlaces, RHead, RGates
<1> QED
  BY <1>8, <1>9

LEMMA ReadOutSizeStep ==
  ASSUME RInv, ReadOutSize
  PROVE  RInv'
<1> DEFINE c == file.circuit
           f == <<"%d">>
           n == Scan(f, 1, Unset)
           m == c.num_of_clients
<1>1. /\ rpc = "inpSizes" /\ file \in Files /\ file.exists /\ At(rest, file, 3 + ri)
      /\ ri \in 0..m
      /\ C = Circ(c.numGates, c.numWires, m, file.first[ri],
                  [k \in Index(m) |-> IF k < ri THEN c.inpSizes[k] ELSE Unset],
                  Unset, <<>>, <<>>)
  BY DEF RInv, RTypeOK, RHead, ReadOutSize
<1>2. m \in Nat /\ There(file) \in Nat /\ c.numGates \in Nat /\ ri = m /\ 3 + m \in Nat
  BY <1>1, FileHead, TheFile DEF Circ, ReadOutSize
<1>3. [k \in Index(m) |-> IF k < ri THEN c.inpSizes[k] ELSE Unset] = c.inpSizes
  <2>1. c.inpSizes \in [Index(m) -> Nat]
    BY <1>1, FileHead
  <2>2. \A k \in Index(m) : k < ri
    BY <1>2 DEF Index
  <2>3. [k \in Index(m) |-> IF k < ri THEN c.inpSizes[k] ELSE Unset] = [k \in Index(m) |-> c.inpSizes[k]]
    BY <2>2
  <2> QED
    BY <2>1, <2>3
<1>4. file.first[ri] = c.inpSize
  BY <1>1, <1>2, FileHead
<1>5. C = Circ(c.numGates, c.numWires, m, c.inpSize, c.inpSizes, Unset, <<>>, <<>>)
  BY <1>1, <1>3, <1>4
<1>6. /\ rest' = Left(f) /\ UNCHANGED file /\ ri' = 0
      /\ C' = Circ(c.numGates, c.numWires, m, c.inpSize, c.inpSizes, n,
                   [k \in Index(c.numGates) |-> NoGate], <<>>)
      /\ rpc' = Unless(C'.outSize, "gates")
  BY <1>5 DEF ReadOutSize, Circ
<1>7. file.text[4 + m] = Num(c.outSize) /\ c.outSize \in Nat /\ file.at[0] = 4 + m
  BY <1>1, FileHead
<1>8. file.text[4 + m].num /\ 4 + m = (3 + m) + 1 /\ At(rest, file, 3 + m)
  BY <1>1, <1>2, <1>7, Numbers
<1>9. n = (IF 4 + m <= There(file) THEN file.text[4 + m].v ELSE Unset) /\ At(rest', file, 4 + m)
  BY <1>1, <1>2, <1>6, <1>8, ScanOne
<1>10. CASE 4 + m <= There(file)
  <2>1. n = c.outSize /\ n # Unset
    BY <1>7, <1>9, <1>10, Numbers, UnsetIsNoNumber
  <2> HIDE DEF n
  <2>2. C'.outSize = n /\ C'.gates = [k \in Index(c.numGates) |-> NoGate]
    BY <1>6 DEF Circ
  <2>3. rpc' = "gates" /\ ri' \in 0..c.numGates
    BY <1>2, <1>6, <2>1, <2>2 DEF Unless
  <2>4. C' = Circ(c.numGates, c.numWires, m, c.inpSize, c.inpSizes, c.outSize, C'.gates, <<>>)
    BY <1>6, <2>1, <2>2
  <2>5. GatesRead'
    <3>1. \A k \in Index(c.numGates) : ~(k < ri')
      BY <1>2, <1>6 DEF Index
    <3>2. C'.gates = [k \in Index(c.numGates) |-> C'.gates[k]]
      BY <2>2
    <3> QED
      BY <3>1, <3>2, <1>6 DEF GatesRead
  <2>6. At(rest', file', file'.at[ri'])
    BY <1>6, <1>7, <1>9
  <2> QED
    BY <1>1, <1>6, <1>10, <2>3, <2>4, <2>5, <2>6 DEF RInv, RTypeOK, RPlaces, RHead, RGates, Taken
<1>11. CASE ~(4 + m <= There(file))
  <2>1. n = Unset
    BY <1>9, <1>11
  <2>2. rpc' = "undefined"
    <3> HIDE DEF n
    <3> QED
      BY <1>6, <2>1 DEF Unless, Circ
  <2>3. ~Taken
    BY <1>1, <1>2, <1>11, EnoughText
  <2>4. ~Taken'
    BY <1>6, <2>3 DEF Taken
  <2> QED
    BY <1>1, <1>6, <2>2, <2>4 DEF RInv, RTypeOK, RPlaces, RHead, RGates
<1> QED
  BY <1>10, <1>11

-----------------------------------------------------------------------------
(* The gates. *)

LEMMA GateSpan ==
  ASSUME file \in Files, NEW k \in Index(file.circuit.numGates)
  PROVE  LET p == file.at[k]
             q == file.at[k + 1]
         IN  /\ p \in Nat /\ q \in Nat /\ q <= Len(file.text)
             /\ q = p + IF OneInput(file, k) THEN 5 ELSE 6
             /\ Taken => q <= There(file)
<1>1. LET p == file.at[k]
          q == file.at[k + 1]
      IN  /\ p \in Nat /\ q \in Nat /\ q <= Len(file.text)
          /\ q = p + IF OneInput(file, k) THEN 5 ELSE 6
  BY FileGate
<1>2. Taken => file.at[k + 1] <= There(file)
  BY EnoughText
<1> QED
  BY <1>1, <1>2

(* Where the reader is among the gates. *)
LEMMA AmongGates ==
  ASSUME RInv, rpc \in {"gates", "oneInput", "twoInputs"}
  PROVE  LET c == file.circuit IN
         /\ file \in Files /\ file.exists
         /\ C = Circ(c.numGates, c.numWires, c.num_of_clients, c.inpSize,
                     c.inpSizes, c.outSize, C.gates, <<>>)
         /\ C.numGates = c.numGates /\ C.numWires = c.numWires /\ C.outSize = c.outSize
         /\ GatesRead /\ 4 + c.num_of_clients <= There(file)
         /\ c.numGates \in Nat /\ There(file) \in Nat
         /\ ri \in 0..c.numGates /\ ri \in Nat
         /\ rpc \in {"oneInput", "twoInputs"} => ri \in Index(c.numGates)
<1> DEFINE c == file.circuit
<1>1. /\ file \in Files /\ file.exists /\ GatesRead
      /\ 4 + c.num_of_clients <= There(file)
      /\ C = Circ(c.numGates, c.numWires, c.num_of_clients, c.inpSize,
                  c.inpSizes, c.outSize, C.gates, <<>>)
  BY DEF RInv, RTypeOK, RGates
<1>2. c.numGates \in Nat /\ There(file) \in Nat
  BY <1>1, FileHead, TheFile
<1>3. rpc \in {"oneInput", "twoInputs"} => ri \in Index(c.numGates)
  BY DEF RInv, RGates
<1>4. ri \in 0..c.numGates /\ ri \in Nat
  BY <1>2, <1>3 DEF RInv, RGates, Index
<1>5. C.numGates = c.numGates /\ C.numWires = c.numWires /\ C.outSize = c.outSize
  BY <1>1 DEF Circ
<1> QED
  BY <1>1, <1>2, <1>3, <1>4, <1>5

LEMMA ReadGateSizeStep ==
  ASSUME RInv, ReadGateSize
  PROVE  RInv'
<1> DEFINE c == file.circuit
           p == file.at[ri]
           h == c.gates[ri]
<1>1. /\ rpc = "gates" /\ rest' = Left(<<"%d">>) /\ UNCHANGED <<file, ri, C>>
      /\ gateInpSize' = Scan(<<"%d">>, 1, gateInpSize)
      /\ rpc' \in {"undefined", "oneInput", "twoInputs", "exit"}
      /\ rpc' = "oneInput" => gateInpSize' = 1
      /\ rpc' = "twoInputs" => gateInpSize' = 2
      /\ gateInpSize' \in {1, 2} => rpc' \in {"oneInput", "twoInputs"}
  BY UnsetIsNoNumber DEF ReadGateSize
<1>2. /\ file \in Files /\ file.exists /\ GatesRead
      /\ C = Circ(c.numGates, c.numWires, c.num_of_clients, c.inpSize,
                  c.inpSizes, c.outSize, C.gates, <<>>)
      /\ C.numGates = c.numGates /\ c.numGates \in Nat /\ There(file) \in Nat
      /\ 4 + c.num_of_clients <= There(file)
      /\ ri \in 0..c.numGates
  BY <1>1, AmongGates
<1>3. ri \in Index(c.numGates)
  BY <1>2 DEF ReadGateSize, Index
<1>4. p \in Nat /\ At(rest, file, p)
  BY <1>1, <1>2, <1>3, FileGate DEF RInv, RGates
<1>5. file.text[p + 1] = Num(IF OneInput(file, ri) THEN 1 ELSE 2)
  BY <1>2, <1>3, FileGate
<1>6. /\ gateInpSize' = (IF p + 1 <= There(file) THEN file.text[p + 1].v ELSE gateInpSize)
      /\ At(rest', file, p + 1)
  <2>1. file.text[p + 1].num
    BY <1>5, Numbers
  <2> HIDE DEF p
  <2> QED
    BY <1>1, <1>2, <1>4, <2>1, ScanOne
<1>7. p + 1 <= There(file) => gateInpSize' = IF OneInput(file, ri) THEN 1 ELSE 2
  BY <1>5, <1>6, Numbers
<1>8. Taken => p + 1 <= There(file)
  BY <1>2, <1>3, GateSpan
<1>9. Taken => rpc' \notin {"exit", "undefined"}
  BY <1>1, <1>7, <1>8
<1>10. /\ rpc' = "oneInput"  => OneInput(file, ri) \/ p + 1 > There(file)
       /\ rpc' = "twoInputs" => ~OneInput(file, ri) \/ p + 1 > There(file)
  BY <1>1, <1>2, <1>4, <1>7
<1>11. GatesRead' /\ Taken' = Taken
  BY <1>1, <1>2 DEF GatesRead, GateRead, Taken
<1>12. At(rest', file', file'.at[ri'] + 1)
  BY <1>1, <1>6
<1>13. RTypeOK'
  BY <1>1, <1>2, <1>9, <1>11 DEF RTypeOK, RPlaces
<1>14. RHead'
  BY <1>1 DEF RHead
<1>15. RGates'
  BY <1>1, <1>2, <1>3, <1>10, <1>11, <1>12 DEF RGates
<1> QED
  BY <1>13, <1>14, <1>15 DEF RInv

LEMMA OneMoreGate ==
  ASSUME file \in Files, ri \in Index(file.circuit.numGates), GatesRead,
         UNCHANGED file, ri' = ri + 1,
         NEW g, C'.gates = [C.gates EXCEPT ![ri] = g],
         g = [a |-> g.a, b |-> g.b, out |-> g.out, T |-> g.T],
         LET h == file.circuit.gates[ri]
             q == file.at[ri + 1]
         IN  /\ q <= There(file) + 1 => SameWires(g, h)
             /\ q <= There(file) /\ ~OneInput(file, ri) =>
                  g.T = h.T /\ Kind(file, ri) \in {"XOR", "AND"}
             /\ OneInput(file, ri) /\ q <= There(file) + 1 => g.T = 7
             /\ q > There(file) + 1 => g.out = Unset
  PROVE  GatesRead'
<1> DEFINE c == file.circuit
<1>1. c.numGates \in Nat /\ ri \in Nat
  BY FileHead DEF Index
<1>2. C.gates = [k \in Index(c.numGates) |-> C.gates[k]]
  BY DEF GatesRead
<1>3. C'.gates[ri] = g /\ \A k \in Index(c.numGates) : k # ri => C'.gates[k] = C.gates[k]
  BY <1>2
<1>4. C'.gates = [k \in Index(c.numGates) |-> C'.gates[k]]
  BY <1>2
<1>5. ASSUME NEW k \in Index(c.numGates), k < ri'
      PROVE  GateRead(k)'
  <2>1. CASE k = ri
    BY <1>3, <2>1 DEF GateRead, SameWires
  <2>2. CASE k # ri
    <3>1. k < ri
      BY <1>1, <1>5, <2>2 DEF Index
    <3>2. GateRead(k)
      BY <3>1 DEF GatesRead
    <3> QED
      BY <3>2, <1>3, <2>2 DEF GateRead
  <2> QED
    BY <2>1, <2>2
<1> QED
  BY <1>4, <1>5 DEF GatesRead

(* After a gate, the next. *)
LEMMA ToTheNextGate ==
  ASSUME RInv, rpc \in {"oneInput", "twoInputs"},
         UNCHANGED file, ri' = ri + 1, rpc' = "gates",
         NEW g, C' = [C EXCEPT !.gates[ri] = g],
         g = [a |-> g.a, b |-> g.b, out |-> g.out, T |-> g.T],
         At(rest', file, file.at[ri + 1]),
         LET h == file.circuit.gates[ri]
             q == file.at[ri + 1]
         IN  /\ q <= There(file) + 1 => SameWires(g, h)
             /\ q <= There(file) /\ ~OneInput(file, ri) =>
                  g.T = h.T /\ Kind(file, ri) \in {"XOR", "AND"}
             /\ OneInput(file, ri) /\ q <= There(file) + 1 => g.T = 7
             /\ q > There(file) + 1 => g.out = Unset
  PROVE  RInv'
<1> DEFINE c == file.circuit
<1>1. /\ file \in Files /\ file.exists /\ GatesRead
      /\ C = Circ(c.numGates, c.numWires, c.num_of_clients, c.inpSize,
                  c.inpSizes, c.outSize, C.gates, <<>>)
      /\ c.numGates \in Nat /\ ri \in Nat /\ ri \in Index(c.numGates)
      /\ 4 + c.num_of_clients <= There(file)
  BY AmongGates
<1>2. C' = Circ(c.numGates, c.numWires, c.num_of_clients, c.inpSize,
                c.inpSizes, c.outSize, [C.gates EXCEPT ![ri] = g], <<>>)
  <2> DEFINE gs == C.gates
  <2>1. C = Circ(c.numGates, c.numWires, c.num_of_clients, c.inpSize,
                 c.inpSizes, c.outSize, gs, <<>>)
    BY <1>1
  <2>2. C' = [C EXCEPT !.gates = [gs EXCEPT ![ri] = g]]
    OBVIOUS
  <2> HIDE DEF gs
  <2>3. C' = Circ(c.numGates, c.numWires, c.num_of_clients, c.inpSize,
                  c.inpSizes, c.outSize, [gs EXCEPT ![ri] = g], <<>>)
    BY <2>1, <2>2 DEF Circ
  <2> QED
    BY <2>3 DEF gs
<1>3. C'.gates = [C.gates EXCEPT ![ri] = g]
  BY <1>2 DEF Circ
<1>4. GatesRead'
  BY <1>1, <1>3, OneMoreGate
<1>5. C' = Circ(c.numGates, c.numWires, c.num_of_clients, c.inpSize,
                c.inpSizes, c.outSize, C'.gates, <<>>)
  BY <1>2, <1>3
<1>6. ri' \in 0..c.numGates
  BY <1>1 DEF Index
<1>7. At(rest', file', file'.at[ri'])
  OBVIOUS
<1>8. RTypeOK'
  BY <1>1 DEF RTypeOK, RPlaces
<1>9. RHead'
  BY DEF RHead
<1>10. RGates'
  BY <1>1, <1>4, <1>5, <1>6, <1>7 DEF RGates
<1> QED
  BY <1>8, <1>9, <1>10 DEF RInv

LEMMA ReadOneInputStep ==
  ASSUME RInv, ReadOneInput
  PROVE  RInv'
<1> DEFINE c == file.circuit
           h == c.gates[ri]
           f == <<"%d", "%d", "%d", "%s">>
           a == Scan(f, 2, Unset)
           out == Scan(f, 3, Unset)
           g == [a |-> a, b |-> a, T |-> 7, out |-> out]
           p == file.at[ri] + 1
           q == file.at[ri + 1]
<1>1. /\ rpc = "oneInput" /\ rest' = Left(f) /\ UNCHANGED file /\ ri' = ri + 1
      /\ rpc' = "gates" /\ C' = [C EXCEPT !.gates[ri] = g]
  BY DEF ReadOneInput
<1>2. file \in Files /\ ri \in Index(c.numGates) /\ There(file) \in Nat
  BY <1>1, AmongGates
<1>3. At(rest, file, p) /\ (OneInput(file, ri) \/ p > There(file))
  BY <1>1 DEF RInv, RGates
<1>4. p \in Nat /\ q \in Nat /\ q >= p + 4 /\ (OneInput(file, ri) => q = p + 4)
  BY <1>2, GateSpan
<1>5. PICK n \in Nat : n = 4 /\ Len(f) = n
  OBVIOUS
<1>6. CASE p > There(file)
  <2>1. (\A j \in 1..n : \A old : Scan(f, j, old) = old) /\ At(rest', file, q)
    <3>0. /\ file \in Files /\ p \in Nat /\ At(rest, file, p) /\ p >= There(file)
          /\ Len(f) = n /\ rest' = Left(f) /\ q \in Nat /\ q >= There(file)
      BY <1>1, <1>2, <1>3, <1>4, <1>5, <1>6
    <3> HIDE DEF f, p, q
    <3>1. \A j \in 1..n : \A old : Scan(f, j, old) = old
      BY <3>0, ScanNothing
    <3>2. At(rest', file, q)
      BY <3>0, ScanNothing
    <3> QED
      BY <3>1, <3>2
  <2>2. out = Unset
    BY <1>5, <2>1
  <2>3. q > There(file) + 1
    BY <1>2, <1>4, <1>6
  <2>4. g = [a |-> g.a, b |-> g.b, out |-> g.out, T |-> g.T] /\ g.out = out
    OBVIOUS
  <2> HIDE DEF g, out, a, p
  <2> QED
    BY <1>1, <1>2, <1>4, <2>1, <2>2, <2>3, <2>4, ToTheNextGate
<1>7. CASE OneInput(file, ri)
  <2>1. /\ q = p + 4 /\ h.b = h.a
        /\ file.text[p + 1] = Num(1) /\ file.text[p + 2] = Num(h.a)
        /\ file.text[p + 3] = Num(h.out)
    <3> DEFINE r == file.at[ri]
    <3>1. r \in Nat /\ p + 1 = r + 2 /\ p + 2 = r + 3 /\ p + 3 = r + 4
      BY <1>2, GateSpan
    <3>2. /\ h.b = h.a /\ file.text[r + 2] = Num(1) /\ file.text[r + 3] = Num(h.a)
          /\ file.text[r + 4] = Num(h.out)
      BY <1>2, <1>7, FileGate
    <3> HIDE DEF h, q, p, r
    <3> QED
      BY <1>4, <1>7, <3>1, <3>2
  <2>2. Fitting(f, n, p)
    <3>1. file.text[p + 1].num /\ file.text[p + 2].num /\ file.text[p + 3].num
      BY <2>1, Numbers
    <3> HIDE DEF p
    <3> QED
      BY <1>5, <3>1 DEF Fitting
  <2>3. /\ \A j \in 1..n : \A old :
             Scan(f, j, old) = IF p + j <= There(file) THEN file.text[p + j].v ELSE old
        /\ At(rest', file, p + n)
    <3>0. /\ file \in Files /\ p \in Nat /\ At(rest, file, p)
          /\ Len(f) = n /\ rest' = Left(f)
      BY <1>1, <1>2, <1>3, <1>4, <1>5
    <3> HIDE DEF f, p
    <3>1. \A j \in 1..n : \A old :
             Scan(f, j, old) = IF p + j <= There(file) THEN file.text[p + j].v ELSE old
      BY <3>0, <2>2, ScanAt
    <3>2. At(rest', file, p + n)
      BY <3>0, <2>2, ScanAt
    <3> QED
      BY <3>1, <3>2
  <2>4. /\ a = (IF p + 2 <= There(file) THEN h.a ELSE Unset)
        /\ out = (IF p + 3 <= There(file) THEN h.out ELSE Unset)
    BY <1>5, <2>1, <2>3, Numbers
  <2>5. /\ q <= There(file) + 1 => a = h.a /\ out = h.out
        /\ q > There(file) + 1 => out = Unset
    <3> HIDE DEF a, out, p, q, h
    <3> QED
      BY <1>2, <1>4, <2>1, <2>4
  <2>6. /\ g = [a |-> g.a, b |-> g.b, out |-> g.out, T |-> g.T]
        /\ g.out = out /\ g.a = a /\ g.b = a /\ g.T = 7
    OBVIOUS
  <2>7. /\ q <= There(file) + 1 => SameWires(g, h)
        /\ g.T = 7
        /\ q > There(file) + 1 => g.out = Unset
    <3> HIDE DEF g, a, out, p, q, h
    <3> QED
      BY <1>2, <1>4, <1>7, <2>1, <2>5, <2>6 DEF SameWires
  <2>8. At(rest', file, q)
    BY <1>5, <2>1, <2>3
  <2> HIDE DEF g, out, a, p
  <2> QED
    BY <1>1, <1>2, <1>4, <1>7, <2>6, <2>7, <2>8, ToTheNextGate
<1> QED
  BY <1>3, <1>6, <1>7

LEMMA ReadTwoInputsStep ==
  ASSUME RInv, ReadTwoInputs
  PROVE  RInv'
<1> DEFINE c == file.circuit
           h == c.gates[ri]
           f == <<"%d", "%d", "%d", "%d", "%s">>
           a == Scan(f, 2, Unset)
           b == Scan(f, 3, Unset)
           out == Scan(f, 4, Unset)
           T == CASE gtype' = "XOR" -> 6
                  [] gtype' = "AND" -> 8
                  [] OTHER -> Unset
           g == [a |-> a, b |-> b, out |-> out, T |-> T]
           p == file.at[ri] + 1
           q == file.at[ri + 1]
<1>1. /\ rpc = "twoInputs" /\ rest' = Left(f) /\ UNCHANGED file /\ ri' = ri + 1
      /\ rpc' = (IF gtype' \in {"XOR", "AND"} THEN "gates" ELSE "exit")
      /\ C' = [C EXCEPT !.gates[ri] = g]
      /\ gtype' \in Type(f)
  BY DEF ReadTwoInputs
<1>2. file \in Files /\ file.exists /\ ri \in Index(c.numGates) /\ There(file) \in Nat
  BY <1>1, AmongGates
<1>3. At(rest, file, p) /\ (~OneInput(file, ri) \/ p > There(file))
  BY <1>1 DEF RInv, RGates
<1>4. p \in Nat /\ q \in Nat /\ q >= p + 4 /\ (~OneInput(file, ri) => q = p + 5) /\ (Taken => q <= There(file))
  BY <1>2, GateSpan
<1>5. PICK n \in Nat : n = 5 /\ Len(f) = n
  OBVIOUS
<1>6. g = [a |-> g.a, b |-> g.b, out |-> g.out, T |-> g.T]
      /\ g.a = a /\ g.b = b /\ g.out = out /\ g.T = T
  OBVIOUS
<1>7. CASE p > There(file)
  <2>1. (\A j \in 1..n : \A old : Scan(f, j, old) = old) /\ At(rest', file, q)
    <3>0. /\ file \in Files /\ p \in Nat /\ At(rest, file, p) /\ p >= There(file)
          /\ Len(f) = n /\ rest' = Left(f) /\ q \in Nat /\ q >= There(file)
      BY <1>1, <1>2, <1>3, <1>4, <1>5, <1>7
    <3> HIDE DEF f, p, q
    <3>1. \A j \in 1..n : \A old : Scan(f, j, old) = old
      BY <3>0, ScanNothing
    <3>2. At(rest', file, q)
      BY <3>0, ScanNothing
    <3> QED
      BY <3>1, <3>2
  <2>2. out = Unset
    BY <1>5, <2>1
  <2>3. q > There(file) + 1 /\ ~Taken
    BY <1>2, <1>4, <1>7
  <2> HIDE DEF g, out, a, b, T, p, f
  <2>4. CASE rpc' = "gates"
    BY <1>1, <1>2, <1>4, <1>6, <2>1, <2>2, <2>3, <2>4, ToTheNextGate
  <2>5. CASE rpc' = "exit"
    <3>1. ~Taken'
      BY <1>1, <2>3 DEF Taken
    <3> QED
      BY <1>1, <1>2, <2>5, <3>1 DEF RInv, RTypeOK, RPlaces, RHead, RGates
  <2> QED
    BY <1>1, <2>4, <2>5
<1>8. CASE p <= There(file)
  <2>0. ~OneInput(file, ri) /\ q = p + 5
    <3>1. ~(p > There(file))
      <4> HIDE DEF p
      <4> QED
        BY <1>2, <1>4, <1>8
    <3> QED
      BY <1>3, <1>4, <3>1
  <2>1. /\ file.text[p + 1] = Num(1) /\ file.text[p + 2] = Num(h.a)
        /\ file.text[p + 3] = Num(h.b) /\ file.text[p + 4] = Num(h.out)
        /\ ~file.text[q].num
        /\ (h.T = 6) <=> (Kind(file, ri) = "XOR")
        /\ (h.T = 8) <=> (Kind(file, ri) = "AND")
        /\ Taken => Kind(file, ri) \in {"XOR", "AND"}
    <3> DEFINE r == file.at[ri]
    <3>1. r \in Nat /\ p + 1 = r + 2 /\ p + 2 = r + 3 /\ p + 3 = r + 4 /\ p + 4 = r + 5
      BY <1>2, GateSpan
    <3>2. /\ file.text[r + 2] = Num(1) /\ file.text[r + 3] = Num(h.a)
          /\ file.text[r + 4] = Num(h.b) /\ file.text[r + 5] = Num(h.out)
          /\ ~file.text[q].num
          /\ (h.T = 6) <=> (Kind(file, ri) = "XOR")
          /\ (h.T = 8) <=> (Kind(file, ri) = "AND")
          /\ Taken => Kind(file, ri) \in {"XOR", "AND"}
      BY <1>2, <2>0, FileGate
    <3> HIDE DEF h, q, p, r
    <3> QED
      BY <3>1, <3>2
  <2>2. Fitting(f, n, p)
    <3>1. /\ file.text[p + 1].num /\ file.text[p + 2].num /\ file.text[p + 3].num
          /\ file.text[p + 4].num
      BY <2>1, Numbers
    <3> HIDE DEF p
    <3> QED
      BY <1>5, <3>1 DEF Fitting
  <2>3. /\ \A j \in 1..n : \A old :
             Scan(f, j, old) = IF p + j <= There(file) THEN file.text[p + j].v ELSE old
        /\ At(rest', file, p + n)
        /\ Matched(f) = (IF p + n <= There(file) THEN n ELSE Len(rest))
    <3>0. /\ file \in Files /\ p \in Nat /\ At(rest, file, p)
          /\ Len(f) = n /\ rest' = Left(f)
      BY <1>1, <1>2, <1>3, <1>4, <1>5
    <3> HIDE DEF f, p
    <3>1. \A j \in 1..n : \A old :
             Scan(f, j, old) = IF p + j <= There(file) THEN file.text[p + j].v ELSE old
      BY <3>0, <2>2, ScanAt
    <3>2. At(rest', file, p + n)
      BY <3>0, <2>2, ScanAt
    <3>3. Matched(f) = (IF p + n <= There(file) THEN n ELSE Len(rest))
      BY <3>0, <2>2, ScanAt
    <3> QED
      BY <3>1, <3>2, <3>3
  <2>4. /\ a = (IF p + 2 <= There(file) THEN h.a ELSE Unset)
        /\ b = (IF p + 3 <= There(file) THEN h.b ELSE Unset)
        /\ out = (IF p + 4 <= There(file) THEN h.out ELSE Unset)
    BY <1>5, <2>1, <2>3, Numbers
  <2>5. /\ q <= There(file) + 1 => a = h.a /\ b = h.b /\ out = h.out
        /\ q > There(file) + 1 => out = Unset
    <3> HIDE DEF a, b, out, p, q, h
    <3> QED
      BY <1>2, <1>4, <2>0, <2>4
  <2>6. q <= There(file) => gtype' = Kind(file, ri)
    <3>1. ASSUME q <= There(file)
          PROVE  Matched(f) = 5 /\ rest[5] = file.text[q]
      <4>1. Matched(f) = n
        BY <1>5, <2>0, <2>3, <3>1
      <4>2. 5 \in 1..Len(rest) /\ p + 5 = q
        <5> HIDE DEF p, q
        <5> QED
          BY <1>2, <1>3, <1>4, <2>0, <3>1 DEF At
      <4>3. rest[5] = file.text[p + 5]
        <5> HIDE DEF p, q
        <5> QED
          BY <4>2, <1>3 DEF At
      <4> QED
        BY <1>5, <4>1, <4>2, <4>3
    <3>2. ASSUME q <= There(file)
          PROVE  Type(f) = {file.text[q].v}
      <4>1. Matched(f) = 5 /\ rest[5] = file.text[q] /\ ~file.text[q].num /\ Len(f) = 5
        BY <1>5, <2>1, <3>1, <3>2
      <4> HIDE DEF f, q
      <4> QED
        BY <4>1 DEF Type
    <3> QED
      BY <1>1, <3>2 DEF Kind
  <2>7. At(rest', file, q)
    BY <1>5, <2>0, <2>3
  <2>8. CASE rpc' = "gates"
    <3>1. gtype' \in {"XOR", "AND"}
      BY <1>1, <2>8
    <3>2. q <= There(file) => T = h.T /\ Kind(file, ri) \in {"XOR", "AND"}
      <4> HIDE DEF h, q
      <4> QED
        BY <2>0, <2>1, <2>6, <3>1
    <3>3. /\ q <= There(file) + 1 => SameWires(g, h)
          /\ q <= There(file) => g.T = h.T /\ Kind(file, ri) \in {"XOR", "AND"}
          /\ q > There(file) + 1 => g.out = Unset
      <4> HIDE DEF g, a, b, out, T, p, q, h
      <4> QED
        BY <1>2, <1>4, <1>6, <2>0, <2>5, <3>2 DEF SameWires
    <3> HIDE DEF g, out, a, b, T, p, f
    <3> QED
      BY <1>1, <1>2, <1>4, <1>6, <2>0, <2>7, <2>8, <3>3, ToTheNextGate
  <2>9. CASE rpc' = "exit"
    <3>1. gtype' \notin {"XOR", "AND"}
      BY <1>1, <2>9
    <3>2. ~Taken
      BY <1>4, <2>1, <2>6, <3>1
    <3>3. ~Taken'
      BY <1>1, <3>2 DEF Taken
    <3> QED
      BY <1>1, <1>2, <2>9, <3>3 DEF RInv, RTypeOK, RPlaces, RHead, RGates
  <2> QED
    BY <1>1, <2>8, <2>9
<1> QED
  BY <1>2, <1>4, <1>7, <1>8

LEMMA LabelOutputsStep ==
  ASSUME RInv, LabelOutputs
  PROVE  RInv'
<1> DEFINE c == file.circuit
           gs == C.gates
<1>1. /\ rpc = "gates" /\ rpc' = "done" /\ UNCHANGED <<file, rest, ri>>
      /\ C' = [C EXCEPT !.outWLabels =
                 [n \in Index(C.outSize) |-> C.numWires - C.outSize + n]]
      /\ ri = C.numGates
  BY DEF LabelOutputs
<1>2. /\ file \in Files /\ file.exists /\ GatesRead
      /\ 4 + c.num_of_clients <= There(file)
      /\ C = Circ(c.numGates, c.numWires, c.num_of_clients, c.inpSize,
                  c.inpSizes, c.outSize, gs, <<>>)
      /\ C.numGates = c.numGates /\ C.numWires = c.numWires /\ C.outSize = c.outSize
  BY <1>1, AmongGates
<1>3. C' = [C EXCEPT !.outWLabels = c.outWLabels]
  BY <1>1, <1>2, FileHead
<1>4. C' = Circ(c.numGates, c.numWires, c.num_of_clients, c.inpSize,
                c.inpSizes, c.outSize, gs, c.outWLabels)
  <2> HIDE DEF gs
  <2> QED
    BY <1>2, <1>3 DEF Circ
<1>5. C'.gates = gs
  BY <1>4 DEF Circ
<1>6. GatesRead'
  BY <1>1, <1>2, <1>5 DEF GatesRead, GateRead
<1>7. RTypeOK'
  BY <1>1, <1>2 DEF RTypeOK, RPlaces
<1>8. RHead'
  BY <1>1 DEF RHead
<1>9. RGates'
  BY <1>1, <1>2, <1>4, <1>5, <1>6 DEF RGates
<1> QED
  BY <1>7, <1>8, <1>9 DEF RInv

LEMMA ReaderStep ==
  ASSUME RInv, [Next]_vars
  PROVE  RInv'
<1>1. CASE UNCHANGED readerVars
  BY <1>1 DEF readerVars, RInv, RTypeOK, RHead, RGates, GatesRead, GateRead, Taken
<1>2. CASE readBRISCircuit
  BY <1>2, OpenStep, ReadMetaStep, ReadNumInputsStep, ReadInpSizeStep, ReadOutSizeStep,
     ReadGateSizeStep, ReadOneInputStep, ReadTwoInputsStep, LabelOutputsStep
     DEF readBRISCircuit
<1>3. Next => readBRISCircuit \/ UNCHANGED readerVars
  BY DEF Next, Returned, vars, readerVars
<1> QED
  BY <1>1, <1>2, <1>3 DEF vars

(* The reader is never elsewhere: Spec is the reader's program with what   *)
(* becomes of its circuit.                                                 *)
LEMMA ReaderInvariant == Spec => []RInv
<1>1. Init => RInv
  BY ReaderStarts
<1>2. RInv /\ [Next]_vars => RInv'
  BY ReaderStep
<1> QED
  BY <1>1, <1>2, PTL DEF Spec

-----------------------------------------------------------------------------
(* A gate of a whole file is read as it is described exactly if it is known. *)
LEMMA GateIsKnown ==
  ASSUME file \in Files, NEW k \in Index(file.circuit.numGates),
         GateRead(k), file.at[k + 1] <= There(file)
  PROVE  (C.gates[k] = file.circuit.gates[k]) <=> Known(file, k)
<1> DEFINE g == C.gates[k]
           h == file.circuit.gates[k]
<1>0. file.at[k + 1] \in Nat /\ There(file) \in Nat
  BY FileGate, TheFile
<1>1. g = [a |-> g.a, b |-> g.b, out |-> g.out, T |-> g.T] /\ SameWires(g, h)
  BY <1>0 DEF GateRead
<1>2. h = [a |-> h.a, b |-> h.b, out |-> h.out, T |-> h.T]
  BY FileGate
<1>3. g = h <=> g.T = h.T
  BY <1>1, <1>2 DEF SameWires
<1>4. CASE OneInput(file, k)
  <2>1. (h.T = 7) <=> (Kind(file, k) = "INV")
    BY <1>4, FileGate
  <2>2. g.T = 7
    BY <1>0, <1>4 DEF GateRead
  <2> QED
    BY <1>3, <1>4, <2>1, <2>2 DEF Known
<1>5. CASE ~OneInput(file, k)
  <2>1. g.T = h.T /\ Kind(file, k) \in {"XOR", "AND"}
    BY <1>5 DEF GateRead
  <2> QED
    BY <1>3, <1>5, <2>1 DEF Known
<1> QED
  BY <1>4, <1>5

(* ChecksTwoInputGates: readBRISCircuit exits on another gate of two       *)
(* inputs and on nothing else in a file that is whole, and takes every     *)
(* gate of one input for INV.                                              *)
THEOREM OnlyTwoInputGatesAreChecked == Spec => []ChecksTwoInputGates
<1>1. RInv => ChecksTwoInputGates
  <2> SUFFICES ASSUME RInv
               PROVE  ChecksTwoInputGates
    OBVIOUS
  <2> DEFINE c == file.circuit
  <2>1. file \in Files
    BY DEF RInv, RTypeOK
  <2>2. c.numGates \in Nat
    BY <2>1, FileHead
  <2>3. ASSUME rpc = "done", NEW k \in Index(c.numGates)
        PROVE  GateRead(k)
    <3>1. ri = c.numGates /\ GatesRead
      BY <2>3 DEF RInv, RGates
    <3>2. k < ri
      BY <2>2, <3>1 DEF Index
    <3> QED
      BY <3>1, <3>2 DEF GatesRead
  <2>4. ASSUME rpc = "done"
        PROVE  file.exists /\ Passes(file)
    <3>1. file.exists
      BY <2>4 DEF RInv, RTypeOK
    <3>2. ASSUME NEW k \in Whole(file)
          PROVE  OneInput(file, k) \/ Kind(file, k) \in {"XOR", "AND"}
      <4>1. k \in Index(c.numGates) /\ file.at[k + 1] <= There(file)
        BY DEF Whole
      <4> QED
        BY <2>3, <2>4, <4>1 DEF GateRead
    <3> QED
      BY <3>1, <3>2 DEF Passes
  <2>5. ASSUME rpc \in {"exit", "undefined"}, file.missing = 0
        PROVE  ~file.exists \/ ~Passes(file)
    BY <2>5 DEF RInv, RTypeOK, Taken
  <2>6. ASSUME rpc = "done", file.missing = 0, NEW k \in Index(c.numGates)
        PROVE  (C.gates[k] = c.gates[k]) <=> Known(file, k)
    <3>1. Len(file.text) \in Nat /\ file.at[k + 1] <= Len(file.text)
      <4>1. Len(file.text) \in Nat
        BY <2>1, TheFile DEF Describes
      <4>2. file.at[k + 1] <= Len(file.text)
        BY <2>1, FileGate
      <4> QED
        BY <4>1, <4>2
    <3>2. file.at[k + 1] <= There(file)
      BY <2>6, <3>1 DEF There
    <3> QED
      BY <2>1, <2>3, <2>6, <3>2, GateIsKnown
  <2> QED
    BY <2>4, <2>5, <2>6 DEF ChecksTwoInputGates
<1> QED
  BY <1>1, ReaderInvariant, PTL

(* CutFileShows: a file that was cut short is read as a circuit all of     *)
(* whose gates are the file's up to where the text ends, and have no       *)
(* output wire from there on (the results of fscanf that nobody looks at). *)
THEOREM CutFilesShow == Spec => []CutFileShows
<1>1. RInv => CutFileShows
  <2> SUFFICES ASSUME RInv, rpc = "done", file.missing > 0
               PROVE  CutFileShows
    BY DEF CutFileShows
  <2> DEFINE c == file.circuit
             gs == c.gates
  <2>1. /\ file \in Files /\ ri = c.numGates /\ GatesRead /\ Describes(file)
        /\ 4 + c.num_of_clients <= There(file)
    BY TheFile DEF RInv, RTypeOK, RGates
  <2>2. c.numGates \in Nat /\ There(file) \in Nat /\ Len(file.text) \in Nat
        /\ file.missing \in Nat /\ There(file) = Len(file.text) - file.missing
        /\ DOMAIN gs = Index(c.numGates)
    <3>1. IsCircuit(c) /\ Len(file.text) \in Nat /\ file.missing \in 0..Len(file.text)
      BY <2>1 DEF Describes
    <3> QED
      BY <2>1, <3>1, FileHead, TheFile DEF IsCircuit, There
  <2>3. ASSUME NEW n \in Index(c.numGates)
        PROVE  GateRead(n) /\ file.at[n + 1] \in Nat
    <3>1. n < ri
      BY <2>1, <2>2 DEF Index
    <3>2. GateRead(n)
      BY <2>1, <3>1 DEF GatesRead
    <3> QED
      BY <2>1, <3>2, FileGate
  <2>4. ASSUME NEW n \in Index(c.numGates)
        PROVE  /\ Read(C.gates[n]) => /\ file.at[n + 1] <= There(file) + 1
                                      /\ SameWires(C.gates[n], gs[n])
               /\ Read(C.gates[n]) /\ C.gates[n].T # gs[n].T =>
                    IF OneInput(file, n) THEN ~Known(file, n)
                    ELSE file.at[n + 1] = There(file) + 1
               /\ file.at[n + 1] > There(file) + 1 => ~Read(C.gates[n])
    <3>1. file.at[n + 1] > There(file) + 1 => ~Read(C.gates[n])
      BY <2>3 DEF GateRead, Read
    <3>2. ASSUME Read(C.gates[n])
          PROVE  /\ file.at[n + 1] <= There(file) + 1
                 /\ SameWires(C.gates[n], gs[n])
      <4>1. file.at[n + 1] <= There(file) + 1
        BY <2>2, <2>3, <3>1, <3>2
      <4> QED
        BY <2>3, <4>1 DEF GateRead
    <3>3. ASSUME Read(C.gates[n]), C.gates[n].T # gs[n].T, OneInput(file, n)
          PROVE  ~Known(file, n)
      <4>1. C.gates[n].T = 7
        BY <2>3, <3>2, <3>3 DEF GateRead
      <4>2. (gs[n].T = 7) <=> (Kind(file, n) = "INV")
        BY <2>1, <3>3, FileGate
      <4> QED
        BY <3>3, <4>1, <4>2 DEF Known
    <3>4. ASSUME Read(C.gates[n]), C.gates[n].T # gs[n].T, ~OneInput(file, n)
          PROVE  file.at[n + 1] = There(file) + 1
      <4>1. ~(file.at[n + 1] <= There(file))
        BY <2>3, <3>4 DEF GateRead
      <4> QED
        BY <2>2, <2>3, <3>2, <3>4, <4>1
    <3> QED
      BY <3>1, <3>2, <3>3, <3>4
  <2>5. ASSUME NEW n \in Index(c.numGates), NEW k \in Index(c.numGates), k > n
        PROVE  file.at[n + 1] < file.at[k + 1]
    <3>1. n + 1 \in 0..c.numGates /\ k + 1 \in 0..c.numGates /\ n + 1 < k + 1
      BY <2>2, <2>5 DEF Index
    <3> QED
      BY <2>1, <3>1 DEF Describes
  <2>6. \A n \in DOMAIN gs : Read(C.gates[n]) => SameWires(C.gates[n], gs[n])
    BY <2>2, <2>4
  <2>7. ASSUME file.missing > 1
        PROVE  \E n \in DOMAIN gs : ~Read(C.gates[n])
    <3>1. file.at[c.numGates] = Len(file.text) /\ file.at[0] = 4 + c.num_of_clients
      BY <2>1 DEF Describes, HeadDescribes
    <3>2. c.numGates # 0
      <4>1. SUFFICES ASSUME c.numGates = 0
                     PROVE  FALSE
        OBVIOUS
      <4>2. Len(file.text) = 4 + c.num_of_clients
        BY <3>1, <4>1
      <4> QED
        BY <2>1, <2>2, <2>7, <4>2
    <3>3. c.numGates - 1 \in Index(c.numGates) /\ (c.numGates - 1) + 1 = c.numGates
      BY <2>2, <3>2 DEF Index
    <3>4. ~Read(C.gates[c.numGates - 1])
      <4> DEFINE n == c.numGates - 1
      <4>1. file.at[n + 1] > There(file) + 1
        BY <2>2, <2>7, <3>1, <3>3
      <4> QED
        BY <2>4, <3>3, <4>1
    <3> QED
      BY <2>2, <3>3, <3>4
  <2>8. ASSUME NEW n \in DOMAIN gs, Read(C.gates[n]), C.gates[n].T # gs[n].T
        PROVE  IF OneInput(file, n) THEN ~Known(file, n)
               ELSE \A k \in DOMAIN gs : k > n => ~Read(C.gates[k])
    <3>1. IF OneInput(file, n) THEN ~Known(file, n)
          ELSE file.at[n + 1] = There(file) + 1
      BY <2>2, <2>4, <2>8
    <3>2. ASSUME ~OneInput(file, n), NEW k \in DOMAIN gs, k > n
          PROVE  ~Read(C.gates[k])
      BY <2>2, <2>3, <2>4, <2>5, <3>1, <3>2
    <3> QED
      BY <3>1, <3>2
  <2> QED
    BY <2>6, <2>7, <2>8 DEF CutFileShows
<1> QED
  BY <1>1, ReaderInvariant, PTL

-----------------------------------------------------------------------------
(* What the reader returns. *)

Formed(c) ==
  /\ c = Circ(c.numGates, c.numWires, c.num_of_clients, c.inpSize, c.inpSizes,
              c.outSize, c.gates, c.outWLabels)
  /\ c.numGates \in Nat /\ c.num_of_clients \in Nat /\ c.inpSize \in Nat
  /\ c.outSize \in Nat
  /\ c.gates = [k \in Index(c.numGates) |-> c.gates[k]]
  /\ \A k \in Index(c.numGates) :
       LET g == c.gates[k] IN g = [a |-> g.a, b |-> g.b, out |-> g.out, T |-> g.T]
  /\ c.inpSizes = [k \in Index(c.num_of_clients) |-> c.inpSizes[k]]
  /\ c.outWLabels = [k \in Index(c.outSize) |-> c.outWLabels[k]]

LEMMA CircuitRead ==
  ASSUME RInv, rpc = "done"
  PROVE  Formed(C) /\ (Intact => C = file.circuit)
<1> DEFINE c == file.circuit
           gs == C.gates
<1>1. /\ file \in Files /\ ri = c.numGates /\ GatesRead
      /\ C = Circ(c.numGates, c.numWires, c.num_of_clients, c.inpSize,
                  c.inpSizes, c.outSize, gs, c.outWLabels)
  BY DEF RInv, RTypeOK, RGates
<1>2. /\ c.numGates \in Nat /\ c.num_of_clients \in Nat /\ c.inpSize \in Nat
      /\ c.outSize \in Nat
      /\ c.inpSizes \in [Index(c.num_of_clients) -> Nat]
      /\ c.outWLabels = [n \in Index(c.outSize) |-> c.numWires - c.outSize + n]
      /\ c = Circ(c.numGates, c.numWires, c.num_of_clients, c.inpSize, c.inpSizes,
                  c.outSize, c.gates, c.outWLabels)
  BY <1>1, FileHead
<1>3. /\ C.numGates = c.numGates /\ C.numWires = c.numWires
      /\ C.num_of_clients = c.num_of_clients /\ C.inpSize = c.inpSize
      /\ C.inpSizes = c.inpSizes /\ C.outSize = c.outSize
      /\ C.outWLabels = c.outWLabels
  <2> HIDE DEF gs
  <2> QED
    BY <1>1 DEF Circ
<1>4. gs = [k \in Index(c.numGates) |-> gs[k]]
  BY <1>1 DEF GatesRead
<1>5. \A k \in Index(c.numGates) : GateRead(k)
  <2>1. \A k \in Index(c.numGates) : k < ri
    BY <1>1, <1>2 DEF Index
  <2> QED
    BY <1>1, <2>1 DEF GatesRead
<1>6. \A k \in Index(c.numGates) :
        LET g == gs[k] IN g = [a |-> g.a, b |-> g.b, out |-> g.out, T |-> g.T]
  BY <1>5 DEF GateRead
<1>7. c.inpSizes = [k \in Index(c.num_of_clients) |-> c.inpSizes[k]]
      /\ c.outWLabels = [k \in Index(c.outSize) |-> c.outWLabels[k]]
  BY <1>2
<1>8. Formed(C)
  BY <1>1, <1>2, <1>3, <1>4, <1>6, <1>7 DEF Formed
<1>9. ASSUME Intact
      PROVE  C = c
  <2>0. Taken
    BY <1>9, IntactIsTaken
  <2>1. ASSUME NEW k \in Index(c.numGates)
        PROVE  gs[k] = c.gates[k]
    <3>1. file.at[k + 1] <= There(file)
      BY <1>1, <2>0, GateSpan
    <3>2. Known(file, k)
      BY <1>9 DEF Intact
    <3> QED
      BY <1>1, <1>5, <3>1, <3>2, GateIsKnown
  <2>2. c.gates = [k \in Index(c.numGates) |-> c.gates[k]]
    <3>1. IsCircuit(c)
      BY <1>1, TheFile DEF Describes
    <3> QED
      BY <3>1 DEF IsCircuit
  <2>3. gs = c.gates
    <3> DEFINE fs == c.gates
    <3>1. gs = [k \in Index(c.numGates) |-> fs[k]]
      <4> HIDE DEF gs
      <4> QED
        BY <1>4, <2>1
    <3> QED
      BY <2>2, <3>1
  <2> QED
    BY <1>1, <1>2, <2>3
<1> QED
  BY <1>8, <1>9

-----------------------------------------------------------------------------
(* The words of the messages. *)

LEMMA Sizes ==
  ASSUME NEW c, Formed(c)
  PROVE  /\ ProgramSize(c) \in Nat /\ ProgramSize(c) >= 6
         /\ GProgramSize(c) \in Nat /\ GProgramSize(c) >= 5
         /\ LIMIT \in Nat /\ LIMIT >= 6
  BY LimitAssumption DEF Formed, ProgramSize, GProgramSize, GATE, GGATE, KEY

LEMMA HeaderWords ==
  ASSUME NEW c, Formed(c)
  PROVE  LET w == ProgramWords(c) IN
         /\ w[1] = c.numGates /\ w[2] = c.numWires /\ w[3] = c.num_of_clients
         /\ w[4] = c.inpSize /\ w[5] = c.outSize
<1>1. \A a \in 1..5 : a \in 1..(ProgramSize(c) - 1) /\ a < 6
  BY Sizes
<1>2. \A a \in 1..5 : ProgramWords(c)[a] =
        <<c.numGates, c.numWires, c.num_of_clients, c.inpSize, c.outSize>>[a]
  BY <1>1 DEF ProgramWords
<1> QED
  BY <1>2

LEMMA GateWords ==
  ASSUME NEW c, Formed(c), NEW k \in Index(c.numGates), NEW j \in 1..GATE
  PROVE  /\ GateAt(k) + j - 1 \in 6..(ProgramSize(c) - 1)
         /\ ProgramWords(c)[GateAt(k) + j - 1] = OfGate(c.gates[k])[j]
<1> DEFINE a == GateAt(k) + j - 1
<1>1. /\ k \in Nat /\ k < c.numGates /\ j \in 1..4
      /\ c.numGates \in Nat /\ c.num_of_clients \in Nat /\ c.outSize \in Nat
  BY DEF Formed, Index, GATE
<1>2. a \in 6..(5 + 4 * c.numGates) /\ a - 6 = 4 * k + (j - 1)
  BY <1>1 DEF GateAt, GATE
<1>3. a \in 6..(ProgramSize(c) - 1) /\ ~(a < 6) /\ a < 6 + GATE * c.numGates
  BY <1>1, <1>2 DEF ProgramSize, GATE
<1>4. (a - 6) \div GATE = k /\ ((a - 6) % GATE) + 1 = j
  BY <1>1, <1>2 DEF GATE
<1> HIDE DEF a
<1>5. ProgramWords(c)[a] = OfGate(c.gates[(a - 6) \div GATE])[((a - 6) % GATE) + 1]
  BY <1>3 DEF ProgramWords
<1> QED
  BY <1>3, <1>4, <1>5 DEF a

LEMMA SizeWords ==
  ASSUME NEW c, Formed(c), NEW k \in Index(c.num_of_clients)
  PROVE  LET a == 6 + GATE * c.numGates + k
         IN  a \in 6..(ProgramSize(c) - 1) /\ ProgramWords(c)[a] = c.inpSizes[k]
<1> DEFINE a == 6 + GATE * c.numGates + k
<1>1. /\ k \in Nat /\ k < c.num_of_clients
      /\ c.numGates \in Nat /\ c.num_of_clients \in Nat /\ c.outSize \in Nat
  BY DEF Formed, Index
<1>2. /\ a \in 6..(ProgramSize(c) - 1) /\ ~(a < 6) /\ ~(a < 6 + GATE * c.numGates)
      /\ a < 6 + GATE * c.numGates + c.num_of_clients
      /\ a - (6 + GATE * c.numGates) = k
  BY <1>1 DEF ProgramSize, GATE
<1> HIDE DEF a
<1>3. ProgramWords(c)[a] = c.inpSizes[a - (6 + GATE * c.numGates)]
  BY <1>2 DEF ProgramWords
<1> QED
  BY <1>2, <1>3 DEF a

LEMMA LabelWords ==
  ASSUME NEW c, Formed(c), NEW k \in Index(c.outSize)
  PROVE  LET a == 6 + GATE * c.numGates + c.num_of_clients + k
         IN  a \in 6..(ProgramSize(c) - 1) /\ ProgramWords(c)[a] = c.outWLabels[k]
<1> DEFINE a == 6 + GATE * c.numGates + c.num_of_clients + k
<1>1. /\ k \in Nat /\ k < c.outSize
      /\ c.numGates \in Nat /\ c.num_of_clients \in Nat /\ c.outSize \in Nat
  BY DEF Formed, Index
<1>2. /\ a \in 6..(ProgramSize(c) - 1) /\ ~(a < 6) /\ ~(a < 6 + GATE * c.numGates)
      /\ ~(a < 6 + GATE * c.numGates + c.num_of_clients)
      /\ a - (6 + GATE * c.numGates + c.num_of_clients) = k
  BY <1>1 DEF ProgramSize, GATE
<1> HIDE DEF a
<1>3. ProgramWords(c)[a] = c.outWLabels[a - (6 + GATE * c.numGates + c.num_of_clients)]
  BY <1>2 DEF ProgramWords
<1> QED
  BY <1>2, <1>3 DEF a

(* A gate comes out of its words as it went in. *)
LEMMA GateComesBack ==
  ASSUME NEW g, g = [a |-> g.a, b |-> g.b, out |-> g.out, T |-> g.T],
         NEW w, \A j \in 1..GATE : w[j] = OfGate(g)[j]
  PROVE  AsGate(w) = g
<1>1. \A j \in 1..4 : w[j] = <<g.a, g.b, g.out, g.T>>[j]
  BY DEF OfGate, GATE
<1>2. w[1] = g.a /\ w[2] = g.b /\ w[3] = g.out /\ w[4] = g.T
  BY <1>1
<1> QED
  BY <1>2 DEF AsGate

-----------------------------------------------------------------------------
(* The words of a garbled circuit. *)

(* A garbled circuit with as many gates, inputs and outputs as c. *)
LikeIn(g, c) ==
  /\ g.numGates = c.numGates /\ g.numWires = c.numWires
  /\ g.inpSize = c.inpSize /\ g.outSize = c.outSize

LEMMA GSizes ==
  ASSUME NEW c, Formed(c), NEW g, LikeIn(g, c)
  PROVE  /\ GProgramSize(g) = GProgramSize(c)
         /\ g.numGates \in Nat /\ g.inpSize \in Nat /\ g.outSize \in Nat
         /\ GProgramSize(g) =
              5 + 19 * g.numGates + g.outSize + 4 * g.inpSize + 4
         /\ GProgramSize(g) \in Nat
<1>1. GProgramSize(g) = GProgramSize(c)
  BY DEF LikeIn, GProgramSize
<1>2. g.numGates \in Nat /\ g.inpSize \in Nat /\ g.outSize \in Nat
  BY DEF LikeIn, Formed
<1>3. GProgramSize(g) = 5 + 19 * g.numGates + g.outSize + 4 * g.inpSize + 4
  BY <1>2 DEF GProgramSize, GGATE, KEY
<1> QED
  BY <1>1, <1>2, <1>3

LEMMA GHeaderWords ==
  ASSUME NEW c, Formed(c), NEW g, LikeIn(g, c)
  PROVE  LET w == GProgramWords(g) IN
         /\ w[1] = g.numGates /\ w[2] = g.numWires
         /\ w[3] = g.inpSize /\ w[4] = g.outSize
<1>1. \A a \in 1..4 : a \in 1..(GProgramSize(g) - 1) /\ a < 5
  BY GSizes
<1>2. \A a \in 1..4 : GProgramWords(g)[a] =
        <<g.numGates, g.numWires, g.inpSize, g.outSize>>[a]
  BY <1>1 DEF GProgramWords
<1> QED
  BY <1>2

LEMMA GGateWords ==
  ASSUME NEW c, Formed(c), NEW g, LikeIn(g, c),
         NEW k \in Index(c.numGates), NEW j \in 1..GGATE
  PROVE  /\ GGateAt(k) + j - 1 \in 5..(GProgramSize(c) - 1)
         /\ GProgramWords(g)[GGateAt(k) + j - 1] = OfGGate(g.ggates[k])[j]
<1> DEFINE a == GGateAt(k) + j - 1
<1>1. /\ k \in Nat /\ k < g.numGates /\ j \in 1..19
      /\ g.numGates \in Nat /\ g.inpSize \in Nat /\ g.outSize \in Nat
      /\ GProgramSize(g) = 5 + 19 * g.numGates + g.outSize + 4 * g.inpSize + 4
      /\ GProgramSize(g) = GProgramSize(c)
  <2>1. /\ g.numGates \in Nat /\ g.inpSize \in Nat /\ g.outSize \in Nat
        /\ GProgramSize(g) = 5 + 19 * g.numGates + g.outSize + 4 * g.inpSize + 4
        /\ GProgramSize(g) = GProgramSize(c)
    BY GSizes
  <2>2. k \in Nat /\ k < g.numGates /\ j \in 1..19
    BY <2>1 DEF Index, GGATE, LikeIn
  <2> QED
    BY <2>1, <2>2
<1>2. a \in 5..(4 + 19 * g.numGates) /\ a - 5 = 19 * k + (j - 1)
  BY <1>1 DEF GGateAt, GGATE
<1>3. a \in 5..(GProgramSize(g) - 1) /\ ~(a < 5) /\ a < 5 + GGATE * g.numGates
  BY <1>1, <1>2 DEF GGATE
<1>4. (a - 5) \div GGATE = k /\ ((a - 5) % GGATE) + 1 = j
  BY <1>1, <1>2 DEF GGATE
<1> HIDE DEF a
<1>5. GProgramWords(g)[a] = OfGGate(g.ggates[(a - 5) \div GGATE])[((a - 5) % GGATE) + 1]
  BY <1>3 DEF GProgramWords
<1> QED
  BY <1>1, <1>3, <1>4, <1>5 DEF a

LEMMA GLabelWords ==
  ASSUME NEW c, Formed(c), NEW g, LikeIn(g, c), NEW k \in Index(c.outSize)
  PROVE  LET a == 5 + GGATE * c.numGates + k
         IN  a \in 5..(GProgramSize(c) - 1) /\ GProgramWords(g)[a] = g.outWLabels[k]
<1> DEFINE a == 5 + GGATE * g.numGates + k
<1>1. /\ k \in Nat /\ k < g.outSize
      /\ g.numGates \in Nat /\ g.inpSize \in Nat /\ g.outSize \in Nat
      /\ GProgramSize(g) = 5 + 19 * g.numGates + g.outSize + 4 * g.inpSize + 4
      /\ GProgramSize(g) = GProgramSize(c) /\ g.numGates = c.numGates
  <2>1. /\ g.numGates \in Nat /\ g.inpSize \in Nat /\ g.outSize \in Nat
        /\ GProgramSize(g) = 5 + 19 * g.numGates + g.outSize + 4 * g.inpSize + 4
        /\ GProgramSize(g) = GProgramSize(c)
    BY GSizes
  <2>2. k \in Nat /\ k < g.outSize /\ g.numGates = c.numGates
    BY <2>1 DEF Index, LikeIn
  <2> QED
    BY <2>1, <2>2
<1>2. /\ a \in 5..(GProgramSize(g) - 1) /\ ~(a < 5) /\ ~(a < 5 + GGATE * g.numGates)
      /\ a < 5 + GGATE * g.numGates + g.outSize
      /\ a - (5 + GGATE * g.numGates) = k
  BY <1>1 DEF GGATE
<1> HIDE DEF a
<1>3. GProgramWords(g)[a] = g.outWLabels[a - (5 + GGATE * g.numGates)]
  BY <1>2 DEF GProgramWords
<1> QED
  BY <1>1, <1>2, <1>3 DEF a

LEMMA KeyWords ==
  ASSUME NEW c, Formed(c), NEW g, LikeIn(g, c), NEW k \in 0..(4 * c.inpSize + 3)
  PROVE  LET a == 5 + GGATE * c.numGates + c.outSize + k
         IN  /\ a \in 5..(GProgramSize(c) - 1)
             /\ GProgramWords(g)[a] = GKeyAt(g, k \div KEY)[(k % KEY) + 1]
<1> DEFINE b == 5 + GGATE * g.numGates + g.outSize
           a == b + k
<1>1. /\ k \in 0..(4 * g.inpSize + 3)
      /\ g.numGates \in Nat /\ g.inpSize \in Nat /\ g.outSize \in Nat
      /\ GProgramSize(g) = 5 + 19 * g.numGates + g.outSize + 4 * g.inpSize + 4
      /\ GProgramSize(g) = GProgramSize(c)
      /\ g.numGates = c.numGates /\ g.outSize = c.outSize
  BY GSizes DEF Formed, LikeIn
<1>2. /\ a \in 5..(GProgramSize(g) - 1) /\ ~(a < 5) /\ ~(a < 5 + GGATE * g.numGates)
      /\ ~(a < b) /\ a - b = k
  BY <1>1 DEF GGATE
<1>3. GProgramWords(g)[a] = GKeyAt(g, (a - b) \div KEY)[((a - b) % KEY) + 1]
  <2> HIDE DEF a
  <2> QED
    BY <1>2 DEF GProgramWords
<1>4. GProgramWords(g)[a] = GKeyAt(g, k \div KEY)[(k % KEY) + 1]
  <2> HIDE DEF a, b
  <2> QED
    BY <1>2, <1>3
<1> QED
  BY <1>1, <1>2, <1>4

(* Key n, word by word. *)
LEMMA KeyWordsOf ==
  ASSUME NEW c, Formed(c), NEW g, LikeIn(g, c),
         NEW n \in 0..c.inpSize, NEW j \in 1..KEY
  PROVE  LET a == 5 + GGATE * c.numGates + c.outSize + n * KEY + j - 1
         IN  /\ a \in 5..(GProgramSize(c) - 1)
             /\ GProgramWords(g)[a] = GKeyAt(g, n)[j]
<1> DEFINE k == 4 * n + (j - 1)
           b == 5 + GGATE * c.numGates + c.outSize
<1>1. n \in Nat /\ j \in 1..4 /\ c.inpSize \in Nat /\ n <= c.inpSize /\ b \in Nat
  BY DEF KEY, GGATE, Formed
<1>2. k \in 0..(4 * c.inpSize + 3)
  BY <1>1
<1>3. k \div KEY = n /\ (k % KEY) + 1 = j
  BY <1>1 DEF KEY
<1>4. b + n * KEY + j - 1 = b + k
  <2> HIDE DEF b
  <2> QED
    BY <1>1 DEF KEY
<1> HIDE DEF k
<1>5. b + k \in 5..(GProgramSize(c) - 1)
      /\ GProgramWords(g)[b + k] = GKeyAt(g, k \div KEY)[(k % KEY) + 1]
  BY <1>2, KeyWords
<1> QED
  BY <1>3, <1>4, <1>5

LEMMA GGateComesBack ==
  ASSUME NEW g, g = [a |-> g.a, b |-> g.b, out |-> g.out, table |-> g.table],
         g.table \in Tables,
         NEW w, \A j \in 1..GGATE : w[j] = OfGGate(g)[j]
  PROVE  AsGGate(w) = g
<1>1. \A j \in 1..19 :
        w[j] = IF j < 4 THEN <<g.a, g.b, g.out>>[j] ELSE g.table[j \div 4][(j % 4) + 1]
  BY DEF OfGGate, GGATE, KEY
<1>2. w[1] = g.a /\ w[2] = g.b /\ w[3] = g.out
  BY <1>1
<1>3. ASSUME NEW r \in 1..4, NEW j \in 1..4
      PROVE  w[4 * r + j - 1] = g.table[r][j]
  <2> DEFINE k == 4 * r + j - 1
  <2>1. k \in 1..19 /\ ~(k < 4) /\ k \div 4 = r /\ (k % 4) + 1 = j
    OBVIOUS
  <2> HIDE DEF k
  <2>2. w[k] = g.table[k \div 4][(k % 4) + 1]
    BY <1>1, <2>1
  <2> QED
    BY <2>1, <2>2 DEF k
<1>4. g.table = [r \in 1..4 |-> [j \in 1..4 |-> g.table[r][j]]]
  BY TablesAssumption DEF KEY
<1>5. [r \in 1..4 |-> [j \in 1..4 |-> w[4 * r + j - 1]]]
        = [r \in 1..4 |-> [j \in 1..4 |-> g.table[r][j]]]
  BY <1>3
<1>6. AsGGate(w) = [a |-> w[1], b |-> w[2], out |-> w[3],
                    table |-> [r \in 1..4 |-> [j \in 1..4 |-> w[4 * r + j - 1]]]]
  BY DEF AsGGate, KEY
<1> DEFINE t == [r \in 1..4 |-> [j \in 1..4 |-> w[4 * r + j - 1]]]
<1>7. t = g.table
  BY <1>4, <1>5
<1> HIDE DEF t
<1> QED
  BY <1>2, <1>6, <1>7 DEF t

-----------------------------------------------------------------------------
(* The steps of a round; the writing of the program first. *)

LEMMA PutWords ==
  ASSUME NEW words, NEW n \in Nat, Len(words) = n, Put(words),
         counter \in Nat \ {0}, NEW w, Holds(buffer, w, counter),
         \A j \in 1..n : words[j] = w[counter + j - 1]
  PROVE  /\ counter' = counter + n /\ counter' \in Nat \ {0}
         /\ damaged' \in BOOLEAN /\ (damaged' <=> (damaged \/ counter' > LIMIT))
         /\ buffer' = [a \in Index(LIMIT) |-> buffer'[a]]
         /\ Holds(buffer', w, counter')
<1>1. /\ buffer' = [a \in Index(LIMIT) |->
                      IF a \in counter..(counter + n - 1)
                      THEN words[a - counter + 1] ELSE buffer[a]]
      /\ counter' = counter + n
      /\ damaged' = (damaged \/ counter' > LIMIT)
  BY DEF Put
<1>2. counter' \in Nat \ {0} /\ LIMIT \in Nat
  BY <1>1, LimitAssumption
<1>3. damaged' \in BOOLEAN /\ (damaged' <=> (damaged \/ counter' > LIMIT))
  BY <1>1
<1>4. buffer' = [a \in Index(LIMIT) |-> buffer'[a]]
  BY <1>1
<1>5. ASSUME NEW a \in 1..(counter' - 1), a < LIMIT
      PROVE  buffer'[a] = w[a]
  <2>1. a \in Index(LIMIT)
    BY <1>2, <1>5 DEF Index
  <2>2. CASE a < counter
    <3>1. a \in 1..(counter - 1)
      BY <1>1, <1>5, <2>2
    <3>2. buffer'[a] = buffer[a]
      BY <1>1, <2>1, <2>2
    <3> QED
      BY <1>5, <3>1, <3>2 DEF Holds
  <2>3. CASE ~(a < counter)
    <3> DEFINE j == a - counter + 1
    <3>1. j \in 1..n /\ a \in counter..(counter + n - 1) /\ counter + j - 1 = a
      BY <1>1, <1>5, <2>3
    <3>2. buffer'[a] = words[j]
      BY <1>1, <2>1, <3>1
    <3> QED
      BY <3>1, <3>2
  <2> QED
    BY <2>2, <2>3
<1> QED
  BY <1>1, <1>2, <1>3, <1>4, <1>5 DEF Holds

(* The size in front changes nothing of it. *)
LEMMA PutFront ==
  ASSUME buffer = [a \in Index(LIMIT) |-> buffer[a]], NEW x,
         buffer' = [buffer EXCEPT ![0] = x], NEW w, NEW n \in Nat, Holds(buffer, w, n)
  PROVE  /\ buffer'[0] = x
         /\ buffer' = [a \in Index(LIMIT) |-> buffer'[a]]
         /\ Holds(buffer', w, n)
<1>1. LIMIT \in Nat /\ 0 \in Index(LIMIT)
  BY LimitAssumption DEF Index
<1>2. buffer'[0] = x /\ buffer' = [a \in Index(LIMIT) |-> buffer'[a]]
  BY <1>1
<1>3. ASSUME NEW a \in 1..(n - 1), a < LIMIT
      PROVE  buffer'[a] = w[a]
  <2>1. a \in Index(LIMIT) /\ a # 0
    BY <1>1, <1>3 DEF Index
  <2>2. buffer'[a] = buffer[a]
    BY <2>1
  <2> QED
    BY <1>3, <2>2 DEF Holds
<1> QED
  BY <1>2, <1>3 DEF Holds

LEMMA AtWork ==
  ASSUME RInv, WInv, Round, UNCHANGED readerVars
  PROVE  /\ rpc = "done" /\ rpc' = "done" /\ C' = C /\ Formed(C)
         /\ C.numGates \in Nat /\ C.num_of_clients \in Nat
         /\ C.inpSize \in Nat /\ C.outSize \in Nat
         /\ ProgramSize(C) \in Nat /\ ProgramSize(C) >= 6
         /\ GProgramSize(C) \in Nat /\ GProgramSize(C) >= 5
         /\ LIMIT \in Nat /\ LIMIT >= 6
         /\ i \in Nat /\ counter \in Nat \ {0} /\ damaged \in BOOLEAN
         /\ buffer = [a \in Index(LIMIT) |-> buffer[a]]
<1>1. rpc = "done" /\ rpc' = "done" /\ C' = C
  BY DEF Round, readerVars
<1>2. Formed(C)
  BY <1>1, CircuitRead
<1>3. /\ C.numGates \in Nat /\ C.num_of_clients \in Nat
      /\ C.inpSize \in Nat /\ C.outSize \in Nat
  BY <1>2 DEF Formed
<1>4. /\ i \in Nat /\ counter \in Nat \ {0} /\ damaged \in BOOLEAN
      /\ buffer = [a \in Index(LIMIT) |-> buffer[a]]
  BY DEF WInv, WKinds
<1> QED
  BY <1>1, <1>2, <1>3, <1>4, Sizes

(* One more piece of the program in the buffer. *)
LEMMA ProgramPut ==
  ASSUME RInv, WInv, Round, UNCHANGED readerVars,
         pc \in PutPlaces \cup {"putHeader"}, pc' \in PutPlaces, i' \in Nat,
         hidden = {}, UNCHANGED hidden,
         damaged <=> counter > LIMIT, Holds(buffer, ProgramWords(C), counter),
         NEW words, NEW n \in Nat, Len(words) = n, Put(words),
         \A j \in 1..n : words[j] = ProgramWords(C)[counter + j - 1],
         Position'
  PROVE  WInv'
<1>1. /\ counter' = counter + n /\ counter' \in Nat \ {0}
      /\ damaged' \in BOOLEAN /\ (damaged' <=> (damaged \/ counter' > LIMIT))
      /\ buffer' = [a \in Index(LIMIT) |-> buffer'[a]]
      /\ Holds(buffer', ProgramWords(C), counter')
  BY AtWork, PutWords
<1>2. rpc' = "done" /\ C' = C /\ counter \in Nat /\ LIMIT \in Nat
  BY AtWork
<1>3. WKinds'
  BY <1>1, <1>2 DEF WKinds, WPlaces, PutPlaces
<1>4. damaged' <=> counter' > LIMIT
  BY <1>1, <1>2
<1>5. Damage'
  BY <1>4 DEF Damage, PutPlaces, GetPlaces, PutGPlaces, GetGPlaces
<1>6. ProgramWords(C)' = ProgramWords(C)
  BY <1>2
<1>7. Contents'
  BY <1>1, <1>2 DEF Contents, PutPlaces, GetPlaces, PutGPlaces, GetGPlaces
<1>8. Enclaves' /\ Owners'
  BY DEF Enclaves, Owners, PutPlaces, GetPlaces, PutGPlaces, GetGPlaces
<1> QED
  BY <1>3, <1>5, <1>7, <1>8 DEF WInv

LEMMA PutHeaderStep ==
  ASSUME RInv, WInv, Round, UNCHANGED readerVars, PutHeader
  PROVE  WInv'
<1> DEFINE words == <<C.numGates, C.numWires, C.num_of_clients, C.inpSize, C.outSize>>
<1>1. /\ pc = "putHeader" /\ pc' = "putGates" /\ i' = 0
      /\ Put(words) /\ UNCHANGED hidden /\ counter' = counter + 5
  BY DEF PutHeader, Goto, Put
<1>2. counter = 1 /\ hidden = {} /\ ~damaged
  BY <1>1 DEF WInv, WKinds, Position
<1>3. C' = C /\ Formed(C) /\ C.numGates \in Nat /\ LIMIT \in Nat /\ LIMIT >= 6
  BY AtWork
<1>4. \A j \in 1..5 : words[j] = ProgramWords(C)[counter + j - 1]
  <2>1. \A j \in 1..5 : counter + j - 1 = j
    BY <1>2
  <2>2. \A j \in 1..5 : words[j] = ProgramWords(C)[j]
    BY <1>3, HeaderWords
  <2> HIDE DEF words
  <2> QED
    BY <2>1, <2>2
<1>5. Holds(buffer, ProgramWords(C), counter) /\ (damaged <=> counter > LIMIT)
  BY <1>2, <1>3 DEF Holds
<1>6. Position'
  BY <1>1, <1>2, <1>3 DEF Position, GateAt, GATE
<1>7. pc \in PutPlaces \cup {"putHeader"} /\ pc' \in PutPlaces /\ i' \in Nat
  BY <1>1 DEF PutPlaces
<1>8. PICK n \in Nat : n = 5 /\ Len(words) = n
  OBVIOUS
<1> HIDE DEF words
<1> QED
  BY <1>1, <1>2, <1>4, <1>5, <1>6, <1>7, <1>8, ProgramPut

LEMMA PutGateStep ==
  ASSUME RInv, WInv, Round, UNCHANGED readerVars, PutGate
  PROVE  WInv'
<1> DEFINE words == OfGate(C.gates[i])
<1>1. PICK n \in Nat : n = 4 /\ Len(words) = n
  BY DEF OfGate
<1>2. /\ pc = "putGates" /\ pc' = "putGates" /\ i < C.numGates /\ i' = i + 1
      /\ Put(words) /\ UNCHANGED hidden /\ counter' = counter + n
  BY <1>1 DEF PutGate, Iterate, Bound, Put
<1>3. /\ counter = GateAt(i) /\ hidden = {} /\ (damaged <=> counter > LIMIT)
      /\ Holds(buffer, ProgramWords(C), counter)
  BY <1>2 DEF WInv, Position, Damage, Contents, PutPlaces
<1>4. C' = C /\ Formed(C) /\ C.numGates \in Nat /\ i \in Nat /\ i \in Index(C.numGates)
  BY <1>2, AtWork DEF Index
<1>5. \A j \in 1..n : words[j] = ProgramWords(C)[counter + j - 1]
  BY <1>1, <1>3, <1>4, GateWords DEF GATE
<1>6. Position'
  BY <1>1, <1>2, <1>3, <1>4 DEF Position, GateAt, GATE
<1>7. pc \in PutPlaces \cup {"putHeader"} /\ pc' \in PutPlaces /\ i' \in Nat
  BY <1>2, <1>4 DEF PutPlaces
<1> HIDE DEF words
<1> QED
  BY <1>1, <1>2, <1>3, <1>5, <1>6, <1>7, ProgramPut

LEMMA PutInpSizeStep ==
  ASSUME RInv, WInv, Round, UNCHANGED readerVars, PutInpSize
  PROVE  WInv'
<1> DEFINE words == <<C.inpSizes[i]>>
<1>1. PICK n \in Nat : n = 1 /\ Len(words) = n
  OBVIOUS
<1>2. /\ pc = "putInpSizes" /\ pc' = "putInpSizes" /\ i < C.num_of_clients /\ i' = i + 1
      /\ Put(words) /\ UNCHANGED hidden /\ counter' = counter + n
  BY <1>1 DEF PutInpSize, Iterate, Bound, Put
<1>3. /\ counter = SizeAt(i) /\ hidden = {} /\ (damaged <=> counter > LIMIT)
      /\ Holds(buffer, ProgramWords(C), counter)
  BY <1>2 DEF WInv, Position, Damage, Contents, PutPlaces
<1>4. C' = C /\ Formed(C) /\ C.numGates \in Nat /\ C.num_of_clients \in Nat
      /\ i \in Nat /\ i \in Index(C.num_of_clients)
  BY <1>2, AtWork DEF Index
<1>5. \A j \in 1..n : words[j] = ProgramWords(C)[counter + j - 1]
  <2>1. ProgramWords(C)[counter] = C.inpSizes[i]
    BY <1>3, <1>4, SizeWords DEF SizeAt, GateAt
  <2>2. \A j \in 1..n : j = 1 /\ counter + j - 1 = counter
    BY <1>1, AtWork
  <2>3. words[1] = ProgramWords(C)[counter]
    BY <2>1
  <2> HIDE DEF words
  <2> QED
    BY <2>2, <2>3
<1>6. Position'
  BY <1>1, <1>2, <1>3, <1>4 DEF Position, SizeAt, GateAt, GATE
<1>7. pc \in PutPlaces \cup {"putHeader"} /\ pc' \in PutPlaces /\ i' \in Nat
  BY <1>2, <1>4 DEF PutPlaces
<1> HIDE DEF words
<1> QED
  BY <1>1, <1>2, <1>3, <1>5, <1>6, <1>7, ProgramPut

LEMMA PutOutWLabelStep ==
  ASSUME RInv, WInv, Round, UNCHANGED readerVars, PutOutWLabel
  PROVE  WInv'
<1> DEFINE words == <<C.outWLabels[i]>>
<1>1. PICK n \in Nat : n = 1 /\ Len(words) = n
  OBVIOUS
<1>2. /\ pc = "putOutWLabels" /\ pc' = "putOutWLabels" /\ i < C.outSize /\ i' = i + 1
      /\ Put(words) /\ UNCHANGED hidden /\ counter' = counter + n
  BY <1>1 DEF PutOutWLabel, Iterate, Bound, Put
<1>3. /\ counter = LabelAt(i) /\ hidden = {} /\ (damaged <=> counter > LIMIT)
      /\ Holds(buffer, ProgramWords(C), counter)
  BY <1>2 DEF WInv, Position, Damage, Contents, PutPlaces
<1>4. C' = C /\ Formed(C) /\ C.numGates \in Nat /\ C.num_of_clients \in Nat
      /\ C.outSize \in Nat /\ i \in Nat /\ i \in Index(C.outSize)
  BY <1>2, AtWork DEF Index
<1>5. \A j \in 1..n : words[j] = ProgramWords(C)[counter + j - 1]
  <2>1. ProgramWords(C)[counter] = C.outWLabels[i]
    BY <1>3, <1>4, LabelWords DEF LabelAt, SizeAt, GateAt
  <2>2. \A j \in 1..n : j = 1 /\ counter + j - 1 = counter
    BY <1>1, AtWork
  <2>3. words[1] = ProgramWords(C)[counter]
    BY <2>1
  <2> HIDE DEF words
  <2> QED
    BY <2>2, <2>3
<1>6. Position'
  BY <1>1, <1>2, <1>3, <1>4 DEF Position, LabelAt, SizeAt, GateAt, GATE
<1>7. pc \in PutPlaces \cup {"putHeader"} /\ pc' \in PutPlaces /\ i' \in Nat
  BY <1>2, <1>4 DEF PutPlaces
<1> HIDE DEF words
<1> QED
  BY <1>1, <1>2, <1>3, <1>5, <1>6, <1>7, ProgramPut

LEMMA PutSizeStep ==
  ASSUME RInv, WInv, Round, UNCHANGED readerVars, PutSize
  PROVE  WInv'
<1> DEFINE n == ProgramSize(C)
<1>1. /\ pc = "putSize" /\ pc' = "getHeader" /\ i' = 0 /\ counter' = 1
      /\ buffer' = [buffer EXCEPT ![0] = counter] /\ hidden' = 1..(counter - 1)
      /\ UNCHANGED damaged
  BY DEF PutSize, Goto, Close
<1>2. /\ counter = n /\ (damaged <=> n > LIMIT) /\ Holds(buffer, ProgramWords(C), n)
  BY <1>1 DEF WInv, Position, Damage, Contents, PutPlaces
<1>3. /\ C' = C /\ rpc' = "done" /\ n \in Nat /\ LIMIT \in Nat /\ LIMIT >= 6
      /\ buffer = [a \in Index(LIMIT) |-> buffer[a]] /\ damaged \in BOOLEAN
  BY AtWork
<1>4. /\ buffer'[0] = n
      /\ buffer' = [a \in Index(LIMIT) |-> buffer'[a]]
      /\ Holds(buffer', ProgramWords(C), n)
  <2> HIDE DEF n
  <2> QED
    BY <1>1, <1>2, <1>3, PutFront
<1>6. WKinds'
  BY <1>1, <1>3, <1>4 DEF WKinds, WPlaces, GetPlaces
<1>7. Position'
  BY <1>1 DEF Position
<1>8. Damage'
  BY <1>1, <1>2, <1>3 DEF Damage, PutPlaces, GetPlaces, PutGPlaces, GetGPlaces
<1>9. Contents'
  BY <1>1, <1>2, <1>3, <1>4 DEF Contents, PutPlaces, GetPlaces, PutGPlaces, GetGPlaces
<1>10. Enclaves' /\ Owners'
  BY <1>1 DEF Enclaves, Owners, PutPlaces, GetPlaces, PutGPlaces, GetGPlaces
<1> QED
  BY <1>6, <1>7, <1>8, <1>9, <1>10 DEF WInv

-----------------------------------------------------------------------------
(* The reading of the program. *)

LEMMA ReadWords ==
  ASSUME NEW w, NEW s \in Nat, Holds(buffer, w, s), hidden = {}, s <= LIMIT,
         NEW a \in Nat \ {0}, NEW n \in Nat
  PROVE  \A k \in 1..n : a + k - 1 < s => WordsAt(a, n)[k] = w[a + k - 1]
<1> SUFFICES ASSUME NEW k \in 1..n, a + k - 1 < s
             PROVE  WordsAt(a, n)[k] = w[a + k - 1]
  OBVIOUS
<1> DEFINE b == a + k - 1
<1>1. b \in 1..(s - 1) /\ b < LIMIT
  BY LimitAssumption
<1>2. Word(b) = w[b]
  BY <1>1 DEF Word, Holds
<1> QED
  BY <1>2 DEF WordsAt

LEMMA ReadWord ==
  ASSUME NEW w, NEW s \in Nat, Holds(buffer, w, s), hidden = {}, s <= LIMIT,
         NEW a \in Nat \ {0}, a < s
  PROVE  Word(a) = w[a]
BY LimitAssumption DEF Word, Holds

(* The enclave's circuit, a piece more of which has been read. *)
LEMMA ProgramGot ==
  ASSUME RInv, WInv, Round, UNCHANGED readerVars,
         pc \in GetPlaces, pc # "getHeader", pc' \in GetPlaces \cup {"garble"},
         pc' # "getHeader", i' \in Nat,
         UNCHANGED <<buffer, hidden, damaged>>, counter' \in Nat \ {0},
         Position', Enclaves'
  PROVE  WInv'
<1>1. /\ rpc' = "done" /\ C' = C /\ buffer = [a \in Index(LIMIT) |-> buffer[a]]
      /\ damaged \in BOOLEAN
  BY AtWork
<1>2. /\ (damaged <=> ProgramSize(C) > LIMIT) /\ hidden = {}
      /\ Holds(buffer, ProgramWords(C), ProgramSize(C)) /\ buffer[0] = ProgramSize(C)
  BY DEF WInv, Damage, Contents
<1>3. WKinds'
  BY <1>1 DEF WKinds, WPlaces, GetPlaces
<1>4. Damage'
  BY <1>1, <1>2 DEF Damage, PutPlaces, GetPlaces, PutGPlaces, GetGPlaces
<1>5. Contents'
  BY <1>1, <1>2 DEF Contents, PutPlaces, GetPlaces, PutGPlaces, GetGPlaces
<1>6. Owners'
  BY DEF Owners, GetPlaces, PutGPlaces, GetGPlaces
<1> QED
  BY <1>3, <1>4, <1>5, <1>6 DEF WInv

LEMMA GetHeaderStep ==
  ASSUME RInv, WInv, Round, UNCHANGED readerVars, GetHeader
  PROVE  WInv'
<1> DEFINE n == ProgramSize(C)
<1>1. /\ pc = "getHeader" /\ pc' = "getGates" /\ i' = 0 /\ counter' = counter + 5
      /\ hidden' = hidden \ Opened /\ UNCHANGED <<buffer, damaged>>
  BY DEF GetHeader, Goto
<1>2. /\ counter = 1 /\ (damaged <=> n > LIMIT) /\ Holds(buffer, ProgramWords(C), n)
      /\ buffer[0] = n /\ hidden = 1..(n - 1)
  BY <1>1 DEF WInv, Position, Damage, Contents, GetPlaces
<1>3. /\ C' = C /\ rpc' = "done" /\ n \in Nat /\ n >= 6 /\ LIMIT \in Nat /\ LIMIT >= 6
      /\ buffer = [a \in Index(LIMIT) |-> buffer[a]] /\ damaged \in BOOLEAN
      /\ Formed(C) /\ C.numGates \in Nat
  BY AtWork
<1>4. hidden' = {}
  BY <1>1, <1>2 DEF Opened
<1>5. /\ buffer[1] = C.numGates /\ buffer[2] = C.numWires /\ buffer[3] = C.num_of_clients
      /\ buffer[4] = C.inpSize /\ buffer[5] = C.outSize
  <2>1. \A a \in 1..5 : a \in 1..(n - 1) /\ a < LIMIT
    BY <1>3
  <2>2. \A a \in 1..5 : buffer[a] = ProgramWords(C)[a]
    BY <1>2, <2>1 DEF Holds
  <2> QED
    BY <1>3, <2>2, HeaderWords
<1>6. EC' = Circ(C.numGates, C.numWires, C.num_of_clients, C.inpSize,
                 Nothing(C.num_of_clients), C.outSize, Nothing(C.numGates),
                 Nothing(C.outSize))
  <2> DEFINE h == [k \in Index(5) |-> buffer[counter + k]]
  <2>1. h[0] = buffer[1] /\ h[1] = buffer[2] /\ h[2] = buffer[3] /\ h[3] = buffer[4]
        /\ h[4] = buffer[5]
    BY <1>2 DEF Index
  <2>2. EC' = [numGates |-> h[0], numWires |-> h[1], num_of_clients |-> h[2],
               inpSize |-> h[3], outSize |-> h[4], gates |-> Nothing(h[0]),
               inpSizes |-> Nothing(h[2]), outWLabels |-> Nothing(h[4])]
    BY DEF GetHeader
  <2> HIDE DEF h
  <2> QED
    BY <1>5, <2>1, <2>2 DEF Circ
<1>7. ECForm'
  <2>1. EC'.gates = Nothing(C.numGates) /\ EC'.inpSizes = Nothing(C.num_of_clients)
        /\ EC'.outWLabels = Nothing(C.outSize)
    BY <1>6 DEF Circ
  <2> QED
    BY <1>3, <1>6, <2>1 DEF ECForm, Nothing
<1>8. Enclaves'
  BY <1>1, <1>7 DEF Enclaves, Agree, Index, PutGPlaces
<1>9. WKinds'
  BY <1>1, <1>2, <1>3 DEF WKinds, WPlaces, GetPlaces
<1>10. Position'
  BY <1>1, <1>2, <1>3 DEF Position, GateAt, GATE
<1>11. Damage'
  BY <1>1, <1>2, <1>3 DEF Damage, PutPlaces, GetPlaces, PutGPlaces, GetGPlaces
<1>12. Contents'
  BY <1>1, <1>2, <1>3, <1>4 DEF Contents, PutPlaces, GetPlaces, PutGPlaces, GetGPlaces
<1>13. Owners'
  BY <1>1 DEF Owners, PutGPlaces, GetGPlaces
<1> QED
  BY <1>8, <1>9, <1>10, <1>11, <1>12, <1>13 DEF WInv

(* What holds while the enclave reads the program. *)
LEMMA Getting ==
  ASSUME RInv, WInv, Round, UNCHANGED readerVars,
         pc \in {"getGates", "getInpSizes", "getOutWLabels"}
  PROVE  /\ EC = Circ(C.numGates, C.numWires, C.num_of_clients, C.inpSize, EC.inpSizes,
                      C.outSize, EC.gates, EC.outWLabels)
         /\ EC.gates = [k \in Index(C.numGates) |-> EC.gates[k]]
         /\ EC.inpSizes = [k \in Index(C.num_of_clients) |-> EC.inpSizes[k]]
         /\ EC.outWLabels = [k \in Index(C.outSize) |-> EC.outWLabels[k]]
         /\ EC.numGates = C.numGates /\ EC.num_of_clients = C.num_of_clients
         /\ EC.outSize = C.outSize
         /\ hidden = {} /\ Holds(buffer, ProgramWords(C), ProgramSize(C))
<1>1. ECForm
  BY DEF WInv, Enclaves
<1>2. hidden = {} /\ Holds(buffer, ProgramWords(C), ProgramSize(C))
  BY DEF WInv, Contents, GetPlaces
<1>3. EC = Circ(C.numGates, C.numWires, C.num_of_clients, C.inpSize, EC.inpSizes,
                C.outSize, EC.gates, EC.outWLabels)
  BY <1>1 DEF ECForm
<1>4. EC.numGates = C.numGates /\ EC.num_of_clients = C.num_of_clients
      /\ EC.outSize = C.outSize
  BY <1>3 DEF Circ
<1> QED
  BY <1>1, <1>2, <1>3, <1>4 DEF ECForm

(* An entry more of f is g's. *)
LEMMA AgreeOneMore ==
  ASSUME NEW n \in Nat, NEW k \in Index(n), NEW f, f = [j \in Index(n) |-> f[j]],
         NEW x, NEW h, h = [f EXCEPT ![k] = x]
  PROVE  /\ h = [j \in Index(n) |-> h[j]]
         /\ \A g : Agree(f, g, k) /\ x = g[k] => Agree(h, g, k + 1)
<1>1. h = [j \in Index(n) |-> h[j]]
  OBVIOUS
<1>2. h[k] = x /\ \A j \in Index(n) : j # k => h[j] = f[j]
  OBVIOUS
<1>3. ASSUME NEW g, Agree(f, g, k), x = g[k]
      PROVE  Agree(h, g, k + 1)
  <2>1. ASSUME NEW j \in Index(k + 1)
        PROVE  h[j] = g[j]
    <3>1. j = k \/ (j \in Index(k) /\ j # k /\ j \in Index(n))
      BY DEF Index
    <3> QED
      BY <1>2, <1>3, <3>1 DEF Agree
  <2> QED
    BY <2>1 DEF Agree
<1> QED
  BY <1>1, <1>3

LEMMA GetGateStep ==
  ASSUME RInv, WInv, Round, UNCHANGED readerVars, GetGate
  PROVE  WInv'
<1> DEFINE w == WordsAt(counter, GATE)
           gs == [EC.gates EXCEPT ![i] = AsGate(w)]
<1>1. /\ pc = "getGates" /\ pc' = "getGates" /\ i < EC.numGates /\ i' = i + 1
      /\ UNCHANGED <<buffer, hidden, damaged>> /\ counter' = counter + GATE
      /\ EC' = [EC EXCEPT !.gates[i] = AsGate(w)]
  BY DEF GetGate, Iterate, Bound
<1>2. /\ counter = GateAt(i) /\ counter \in Nat \ {0} /\ counter' \in Nat \ {0}
      /\ i \in Nat /\ i \in Index(C.numGates) /\ i' \in Nat
      /\ Formed(C) /\ C' = C /\ C.numGates \in Nat /\ ProgramSize(C) \in Nat
      /\ i < C.numGates
  <2>1. /\ counter \in Nat \ {0} /\ i \in Nat /\ Formed(C) /\ C' = C
        /\ C.numGates \in Nat /\ C.num_of_clients \in Nat /\ C.outSize \in Nat
        /\ ProgramSize(C) \in Nat
    BY AtWork
  <2>2. EC.numGates = C.numGates
    BY <1>1, Getting
  <2>3. counter = GateAt(i)
    BY <1>1 DEF WInv, Position
  <2>4. counter' \in Nat \ {0} /\ i' \in Nat
    BY <1>1, <2>1 DEF GATE
  <2>5. i < C.numGates /\ i \in Index(C.numGates)
    BY <1>1, <2>1, <2>2 DEF Index
  <2> QED
    BY <2>1, <2>3, <2>4, <2>5
<1>3. /\ EC = Circ(C.numGates, C.numWires, C.num_of_clients, C.inpSize, EC.inpSizes,
                   C.outSize, EC.gates, EC.outWLabels)
      /\ EC.gates = [k \in Index(C.numGates) |-> EC.gates[k]]
      /\ EC.inpSizes = [k \in Index(C.num_of_clients) |-> EC.inpSizes[k]]
      /\ EC.outWLabels = [k \in Index(C.outSize) |-> EC.outWLabels[k]]
      /\ hidden = {} /\ Holds(buffer, ProgramWords(C), ProgramSize(C))
  BY <1>1, Getting
<1>4. EC' = Circ(C.numGates, C.numWires, C.num_of_clients, C.inpSize, EC.inpSizes,
                 C.outSize, gs, EC.outWLabels)
  <2>1. EC' = [EC EXCEPT !.gates = gs]
    BY <1>1
  <2> HIDE DEF gs
  <2> QED
    BY <1>3, <2>1 DEF Circ
<1>5. EC'.gates = gs /\ EC'.inpSizes = EC.inpSizes /\ EC'.outWLabels = EC.outWLabels
  <2> HIDE DEF gs
  <2> QED
    BY <1>4 DEF Circ
<1>6. /\ gs = [k \in Index(C.numGates) |-> gs[k]]
      /\ \A g : Agree(EC.gates, g, i) /\ AsGate(w) = g[i] => Agree(gs, g, i + 1)
  <2> DEFINE x == AsGate(w)
             f == EC.gates
  <2>1. f = [k \in Index(C.numGates) |-> f[k]] /\ gs = [f EXCEPT ![i] = x]
    BY <1>3
  <2> HIDE DEF x, gs, f
  <2>2. /\ gs = [k \in Index(C.numGates) |-> gs[k]]
        /\ \A g : Agree(f, g, i) /\ x = g[i] => Agree(gs, g, i + 1)
    BY <1>2, <2>1, AgreeOneMore
  <2> QED
    BY <2>2 DEF x, f
<1>7. ECForm'
  <2> HIDE DEF gs
  <2> QED
    BY <1>2, <1>3, <1>4, <1>5, <1>6 DEF ECForm
<1>8. ProgramSize(C) <= LIMIT => Agree(gs, C.gates, i + 1)
  <2>1. SUFFICES ASSUME ProgramSize(C) <= LIMIT
                 PROVE  Agree(gs, C.gates, i + 1)
    OBVIOUS
  <2>2. Agree(EC.gates, C.gates, i)
    BY <1>1, <2>1, AtWork DEF WInv, Enclaves
  <2>3. ASSUME NEW j \in 1..GATE
        PROVE  w[j] = OfGate(C.gates[i])[j]
    <3>1. counter + j - 1 \in 6..(ProgramSize(C) - 1)
          /\ ProgramWords(C)[counter + j - 1] = OfGate(C.gates[i])[j]
      BY <1>2, GateWords
    <3>2. w[j] = ProgramWords(C)[counter + j - 1]
      <4>1. PICK n \in Nat : n = GATE
        BY DEF GATE
      <4>2. counter + j - 1 < ProgramSize(C) /\ j \in 1..n
        BY <1>2, <3>1, <4>1
      <4>3. /\ Holds(buffer, ProgramWords(C), ProgramSize(C)) /\ hidden = {}
            /\ ProgramSize(C) \in Nat /\ ProgramSize(C) <= LIMIT /\ counter \in Nat \ {0}
        BY <1>2, <1>3, <2>1
      <4>4. \A k \in 1..n : counter + k - 1 < ProgramSize(C) =>
                WordsAt(counter, n)[k] = ProgramWords(C)[counter + k - 1]
        BY <4>3, ReadWords
      <4> QED
        BY <4>1, <4>2, <4>4
    <3> QED
      BY <3>1, <3>2
  <2>4. LET g == C.gates[i] IN g = [a |-> g.a, b |-> g.b, out |-> g.out, T |-> g.T]
    BY <1>2 DEF Formed
  <2>5. AsGate(w) = C.gates[i]
    <3> HIDE DEF w
    <3> QED
      BY <2>3, <2>4, GateComesBack
  <2> QED
    BY <1>6, <2>2, <2>5
<1>9. Enclaves'
  <2> HIDE DEF gs
  <2> QED
    BY <1>1, <1>2, <1>5, <1>7, <1>8 DEF Enclaves, PutGPlaces
<1>10. Position'
  BY <1>1, <1>2 DEF Position, GateAt, GATE
<1> QED
  BY <1>1, <1>2, <1>9, <1>10, ProgramGot DEF GetPlaces

LEMMA GetInpSizeStep ==
  ASSUME RInv, WInv, Round, UNCHANGED readerVars, GetInpSize
  PROVE  WInv'
<1> DEFINE x == Word(counter)
           f == EC.inpSizes
           h == [f EXCEPT ![i] = x]
<1>1. /\ pc = "getInpSizes" /\ pc' = "getInpSizes" /\ i < EC.num_of_clients /\ i' = i + 1
      /\ UNCHANGED <<buffer, hidden, damaged>> /\ counter' = counter + 1
      /\ EC' = [EC EXCEPT !.inpSizes = h]
  BY DEF GetInpSize, Iterate, Bound
<1>2. /\ counter = SizeAt(i) /\ counter \in Nat \ {0} /\ counter' \in Nat \ {0}
      /\ i \in Nat /\ i \in Index(C.num_of_clients) /\ i' \in Nat
      /\ Formed(C) /\ C' = C /\ C.numGates \in Nat /\ C.num_of_clients \in Nat
      /\ ProgramSize(C) \in Nat /\ i < C.num_of_clients
  <2>1. /\ counter \in Nat \ {0} /\ i \in Nat /\ Formed(C) /\ C' = C
        /\ C.numGates \in Nat /\ C.num_of_clients \in Nat /\ C.outSize \in Nat
        /\ ProgramSize(C) \in Nat
    BY AtWork
  <2>2. EC.num_of_clients = C.num_of_clients
    BY <1>1, Getting
  <2>3. counter = SizeAt(i)
    BY <1>1 DEF WInv, Position
  <2>4. counter' \in Nat \ {0} /\ i' \in Nat
    BY <1>1, <2>1
  <2>5. i < C.num_of_clients /\ i \in Index(C.num_of_clients)
    BY <1>1, <2>1, <2>2 DEF Index
  <2> QED
    BY <2>1, <2>3, <2>4, <2>5
<1>3. /\ EC = Circ(C.numGates, C.numWires, C.num_of_clients, C.inpSize, f,
                   C.outSize, EC.gates, EC.outWLabels)
      /\ EC.gates = [k \in Index(C.numGates) |-> EC.gates[k]]
      /\ f = [k \in Index(C.num_of_clients) |-> f[k]]
      /\ EC.outWLabels = [k \in Index(C.outSize) |-> EC.outWLabels[k]]
      /\ hidden = {} /\ Holds(buffer, ProgramWords(C), ProgramSize(C))
  BY <1>1, Getting
<1>4. EC' = Circ(C.numGates, C.numWires, C.num_of_clients, C.inpSize, h,
                 C.outSize, EC.gates, EC.outWLabels)
  <2> HIDE DEF h
  <2> QED
    BY <1>1, <1>3 DEF Circ
<1>5. EC'.gates = EC.gates /\ EC'.inpSizes = h /\ EC'.outWLabels = EC.outWLabels
  <2> HIDE DEF h
  <2> QED
    BY <1>4 DEF Circ
<1>6. /\ h = [k \in Index(C.num_of_clients) |-> h[k]]
      /\ \A g : Agree(f, g, i) /\ x = g[i] => Agree(h, g, i + 1)
  <2>1. h = [f EXCEPT ![i] = x]
    OBVIOUS
  <2> HIDE DEF x, f, h
  <2> QED
    BY <1>2, <1>3, <2>1, AgreeOneMore
<1>7. ECForm'
  <2> HIDE DEF h
  <2> QED
    BY <1>2, <1>3, <1>4, <1>5, <1>6 DEF ECForm
<1>8. ProgramSize(C) <= LIMIT => EC.gates = C.gates /\ Agree(h, C.inpSizes, i + 1)
  <2>1. SUFFICES ASSUME ProgramSize(C) <= LIMIT
                 PROVE  EC.gates = C.gates /\ Agree(h, C.inpSizes, i + 1)
    OBVIOUS
  <2>2. EC.gates = C.gates /\ Agree(f, C.inpSizes, i)
    BY <1>1, <2>1, AtWork DEF WInv, Enclaves
  <2>3. counter \in 6..(ProgramSize(C) - 1) /\ ProgramWords(C)[counter] = C.inpSizes[i]
    BY <1>2, SizeWords DEF SizeAt, GateAt
  <2>4. x = C.inpSizes[i]
    <3>1. counter < ProgramSize(C)
      BY <1>2, <2>3
    <3> QED
      BY <1>2, <1>3, <2>1, <2>3, <3>1, ReadWord
  <2> QED
    BY <1>6, <2>2, <2>4
<1>9. Enclaves'
  <2> HIDE DEF h
  <2> QED
    BY <1>1, <1>2, <1>5, <1>7, <1>8 DEF Enclaves, PutGPlaces
<1>10. Position'
  BY <1>1, <1>2 DEF Position, SizeAt, GateAt, GATE
<1> QED
  BY <1>1, <1>2, <1>9, <1>10, ProgramGot DEF GetPlaces

LEMMA GetOutWLabelStep ==
  ASSUME RInv, WInv, Round, UNCHANGED readerVars, GetOutWLabel
  PROVE  WInv'
<1> DEFINE x == Word(counter)
           f == EC.outWLabels
           h == [f EXCEPT ![i] = x]
<1>1. /\ pc = "getOutWLabels" /\ pc' = "getOutWLabels" /\ i < EC.outSize /\ i' = i + 1
      /\ UNCHANGED <<buffer, hidden, damaged>> /\ counter' = counter + 1
      /\ EC' = [EC EXCEPT !.outWLabels = h]
  BY DEF GetOutWLabel, Iterate, Bound
<1>2. /\ counter = LabelAt(i) /\ counter \in Nat \ {0} /\ counter' \in Nat \ {0}
      /\ i \in Nat /\ i \in Index(C.outSize) /\ i' \in Nat
      /\ Formed(C) /\ C' = C /\ C.numGates \in Nat /\ C.num_of_clients \in Nat
      /\ C.outSize \in Nat /\ ProgramSize(C) \in Nat /\ i < C.outSize
  <2>1. /\ counter \in Nat \ {0} /\ i \in Nat /\ Formed(C) /\ C' = C
        /\ C.numGates \in Nat /\ C.num_of_clients \in Nat /\ C.outSize \in Nat
        /\ ProgramSize(C) \in Nat
    BY AtWork
  <2>2. EC.outSize = C.outSize
    BY <1>1, Getting
  <2>3. counter = LabelAt(i)
    BY <1>1 DEF WInv, Position
  <2>4. counter' \in Nat \ {0} /\ i' \in Nat
    BY <1>1, <2>1
  <2>5. i < C.outSize /\ i \in Index(C.outSize)
    BY <1>1, <2>1, <2>2 DEF Index
  <2> QED
    BY <2>1, <2>3, <2>4, <2>5
<1>3. /\ EC = Circ(C.numGates, C.numWires, C.num_of_clients, C.inpSize, EC.inpSizes,
                   C.outSize, EC.gates, f)
      /\ EC.gates = [k \in Index(C.numGates) |-> EC.gates[k]]
      /\ EC.inpSizes = [k \in Index(C.num_of_clients) |-> EC.inpSizes[k]]
      /\ f = [k \in Index(C.outSize) |-> f[k]]
      /\ hidden = {} /\ Holds(buffer, ProgramWords(C), ProgramSize(C))
  BY <1>1, Getting
<1>4. EC' = Circ(C.numGates, C.numWires, C.num_of_clients, C.inpSize, EC.inpSizes,
                 C.outSize, EC.gates, h)
  <2> HIDE DEF h
  <2> QED
    BY <1>1, <1>3 DEF Circ
<1>5. EC'.gates = EC.gates /\ EC'.inpSizes = EC.inpSizes /\ EC'.outWLabels = h
  <2> HIDE DEF h
  <2> QED
    BY <1>4 DEF Circ
<1>6. /\ h = [k \in Index(C.outSize) |-> h[k]]
      /\ \A g : Agree(f, g, i) /\ x = g[i] => Agree(h, g, i + 1)
  <2>1. h = [f EXCEPT ![i] = x]
    OBVIOUS
  <2> HIDE DEF x, f, h
  <2> QED
    BY <1>2, <1>3, <2>1, AgreeOneMore
<1>7. ECForm'
  <2> HIDE DEF h
  <2> QED
    BY <1>2, <1>3, <1>4, <1>5, <1>6 DEF ECForm
<1>8. ProgramSize(C) <= LIMIT =>
        EC.gates = C.gates /\ EC.inpSizes = C.inpSizes /\ Agree(h, C.outWLabels, i + 1)
  <2>1. SUFFICES ASSUME ProgramSize(C) <= LIMIT
                 PROVE  /\ EC.gates = C.gates /\ EC.inpSizes = C.inpSizes
                        /\ Agree(h, C.outWLabels, i + 1)
    OBVIOUS
  <2>2. EC.gates = C.gates /\ EC.inpSizes = C.inpSizes /\ Agree(f, C.outWLabels, i)
    BY <1>1, <2>1, AtWork DEF WInv, Enclaves
  <2>3. counter \in 6..(ProgramSize(C) - 1) /\ ProgramWords(C)[counter] = C.outWLabels[i]
    BY <1>2, LabelWords DEF LabelAt, SizeAt, GateAt
  <2>4. x = C.outWLabels[i]
    <3>1. counter < ProgramSize(C)
      BY <1>2, <2>3
    <3> QED
      BY <1>2, <1>3, <2>1, <2>3, <3>1, ReadWord
  <2> QED
    BY <1>6, <2>2, <2>4
<1>9. Enclaves'
  <2> HIDE DEF h
  <2> QED
    BY <1>1, <1>2, <1>5, <1>7, <1>8 DEF Enclaves, PutGPlaces
<1>10. Position'
  BY <1>1, <1>2 DEF Position, LabelAt, SizeAt, GateAt, GATE
<1> QED
  BY <1>1, <1>2, <1>9, <1>10, ProgramGot DEF GetPlaces

-----------------------------------------------------------------------------
(* The garbling, and the writing of the garbled circuit. *)

LEMMA GarbleStep ==
  ASSUME RInv, WInv, Round, UNCHANGED readerVars, Garble
  PROVE  WInv'
<1>1. /\ pc = "garble" /\ pc' = "putGHeader" /\ i' = 0 /\ counter' = 1
      /\ buffer' = Blank /\ hidden' = {} /\ UNCHANGED <<damaged, EC>>
  BY DEF Garble, Goto
<1>2. /\ C' = C /\ rpc' = "done" /\ damaged \in BOOLEAN /\ LIMIT \in Nat /\ LIMIT >= 6
  BY AtWork
<1>3. ECForm /\ (damaged <=> ProgramSize(C) > LIMIT)
  BY <1>1 DEF WInv, Enclaves, Damage
<1>4. /\ EC.numGates = C.numGates /\ EC.numWires = C.numWires
      /\ EC.inpSize = C.inpSize /\ EC.outSize = C.outSize
  <2>1. EC = Circ(C.numGates, C.numWires, C.num_of_clients, C.inpSize, EC.inpSizes,
               C.outSize, EC.gates, EC.outWLabels)
    BY <1>3 DEF ECForm
  <2> QED
    BY <2>1 DEF Circ
<1>5. PICK ginput \in [Index(C.inpSize) -> Keys], fixedkey \in Keys,
           tables \in [Index(C.numGates) -> Tables] :
        GC' = [numGates |-> C.numGates, numWires |-> C.numWires,
               inpSize |-> C.inpSize, outSize |-> C.outSize,
               ggates |-> [n \in Index(C.numGates) |->
                 LET g == EC.gates[n]
                 IN  [a |-> g.a, b |-> g.b, out |-> g.out, table |-> tables[n]]],
               outWLabels |-> EC.outWLabels, ginput |-> ginput, fixedkey |-> fixedkey]
  BY <1>4 DEF Garble
<1> DEFINE gs == [n \in Index(C.numGates) |->
                    [a |-> EC.gates[n].a, b |-> EC.gates[n].b, out |-> EC.gates[n].out,
                     table |-> tables[n]]]
<1>6. GC' = Garbled(gs, EC.outWLabels, ginput, fixedkey)
  BY <1>5 DEF Garbled
<1>7. /\ gs = [k \in Index(C.numGates) |-> gs[k]]
      /\ \A k \in Index(C.numGates) :
           LET g == gs[k]
           IN  /\ g = [a |-> g.a, b |-> g.b, out |-> g.out, table |-> g.table]
               /\ g.table \in Tables
  OBVIOUS
<1>8. GCForm'
  <2> HIDE DEF gs
  <2>1. GC'.ggates = gs /\ GC'.outWLabels = EC.outWLabels /\ GC'.ginput = ginput
        /\ GC'.fixedkey = fixedkey
    BY <1>6 DEF Garbled
  <2>2. EC.outWLabels = [k \in Index(C.outSize) |-> EC.outWLabels[k]]
    BY <1>3 DEF ECForm
  <2>3. GC' = Garbled(GC'.ggates, GC'.outWLabels, GC'.ginput, GC'.fixedkey)
    BY <1>6, <2>1
  <2> QED
    BY <1>2, <1>7, <2>1, <2>2, <2>3 DEF GCForm, Garbled
<1>9. ECForm'
  BY <1>1, <1>2, <1>3 DEF ECForm
<1>10. WKinds'
  BY <1>1, <1>2 DEF WKinds, WPlaces, PutGPlaces, Blank
<1>11. Position'
  BY <1>1 DEF Position
<1>12. Damage'
  BY <1>1, <1>2, <1>3 DEF Damage, PutPlaces, GetPlaces, PutGPlaces, GetGPlaces
<1>13. Contents'
  BY <1>1 DEF Contents, Holds, PutPlaces, GetPlaces, PutGPlaces, GetGPlaces
<1>14. Enclaves' /\ Owners'
  BY <1>1, <1>8, <1>9 DEF Enclaves, Owners, PutGPlaces, GetGPlaces
<1> QED
  BY <1>10, <1>11, <1>12, <1>13, <1>14 DEF WInv

(* What holds while the garbled circuit is written. *)
LEMMA PuttingG ==
  ASSUME RInv, WInv, Round, UNCHANGED readerVars, pc \in PutGPlaces
  PROVE  /\ EC.numGates = C.numGates /\ LikeIn(GC, C) /\ ECForm /\ GCForm
         /\ hidden = {} /\ Holds(buffer, GProgramWords(GC), counter)
         /\ damaged <=> (ProgramSize(C) > LIMIT \/ counter > LIMIT)
<1>1. ECForm /\ GCForm
  BY DEF WInv, Enclaves, Owners
<1>2. EC.numGates = C.numGates
  <2>1. EC = Circ(C.numGates, C.numWires, C.num_of_clients, C.inpSize, EC.inpSizes,
               C.outSize, EC.gates, EC.outWLabels)
    BY <1>1 DEF ECForm
  <2> QED
    BY <2>1 DEF Circ
<1>3. LikeIn(GC, C)
  <2>1. GC = Garbled(GC.ggates, GC.outWLabels, GC.ginput, GC.fixedkey)
    BY <1>1 DEF GCForm
  <2> QED
    BY <2>1 DEF Garbled, LikeIn
<1>4. hidden = {} /\ Holds(buffer, GProgramWords(GC), counter)
  BY DEF WInv, Contents
<1>5. damaged <=> (ProgramSize(C) > LIMIT \/ counter > LIMIT)
  BY DEF WInv, Damage
<1> QED
  BY <1>1, <1>2, <1>3, <1>4, <1>5

(* One more piece of it in the buffer. *)
LEMMA GProgramPut ==
  ASSUME RInv, WInv, Round, UNCHANGED readerVars,
         pc \in PutGPlaces, pc' \in PutGPlaces, i' \in Nat, UNCHANGED <<hidden, EC, GC>>,
         NEW words, NEW n \in Nat, Len(words) = n, Put(words),
         \A j \in 1..n : words[j] = GProgramWords(GC)[counter + j - 1],
         Position'
  PROVE  WInv'
<1>1. /\ hidden = {} /\ Holds(buffer, GProgramWords(GC), counter)
      /\ (damaged <=> (ProgramSize(C) > LIMIT \/ counter > LIMIT))
      /\ ECForm /\ GCForm
  BY PuttingG
<1>2. /\ counter' = counter + n /\ counter' \in Nat \ {0}
      /\ damaged' \in BOOLEAN /\ (damaged' <=> (damaged \/ counter' > LIMIT))
      /\ buffer' = [a \in Index(LIMIT) |-> buffer'[a]]
      /\ Holds(buffer', GProgramWords(GC), counter')
  BY <1>1, AtWork, PutWords
<1>3. rpc' = "done" /\ C' = C /\ counter \in Nat /\ LIMIT \in Nat
  BY AtWork
<1>4. WKinds'
  BY <1>2, <1>3 DEF WKinds, WPlaces, PutGPlaces
<1>5. damaged' <=> (ProgramSize(C) > LIMIT \/ counter' > LIMIT)
  BY <1>1, <1>2, <1>3
<1>6. Damage'
  BY <1>3, <1>5 DEF Damage, PutPlaces, GetPlaces, PutGPlaces, GetGPlaces
<1>7. Contents'
  BY <1>1, <1>2 DEF Contents, PutPlaces, GetPlaces, PutGPlaces, GetGPlaces
<1>8. Enclaves' /\ Owners'
  <2>1. ECForm' /\ GCForm'
    BY <1>1, <1>3 DEF ECForm, GCForm, Garbled
  <2> QED
    BY <2>1 DEF Enclaves, Owners, PutGPlaces, GetGPlaces
<1> QED
  BY <1>4, <1>6, <1>7, <1>8 DEF WInv

LEMMA PutGHeaderStep ==
  ASSUME RInv, WInv, Round, UNCHANGED readerVars, PutGHeader
  PROVE  WInv'
<1> DEFINE words == <<GC.numGates, GC.numWires, GC.inpSize, GC.outSize>>
<1>1. PICK n \in Nat : n = 4 /\ Len(words) = n
  OBVIOUS
<1>2. /\ pc = "putGHeader" /\ pc' = "putGGates" /\ i' = 0
      /\ Put(words) /\ UNCHANGED <<hidden, EC, GC>> /\ counter' = counter + n
  BY <1>1 DEF PutGHeader, Goto, Put
<1>3. counter = 1 /\ C' = C /\ Formed(C) /\ C.numGates \in Nat /\ LikeIn(GC, C)
  BY <1>2, AtWork, PuttingG DEF WInv, Position, PutGPlaces
<1>4. \A j \in 1..n : words[j] = GProgramWords(GC)[counter + j - 1]
  <2>1. \A j \in 1..n : counter + j - 1 = j /\ j \in 1..4
    BY <1>1, <1>3
  <2>2. \A j \in 1..4 : words[j] = GProgramWords(GC)[j]
    BY <1>3, GHeaderWords
  <2> HIDE DEF words
  <2> QED
    BY <2>1, <2>2
<1>5. Position'
  BY <1>1, <1>2, <1>3 DEF Position, GGateAt, GGATE
<1>6. pc \in PutGPlaces /\ pc' \in PutGPlaces /\ i' \in Nat
  BY <1>2 DEF PutGPlaces
<1> HIDE DEF words
<1> QED
  BY <1>1, <1>2, <1>4, <1>5, <1>6, GProgramPut

LEMMA PutGGateStep ==
  ASSUME RInv, WInv, Round, UNCHANGED readerVars, PutGGate
  PROVE  WInv'
<1> DEFINE words == OfGGate(GC.ggates[i])
<1>1. PICK n \in Nat : n = 19 /\ Len(words) = n
  BY DEF OfGGate, GGATE
<1>2. /\ pc = "putGGates" /\ pc' = "putGGates" /\ i < EC.numGates /\ i' = i + 1
      /\ Put(words) /\ UNCHANGED <<hidden, EC, GC>> /\ counter' = counter + n
  BY <1>1 DEF PutGGate, Iterate, Bound, Put
<1>3. counter = GGateAt(i)
  BY <1>2 DEF WInv, Position
<1>4. /\ C' = C /\ Formed(C) /\ C.numGates \in Nat /\ i \in Nat /\ i \in Index(C.numGates)
      /\ LikeIn(GC, C) /\ i < C.numGates
  <2>1. EC.numGates = C.numGates /\ LikeIn(GC, C)
    BY <1>2, PuttingG DEF PutGPlaces
  <2> QED
    BY <1>2, <2>1, AtWork DEF Index
<1>5. \A j \in 1..n : words[j] = GProgramWords(GC)[counter + j - 1]
  <2>1. \A j \in 1..GGATE : GProgramWords(GC)[GGateAt(i) + j - 1] = words[j]
    BY <1>4, GGateWords
  <2> HIDE DEF words
  <2> QED
    BY <1>1, <1>3, <2>1 DEF GGATE
<1>6. Position'
  BY <1>1, <1>2, <1>3, <1>4 DEF Position, GGateAt, GGATE
<1>7. pc \in PutGPlaces /\ pc' \in PutGPlaces /\ i' \in Nat
  BY <1>2, <1>4 DEF PutGPlaces
<1> HIDE DEF words
<1> QED
  BY <1>1, <1>2, <1>5, <1>6, <1>7, GProgramPut

LEMMA PutGOutWLabelStep ==
  ASSUME RInv, WInv, Round, UNCHANGED readerVars, PutGOutWLabel
  PROVE  WInv'
<1> DEFINE words == <<GC.outWLabels[i]>>
<1>1. PICK n \in Nat : n = 1 /\ Len(words) = n
  OBVIOUS
<1>2. /\ pc = "putGOutWLabels" /\ pc' = "putGOutWLabels" /\ i < GC.outSize /\ i' = i + 1
      /\ Put(words) /\ UNCHANGED <<hidden, EC, GC>> /\ counter' = counter + n
  BY <1>1 DEF PutGOutWLabel, Iterate, Bound, Put
<1>3. counter = GLabelAt(i)
  BY <1>2 DEF WInv, Position
<1>4. /\ C' = C /\ Formed(C) /\ C.numGates \in Nat /\ C.outSize \in Nat /\ i \in Nat
      /\ i \in Index(C.outSize) /\ LikeIn(GC, C) /\ i < C.outSize /\ counter \in Nat
  <2>1. LikeIn(GC, C)
    BY <1>2, PuttingG DEF PutGPlaces
  <2> QED
    BY <1>2, <2>1, AtWork DEF Index, LikeIn
<1>5. \A j \in 1..n : words[j] = GProgramWords(GC)[counter + j - 1]
  <2>1. GProgramWords(GC)[counter] = GC.outWLabels[i]
    BY <1>3, <1>4, GLabelWords DEF GLabelAt, GGateAt
  <2>2. \A j \in 1..n : j = 1 /\ counter + j - 1 = counter
    BY <1>1, <1>4
  <2>3. words[1] = GProgramWords(GC)[counter]
    BY <2>1
  <2> HIDE DEF words
  <2> QED
    BY <2>2, <2>3
<1>6. Position'
  BY <1>1, <1>2, <1>3, <1>4 DEF Position, GLabelAt, GGateAt, GGATE
<1>7. pc \in PutGPlaces /\ pc' \in PutGPlaces /\ i' \in Nat
  BY <1>2, <1>4 DEF PutGPlaces
<1> HIDE DEF words
<1> QED
  BY <1>1, <1>2, <1>5, <1>6, <1>7, GProgramPut

LEMMA PutKeysStep ==
  ASSUME RInv, WInv, Round, UNCHANGED readerVars, PutKeys
  PROVE  WInv'
<1> DEFINE words == [k \in 1..((GC.inpSize + 1) * KEY) |->
                       KeyAt((k - 1) \div KEY)[((k - 1) % KEY) + 1]]
<1>1. /\ pc = "putKeys" /\ pc' = "putGSize" /\ i' = 0
      /\ Put(words) /\ UNCHANGED <<hidden, EC, GC>> /\ counter' = counter + Len(words)
  BY DEF PutKeys, Goto, Put
<1>2. counter = KeysAt
  BY <1>1 DEF WInv, Position
<1>3. /\ C' = C /\ Formed(C) /\ C.numGates \in Nat /\ C.outSize \in Nat
      /\ C.inpSize \in Nat /\ LikeIn(GC, C) /\ GC.inpSize = C.inpSize
  <2>1. LikeIn(GC, C)
    BY <1>1, PuttingG DEF PutGPlaces
  <2> QED
    BY <2>1, AtWork DEF LikeIn
<1>4. PICK n \in Nat : n = 4 * C.inpSize + 4
  BY <1>3
<1>5. words = [k \in 1..n |-> KeyAt((k - 1) \div KEY)[((k - 1) % KEY) + 1]]
  BY <1>3, <1>4 DEF KEY
<1>6. Len(words) = n
  <2>1. words = [k \in 1..n |-> words[k]]
    BY <1>5
  <2> HIDE DEF words
  <2> QED
    BY <2>1
<1>7. \A j \in 1..n : words[j] = GProgramWords(GC)[counter + j - 1]
  <2>1. ASSUME NEW j \in 1..n
        PROVE  words[j] = GProgramWords(GC)[counter + j - 1]
    <3> DEFINE k == j - 1
               b == 5 + GGATE * C.numGates + C.outSize
    <3>1. k \in 0..(4 * C.inpSize + 3)
      BY <1>3, <1>4
    <3>2. words[j] = KeyAt(k \div KEY)[(k % KEY) + 1]
      BY <1>5
    <3>3. \A m : KeyAt(m) = GKeyAt(GC, m)
      BY DEF KeyAt, GKeyAt
    <3>4. counter = b /\ b \in Nat
      BY <1>2, <1>3 DEF KeysAt, GLabelAt, GGateAt, GGATE
    <3>5. counter + j - 1 = b + k
      <4> HIDE DEF b
      <4> QED
        BY <3>4
    <3>6. GProgramWords(GC)[b + k] = GKeyAt(GC, k \div KEY)[(k % KEY) + 1]
      <4> HIDE DEF k
      <4> QED
        BY <1>3, <3>1, KeyWords
    <3> HIDE DEF k, words, b
    <3> QED
      BY <3>2, <3>3, <3>5, <3>6
  <2> QED
    BY <2>1
<1>8. Position'
  <2>1. counter' = GProgramSize(C)
    <3> HIDE DEF words
    <3> QED
      BY <1>1, <1>2, <1>3, <1>4, <1>6 DEF KeysAt, GLabelAt, GGateAt, GProgramSize, GGATE, KEY
  <2> QED
    BY <1>1, <1>3, <2>1 DEF Position
<1>9. pc \in PutGPlaces /\ pc' \in PutGPlaces /\ i' \in Nat
  BY <1>1 DEF PutGPlaces
<1> HIDE DEF words
<1> QED
  BY <1>1, <1>6, <1>7, <1>8, <1>9, GProgramPut

LEMMA PutGSizeStep ==
  ASSUME RInv, WInv, Round, UNCHANGED readerVars, PutGSize
  PROVE  WInv'
<1> DEFINE n == GProgramSize(C)
<1>1. /\ pc = "putGSize" /\ pc' = "getGHeader" /\ i' = 0 /\ counter' = 1
      /\ buffer' = [buffer EXCEPT ![0] = counter] /\ hidden' = 1..(counter - 1)
      /\ UNCHANGED <<damaged, EC, GC>>
  BY DEF PutGSize, Goto, Close
<1>2. counter = n
  BY <1>1 DEF WInv, Position
<1>3. /\ (damaged <=> (ProgramSize(C) > LIMIT \/ counter > LIMIT)) /\ GCForm
      /\ Holds(buffer, GProgramWords(GC), counter)
  BY <1>1, PuttingG DEF PutGPlaces
<1>4. /\ C' = C /\ rpc' = "done" /\ n \in Nat /\ LIMIT \in Nat /\ LIMIT >= 6
      /\ buffer = [a \in Index(LIMIT) |-> buffer[a]] /\ damaged \in BOOLEAN
      /\ ProgramSize(C) \in Nat
  BY AtWork
<1>5. /\ buffer'[0] = n
      /\ buffer' = [a \in Index(LIMIT) |-> buffer'[a]]
      /\ Holds(buffer', GProgramWords(GC), n)
  <2> HIDE DEF n
  <2> QED
    BY <1>1, <1>2, <1>3, <1>4, PutFront
<1>6. damaged <=> ~Fits(C)
  BY <1>2, <1>3, <1>4 DEF Fits
<1>7. GCForm'
  BY <1>1, <1>3, <1>4 DEF GCForm, Garbled
<1>8. WKinds'
  BY <1>1, <1>4, <1>5 DEF WKinds, WPlaces, GetGPlaces
<1>9. Position'
  BY <1>1 DEF Position
<1>10. Damage'
  BY <1>1, <1>4, <1>6 DEF Damage, PutPlaces, GetPlaces, PutGPlaces, GetGPlaces
<1>11. Contents'
  BY <1>1, <1>2, <1>4, <1>5 DEF Contents, PutPlaces, GetPlaces, PutGPlaces, GetGPlaces
<1>12. Enclaves' /\ Owners'
  BY <1>1, <1>7 DEF Enclaves, Owners, PutPlaces, GetPlaces, PutGPlaces, GetGPlaces
<1> QED
  BY <1>8, <1>9, <1>10, <1>11, <1>12 DEF WInv

-----------------------------------------------------------------------------
(* The reading of the garbled circuit. *)

LEMMA GetGHeaderStep ==
  ASSUME RInv, WInv, Round, UNCHANGED readerVars, GetGHeader
  PROVE  WInv'
<1> DEFINE n == GProgramSize(C)
<1>1. /\ pc = "getGHeader" /\ pc' = "getGGates" /\ i' = 0 /\ counter' = counter + 4
      /\ hidden' = hidden \ Opened /\ UNCHANGED <<buffer, damaged, GC>>
  BY DEF GetGHeader, Goto
<1>2. /\ counter = 1 /\ (damaged <=> ~Fits(C)) /\ Holds(buffer, GProgramWords(GC), n)
      /\ buffer[0] = n /\ hidden = 1..(n - 1) /\ GCForm
  BY <1>1 DEF WInv, Position, Damage, Contents, Owners, GetGPlaces
<1>3. /\ C' = C /\ rpc' = "done" /\ n \in Nat /\ n >= 5 /\ LIMIT \in Nat /\ LIMIT >= 6
      /\ buffer = [a \in Index(LIMIT) |-> buffer[a]] /\ damaged \in BOOLEAN
      /\ Formed(C) /\ C.numGates \in Nat
  BY AtWork
<1>4. hidden' = {}
  BY <1>1, <1>2 DEF Opened
<1>5. LikeIn(GC, C)
  <2>1. GC = Garbled(GC.ggates, GC.outWLabels, GC.ginput, GC.fixedkey)
    BY <1>2 DEF GCForm
  <2> QED
    BY <2>1 DEF Garbled, LikeIn
<1>6. /\ buffer[1] = C.numGates /\ buffer[2] = C.numWires
      /\ buffer[3] = C.inpSize /\ buffer[4] = C.outSize
  <2>1. \A a \in 1..4 : a \in 1..(n - 1) /\ a < LIMIT
    BY <1>3
  <2>2. \A a \in 1..4 : buffer[a] = GProgramWords(GC)[a]
    BY <1>2, <2>1 DEF Holds
  <2> QED
    BY <1>3, <1>5, <2>2, GHeaderWords DEF LikeIn
<1>7. OGC' = Garbled(Nothing(C.numGates), Nothing(C.outSize), <<>>, Junk)
  <2> DEFINE h == [k \in Index(4) |-> buffer[counter + k]]
  <2>1. h[0] = buffer[1] /\ h[1] = buffer[2] /\ h[2] = buffer[3] /\ h[3] = buffer[4]
    BY <1>2 DEF Index
  <2>2. OGC' = [numGates |-> h[0], numWires |-> h[1], inpSize |-> h[2],
                outSize |-> h[3], ggates |-> Nothing(h[0]),
                outWLabels |-> Nothing(h[3]), ginput |-> <<>>, fixedkey |-> Junk]
    BY DEF GetGHeader
  <2> HIDE DEF h
  <2> QED
    BY <1>6, <2>1, <2>2 DEF Garbled
<1>8. OGCForm'
  <2>1. OGC'.ggates = Nothing(C.numGates) /\ OGC'.outWLabels = Nothing(C.outSize)
        /\ OGC'.ginput = <<>> /\ OGC'.fixedkey = Junk
    BY <1>7 DEF Garbled
  <2> QED
    BY <1>3, <1>7, <2>1 DEF OGCForm, Nothing, Garbled
<1>9. GCForm'
  BY <1>1, <1>2, <1>3 DEF GCForm, Garbled
<1>10. Owners'
  BY <1>1, <1>8, <1>9 DEF Owners, Agree, Index, PutGPlaces, GetGPlaces
<1>11. WKinds'
  BY <1>1, <1>2, <1>3 DEF WKinds, WPlaces, GetGPlaces
<1>12. Position'
  BY <1>1, <1>2, <1>3 DEF Position, GGateAt, GGATE
<1>13. Damage'
  BY <1>1, <1>2, <1>3 DEF Damage, PutPlaces, GetPlaces, PutGPlaces, GetGPlaces
<1>14. Contents'
  BY <1>1, <1>2, <1>3, <1>4 DEF Contents, PutPlaces, GetPlaces, PutGPlaces, GetGPlaces
<1>15. Enclaves'
  BY <1>1 DEF Enclaves, PutGPlaces
<1> QED
  BY <1>10, <1>11, <1>12, <1>13, <1>14, <1>15 DEF WInv

(* What holds while the owner reads the garbled circuit. *)
LEMMA GettingG ==
  ASSUME RInv, WInv, Round, UNCHANGED readerVars,
         pc \in {"getGGates", "getGOutWLabels", "getKeys"}
  PROVE  /\ OGC = Garbled(OGC.ggates, OGC.outWLabels, OGC.ginput, OGC.fixedkey)
         /\ OGC.ggates = [k \in Index(C.numGates) |-> OGC.ggates[k]]
         /\ OGC.outWLabels = [k \in Index(C.outSize) |-> OGC.outWLabels[k]]
         /\ OGC.numGates = C.numGates /\ OGC.inpSize = C.inpSize
         /\ OGC.outSize = C.outSize
         /\ GCForm /\ LikeIn(GC, C)
         /\ hidden = {} /\ Holds(buffer, GProgramWords(GC), GProgramSize(C))
<1>1. OGCForm /\ GCForm
  BY DEF WInv, Owners, GetGPlaces
<1>2. hidden = {} /\ Holds(buffer, GProgramWords(GC), GProgramSize(C))
  BY DEF WInv, Contents, GetGPlaces
<1>3. OGC = Garbled(OGC.ggates, OGC.outWLabels, OGC.ginput, OGC.fixedkey)
  BY <1>1 DEF OGCForm
<1>4. OGC.numGates = C.numGates /\ OGC.inpSize = C.inpSize /\ OGC.outSize = C.outSize
  BY <1>3 DEF Garbled
<1>5. LikeIn(GC, C)
  <2>1. GC = Garbled(GC.ggates, GC.outWLabels, GC.ginput, GC.fixedkey)
    BY <1>1 DEF GCForm
  <2> QED
    BY <2>1 DEF Garbled, LikeIn
<1> QED
  BY <1>1, <1>2, <1>3, <1>4, <1>5 DEF OGCForm

(* The owner's garbled circuit, a piece more of which has been read. *)
LEMMA GProgramGot ==
  ASSUME RInv, WInv, Round, UNCHANGED readerVars,
         pc \in GetGPlaces, pc # "getGHeader", pc' \in GetGPlaces \cup {"done"},
         pc' # "getGHeader", i' \in Nat,
         UNCHANGED <<buffer, hidden, damaged, GC>>, counter' \in Nat \ {0},
         Position', Owners'
  PROVE  WInv'
<1>1. /\ rpc' = "done" /\ C' = C /\ buffer = [a \in Index(LIMIT) |-> buffer[a]]
      /\ damaged \in BOOLEAN
  BY AtWork
<1>2. /\ (damaged <=> ~Fits(C)) /\ hidden = {}
      /\ Holds(buffer, GProgramWords(GC), GProgramSize(C)) /\ buffer[0] = GProgramSize(C)
  BY DEF WInv, Damage, Contents
<1>3. WKinds'
  BY <1>1 DEF WKinds, WPlaces, GetGPlaces
<1>4. Damage'
  BY <1>1, <1>2 DEF Damage, PutPlaces, GetPlaces, PutGPlaces, GetGPlaces
<1>5. Contents'
  BY <1>1, <1>2 DEF Contents, PutPlaces, GetPlaces, PutGPlaces, GetGPlaces
<1>6. Enclaves'
  BY DEF Enclaves, GetGPlaces, PutGPlaces
<1> QED
  BY <1>3, <1>4, <1>5, <1>6 DEF WInv

LEMMA GetGGateStep ==
  ASSUME RInv, WInv, Round, UNCHANGED readerVars, GetGGate
  PROVE  WInv'
<1> DEFINE w == WordsAt(counter, GGATE)
           x == AsGGate(w)
           f == OGC.ggates
           h == [f EXCEPT ![i] = x]
<1>1. /\ pc = "getGGates" /\ pc' = "getGGates" /\ i < OGC.numGates /\ i' = i + 1
      /\ UNCHANGED <<buffer, hidden, damaged, GC>> /\ counter' = counter + GGATE
      /\ OGC' = [OGC EXCEPT !.ggates = h]
  BY DEF GetGGate, Iterate, Bound
<1>2. /\ counter = GGateAt(i) /\ counter \in Nat \ {0} /\ counter' \in Nat \ {0}
      /\ i \in Nat /\ i \in Index(C.numGates) /\ i' \in Nat
      /\ Formed(C) /\ C' = C /\ rpc' = "done" /\ C.numGates \in Nat
      /\ GProgramSize(C) \in Nat /\ i < C.numGates
  <2>1. /\ counter \in Nat \ {0} /\ i \in Nat /\ Formed(C) /\ C' = C /\ rpc' = "done"
        /\ C.numGates \in Nat /\ GProgramSize(C) \in Nat
    BY AtWork
  <2>2. OGC.numGates = C.numGates
    BY <1>1, GettingG
  <2>3. counter = GGateAt(i)
    BY <1>1 DEF WInv, Position
  <2>4. counter' \in Nat \ {0} /\ i' \in Nat
    BY <1>1, <2>1 DEF GGATE
  <2>5. i < C.numGates /\ i \in Index(C.numGates)
    BY <1>1, <2>1, <2>2 DEF Index
  <2> QED
    BY <2>1, <2>3, <2>4, <2>5
<1>3. /\ OGC = Garbled(f, OGC.outWLabels, OGC.ginput, OGC.fixedkey)
      /\ f = [k \in Index(C.numGates) |-> f[k]]
      /\ OGC.outWLabels = [k \in Index(C.outSize) |-> OGC.outWLabels[k]]
      /\ GCForm /\ LikeIn(GC, C)
      /\ hidden = {} /\ Holds(buffer, GProgramWords(GC), GProgramSize(C))
  BY <1>1, GettingG
<1>4. OGC' = Garbled(h, OGC.outWLabels, OGC.ginput, OGC.fixedkey)
  <2> HIDE DEF h
  <2> QED
    BY <1>1, <1>3 DEF Garbled
<1>5. /\ OGC'.ggates = h /\ OGC'.outWLabels = OGC.outWLabels
      /\ OGC'.ginput = OGC.ginput /\ OGC'.fixedkey = OGC.fixedkey
  <2> HIDE DEF h
  <2> QED
    BY <1>4 DEF Garbled
<1>6. /\ h = [k \in Index(C.numGates) |-> h[k]]
      /\ \A g : Agree(f, g, i) /\ x = g[i] => Agree(h, g, i + 1)
  <2>1. h = [f EXCEPT ![i] = x]
    OBVIOUS
  <2> HIDE DEF x, f, h
  <2> QED
    BY <1>2, <1>3, <2>1, AgreeOneMore
<1>7. GCForm' /\ OGCForm'
  <2>1. GCForm'
    BY <1>1, <1>2, <1>3 DEF GCForm, Garbled
  <2> HIDE DEF h
  <2>2. OGCForm'
    BY <1>2, <1>3, <1>4, <1>5, <1>6 DEF OGCForm, Garbled
  <2> QED
    BY <2>1, <2>2
<1>8. GProgramSize(C) <= LIMIT => Agree(h, GC.ggates, i + 1)
  <2>1. SUFFICES ASSUME GProgramSize(C) <= LIMIT
                 PROVE  Agree(h, GC.ggates, i + 1)
    OBVIOUS
  <2>2. Agree(f, GC.ggates, i)
    BY <1>1, <2>1, AtWork DEF WInv, Owners
  <2>3. ASSUME NEW j \in 1..GGATE
        PROVE  w[j] = OfGGate(GC.ggates[i])[j]
    <3>1. counter + j - 1 \in 5..(GProgramSize(C) - 1)
          /\ GProgramWords(GC)[counter + j - 1] = OfGGate(GC.ggates[i])[j]
      BY <1>2, <1>3, GGateWords
    <3>2. w[j] = GProgramWords(GC)[counter + j - 1]
      <4>1. PICK n \in Nat : n = GGATE
        BY DEF GGATE
      <4>2. counter + j - 1 < GProgramSize(C) /\ j \in 1..n
        BY <1>2, <3>1, <4>1
      <4>3. /\ Holds(buffer, GProgramWords(GC), GProgramSize(C)) /\ hidden = {}
            /\ GProgramSize(C) \in Nat /\ GProgramSize(C) <= LIMIT /\ counter \in Nat \ {0}
        BY <1>2, <1>3, <2>1
      <4>4. \A k \in 1..n : counter + k - 1 < GProgramSize(C) =>
                WordsAt(counter, n)[k] = GProgramWords(GC)[counter + k - 1]
        BY <4>3, ReadWords
      <4> QED
        BY <4>1, <4>2, <4>4
    <3> QED
      BY <3>1, <3>2
  <2>4. LET g == GC.ggates[i]
        IN  /\ g = [a |-> g.a, b |-> g.b, out |-> g.out, table |-> g.table]
            /\ g.table \in Tables
    BY <1>2, <1>3 DEF GCForm
  <2>5. x = GC.ggates[i]
    <3> HIDE DEF w
    <3> QED
      BY <2>3, <2>4, GGateComesBack
  <2> QED
    BY <1>6, <2>2, <2>5
<1>9. Owners'
  <2> HIDE DEF h
  <2> QED
    BY <1>1, <1>2, <1>5, <1>7, <1>8 DEF Owners, PutGPlaces, GetGPlaces
<1>10. Position'
  BY <1>1, <1>2 DEF Position, GGateAt, GGATE
<1> QED
  BY <1>1, <1>2, <1>9, <1>10, GProgramGot DEF GetGPlaces

LEMMA GetGOutWLabelStep ==
  ASSUME RInv, WInv, Round, UNCHANGED readerVars, GetGOutWLabel
  PROVE  WInv'
<1> DEFINE x == Word(counter)
           f == OGC.outWLabels
           h == [f EXCEPT ![i] = x]
<1>1. /\ pc = "getGOutWLabels" /\ pc' = "getGOutWLabels" /\ i < OGC.outSize /\ i' = i + 1
      /\ UNCHANGED <<buffer, hidden, damaged, GC>> /\ counter' = counter + 1
      /\ OGC' = [OGC EXCEPT !.outWLabels = h]
  BY DEF GetGOutWLabel, Iterate, Bound
<1>2. /\ counter = GLabelAt(i) /\ counter \in Nat \ {0} /\ counter' \in Nat \ {0}
      /\ i \in Nat /\ i \in Index(C.outSize) /\ i' \in Nat
      /\ Formed(C) /\ C' = C /\ rpc' = "done" /\ C.numGates \in Nat /\ C.outSize \in Nat
      /\ GProgramSize(C) \in Nat /\ i < C.outSize
  <2>1. /\ counter \in Nat \ {0} /\ i \in Nat /\ Formed(C) /\ C' = C /\ rpc' = "done"
        /\ C.numGates \in Nat /\ C.outSize \in Nat /\ GProgramSize(C) \in Nat
    BY AtWork
  <2>2. OGC.outSize = C.outSize
    BY <1>1, GettingG
  <2>3. counter = GLabelAt(i)
    BY <1>1 DEF WInv, Position
  <2>4. counter' \in Nat \ {0} /\ i' \in Nat
    BY <1>1, <2>1
  <2>5. i < C.outSize /\ i \in Index(C.outSize)
    BY <1>1, <2>1, <2>2 DEF Index
  <2> QED
    BY <2>1, <2>3, <2>4, <2>5
<1>3. /\ OGC = Garbled(OGC.ggates, f, OGC.ginput, OGC.fixedkey)
      /\ OGC.ggates = [k \in Index(C.numGates) |-> OGC.ggates[k]]
      /\ f = [k \in Index(C.outSize) |-> f[k]]
      /\ GCForm /\ LikeIn(GC, C)
      /\ hidden = {} /\ Holds(buffer, GProgramWords(GC), GProgramSize(C))
  BY <1>1, GettingG
<1>4. OGC' = Garbled(OGC.ggates, h, OGC.ginput, OGC.fixedkey)
  <2> HIDE DEF h
  <2> QED
    BY <1>1, <1>3 DEF Garbled
<1>5. /\ OGC'.ggates = OGC.ggates /\ OGC'.outWLabels = h
      /\ OGC'.ginput = OGC.ginput /\ OGC'.fixedkey = OGC.fixedkey
  <2> HIDE DEF h
  <2> QED
    BY <1>4 DEF Garbled
<1>6. /\ h = [k \in Index(C.outSize) |-> h[k]]
      /\ \A g : Agree(f, g, i) /\ x = g[i] => Agree(h, g, i + 1)
  <2>1. h = [f EXCEPT ![i] = x]
    OBVIOUS
  <2> HIDE DEF x, f, h
  <2> QED
    BY <1>2, <1>3, <2>1, AgreeOneMore
<1>7. GCForm' /\ OGCForm'
  <2>1. GCForm'
    BY <1>1, <1>2, <1>3 DEF GCForm, Garbled
  <2> HIDE DEF h
  <2>2. OGCForm'
    BY <1>2, <1>3, <1>4, <1>5, <1>6 DEF OGCForm, Garbled
  <2> QED
    BY <2>1, <2>2
<1>8. GProgramSize(C) <= LIMIT =>
        OGC.ggates = GC.ggates /\ Agree(h, GC.outWLabels, i + 1)
  <2>1. SUFFICES ASSUME GProgramSize(C) <= LIMIT
                 PROVE  OGC.ggates = GC.ggates /\ Agree(h, GC.outWLabels, i + 1)
    OBVIOUS
  <2>2. OGC.ggates = GC.ggates /\ Agree(f, GC.outWLabels, i)
    BY <1>1, <2>1, AtWork DEF WInv, Owners
  <2>3. counter \in 5..(GProgramSize(C) - 1)
        /\ GProgramWords(GC)[counter] = GC.outWLabels[i]
    BY <1>2, <1>3, GLabelWords DEF GLabelAt, GGateAt
  <2>4. x = GC.outWLabels[i]
    <3>1. counter < GProgramSize(C)
      BY <1>2, <2>3
    <3> QED
      BY <1>2, <1>3, <2>1, <2>3, <3>1, ReadWord
  <2> QED
    BY <1>6, <2>2, <2>4
<1>9. Owners'
  <2> HIDE DEF h
  <2> QED
    BY <1>1, <1>2, <1>5, <1>7, <1>8 DEF Owners, PutGPlaces, GetGPlaces
<1>10. Position'
  BY <1>1, <1>2 DEF Position, GLabelAt, GGateAt, GGATE
<1> QED
  BY <1>1, <1>2, <1>9, <1>10, GProgramGot DEF GetGPlaces

LEMMA GetKeysStep ==
  ASSUME RInv, WInv, Round, UNCHANGED readerVars, GetKeys
  PROVE  WInv'
<1> DEFINE gi == [n \in Index(C.inpSize) |-> WordsAt(counter + n * KEY, KEY)]
           fk == WordsAt(counter + C.inpSize * KEY, KEY)
           b == 5 + GGATE * C.numGates + C.outSize
<1>1. OGC.inpSize = C.inpSize
  BY GettingG DEF GetKeys, Goto
<1>2. /\ pc = "getKeys" /\ pc' = "done" /\ i' = 0
      /\ UNCHANGED <<buffer, hidden, damaged, GC>>
      /\ counter' = counter + (C.inpSize + 1) * KEY
      /\ OGC' = [OGC EXCEPT !.ginput = gi, !.fixedkey = fk]
  BY <1>1 DEF GetKeys, Goto
<1>3. /\ Formed(C) /\ C' = C /\ rpc' = "done" /\ C.numGates \in Nat /\ C.outSize \in Nat
      /\ C.inpSize \in Nat /\ GProgramSize(C) \in Nat /\ counter \in Nat \ {0}
  BY AtWork
<1>4. counter = b
  BY <1>2 DEF WInv, Position, KeysAt, GLabelAt, GGateAt
<1>5. /\ OGC = Garbled(OGC.ggates, OGC.outWLabels, OGC.ginput, OGC.fixedkey)
      /\ OGC.ggates = [k \in Index(C.numGates) |-> OGC.ggates[k]]
      /\ OGC.outWLabels = [k \in Index(C.outSize) |-> OGC.outWLabels[k]]
      /\ GCForm /\ LikeIn(GC, C)
      /\ hidden = {} /\ Holds(buffer, GProgramWords(GC), GProgramSize(C))
  BY <1>2, GettingG
<1>6. OGC' = Garbled(OGC.ggates, OGC.outWLabels, gi, fk)
  <2> DEFINE gs == OGC.ggates
             ls == OGC.outWLabels
             ks == OGC.ginput
             k0 == OGC.fixedkey
  <2>1. OGC = Garbled(gs, ls, ks, k0)
    BY <1>5
  <2>2. OGC' = [OGC EXCEPT !.ginput = gi, !.fixedkey = fk]
    BY <1>2
  <2> HIDE DEF gi, fk, gs, ls, ks, k0
  <2>3. OGC' = Garbled(gs, ls, gi, fk)
    BY <2>1, <2>2 DEF Garbled
  <2> QED
    BY <2>3 DEF gs, ls
<1>7. /\ OGC'.ggates = OGC.ggates /\ OGC'.outWLabels = OGC.outWLabels
      /\ OGC'.ginput = gi /\ OGC'.fixedkey = fk
  <2> HIDE DEF gi, fk
  <2> QED
    BY <1>6 DEF Garbled
<1>8. GCForm' /\ OGCForm'
  <2>1. GCForm'
    BY <1>2, <1>3, <1>5 DEF GCForm, Garbled
  <2> HIDE DEF gi, fk
  <2>2. OGCForm'
    BY <1>3, <1>5, <1>6, <1>7 DEF OGCForm, Garbled
  <2> QED
    BY <2>1, <2>2
<1>9. GProgramSize(C) <= LIMIT => OGC' = GC
  <2>1. SUFFICES ASSUME GProgramSize(C) <= LIMIT
                 PROVE  OGC' = GC
    OBVIOUS
  <2>2. OGC.ggates = GC.ggates /\ OGC.outWLabels = GC.outWLabels
    BY <1>2, <2>1, AtWork DEF WInv, Owners
  <2>3. ASSUME NEW n \in 0..C.inpSize, NEW k \in Keys, GKeyAt(GC, n) = k
        PROVE  WordsAt(counter + n * KEY, KEY) = k
    <3> DEFINE a == counter + n * KEY
    <3>1. a \in Nat \ {0} /\ n \in Nat
      BY <1>3 DEF KEY
    <3>2. ASSUME NEW j \in 1..KEY
          PROVE  WordsAt(a, KEY)[j] = k[j]
      <4>1. b + n * KEY + j - 1 \in 5..(GProgramSize(C) - 1)
            /\ GProgramWords(GC)[b + n * KEY + j - 1] = k[j]
        BY <1>3, <1>5, <2>3, KeyWordsOf
      <4>2. a = b + n * KEY
        BY <1>4
      <4> HIDE DEF a, b
      <4>3. a + j - 1 < GProgramSize(C) /\ GProgramWords(GC)[a + j - 1] = k[j]
        BY <1>3, <4>1, <4>2
      <4>4. PICK m \in Nat : m = KEY
        BY DEF KEY
      <4>5. \A l \in 1..m : a + l - 1 < GProgramSize(C) =>
                WordsAt(a, m)[l] = GProgramWords(GC)[a + l - 1]
        BY <1>3, <1>5, <2>1, <3>1, ReadWords
      <4> QED
        BY <4>3, <4>4, <4>5
    <3> HIDE DEF a
    <3>3. WordsAt(a, KEY) = [j \in 1..KEY |-> WordsAt(a, KEY)[j]]
      BY DEF WordsAt
    <3>4. k = [j \in 1..KEY |-> k[j]]
      BY KeysAssumption
    <3> DEFINE u == WordsAt(a, KEY)
    <3>5. u = [j \in 1..KEY |-> u[j]] /\ \A j \in 1..KEY : u[j] = k[j]
      BY <3>2, <3>3
    <3> HIDE DEF u
    <3>6. u = k
      BY <3>4, <3>5
    <3> QED
      BY <3>6 DEF u, a
  <2>4. GC.ginput \in [Index(C.inpSize) -> Keys] /\ GC.fixedkey \in Keys
        /\ GC.inpSize = C.inpSize
    BY <1>5 DEF GCForm, LikeIn
  <2>5. fk = GC.fixedkey
    <3>1. C.inpSize \in 0..C.inpSize /\ GKeyAt(GC, C.inpSize) = GC.fixedkey
      BY <1>3, <2>4 DEF GKeyAt
    <3> QED
      BY <2>3, <2>4, <3>1
  <2>6. ASSUME NEW n \in Index(C.inpSize)
        PROVE  WordsAt(counter + n * KEY, KEY) = GC.ginput[n]
    <3>1. n \in 0..C.inpSize /\ GKeyAt(GC, n) = GC.ginput[n] /\ GC.ginput[n] \in Keys
      BY <1>3, <2>4 DEF GKeyAt, Index
    <3> QED
      BY <2>3, <3>1
  <2>7. gi = GC.ginput
    <3> DEFINE g == GC.ginput
    <3>1. g = [n \in Index(C.inpSize) |-> g[n]]
      BY <2>4
    <3>2. gi = [n \in Index(C.inpSize) |-> g[n]]
      BY <2>6
    <3> QED
      BY <3>1, <3>2
  <2>8. GC = Garbled(GC.ggates, GC.outWLabels, GC.ginput, GC.fixedkey)
    BY <1>5 DEF GCForm
  <2> HIDE DEF gi, fk
  <2> QED
    BY <1>6, <2>2, <2>5, <2>7, <2>8
<1>10. Owners'
  <2> HIDE DEF gi, fk
  <2> QED
    BY <1>2, <1>3, <1>8, <1>9 DEF Owners, PutGPlaces, GetGPlaces
<1>11. Position'
  BY <1>2 DEF Position
<1>12. counter' \in Nat \ {0}
  BY <1>2, <1>3 DEF KEY
<1>13. /\ pc \in GetGPlaces /\ pc # "getGHeader"
       /\ pc' \in GetGPlaces \cup {"done"} /\ pc' # "getGHeader" /\ i' \in Nat
  BY <1>2 DEF GetGPlaces
<1> QED
  BY <1>2, <1>10, <1>11, <1>12, <1>13, GProgramGot

-----------------------------------------------------------------------------
(* The ends of the loops, and the invariant. *)

LEMMA EndedLoop ==
  ASSUME EndLoop
  PROVE  /\ i' = 0 /\ UNCHANGED <<counter, buffer, hidden, damaged, EC, GC, OGC>>
         /\ \/ pc = "putGates" /\ i = C.numGates /\ pc' = "putInpSizes"
            \/ pc = "putInpSizes" /\ i = C.num_of_clients /\ pc' = "putOutWLabels"
            \/ pc = "putOutWLabels" /\ i = C.outSize /\ pc' = "putSize"
            \/ pc = "getGates" /\ i = EC.numGates /\ pc' = "getInpSizes"
            \/ pc = "getInpSizes" /\ i = EC.num_of_clients /\ pc' = "getOutWLabels"
            \/ pc = "getOutWLabels" /\ i = EC.outSize /\ pc' = "garble"
            \/ pc = "putGGates" /\ i = EC.numGates /\ pc' = "putGOutWLabels"
            \/ pc = "putGOutWLabels" /\ i = GC.outSize /\ pc' = "putKeys"
            \/ pc = "getGGates" /\ i = OGC.numGates /\ pc' = "getGOutWLabels"
            \/ pc = "getGOutWLabels" /\ i = OGC.outSize /\ pc' = "getKeys"
<1>1. /\ i' = 0 /\ UNCHANGED <<counter, buffer, hidden, damaged, EC, GC, OGC>>
      /\ pc \in DOMAIN After /\ i = Bound /\ pc' = After[pc]
  BY DEF EndLoop
<1>2. pc \in {"putGates", "putInpSizes", "putOutWLabels", "getGates", "getInpSizes",
              "getOutWLabels", "putGGates", "putGOutWLabels", "getGGates",
              "getGOutWLabels"}
  BY <1>1 DEF After
<1> QED
  BY <1>1, <1>2 DEF After, Bound

(* What agrees to the end is equal. *)
LEMMA AgreeAll ==
  ASSUME NEW n, NEW f, f = [k \in Index(n) |-> f[k]],
         NEW g, g = [k \in Index(n) |-> g[k]], Agree(f, g, n)
  PROVE  f = g
<1>1. \A k \in Index(n) : f[k] = g[k]
  BY DEF Agree
<1> QED
  BY <1>1

LEMMA EndPutLoop ==
  ASSUME RInv, WInv, Round, UNCHANGED readerVars, EndLoop,
         pc \in {"putGates", "putInpSizes", "putOutWLabels"}
  PROVE  WInv'
<1>1. /\ i' = 0 /\ UNCHANGED <<counter, buffer, hidden, damaged>>
      /\ \/ pc = "putGates" /\ i = C.numGates /\ pc' = "putInpSizes"
         \/ pc = "putInpSizes" /\ i = C.num_of_clients /\ pc' = "putOutWLabels"
         \/ pc = "putOutWLabels" /\ i = C.outSize /\ pc' = "putSize"
  BY EndedLoop
<1>2. /\ rpc' = "done" /\ C' = C /\ counter \in Nat \ {0} /\ damaged \in BOOLEAN
      /\ C.numGates \in Nat /\ C.num_of_clients \in Nat /\ C.outSize \in Nat
      /\ buffer = [a \in Index(LIMIT) |-> buffer[a]]
  BY AtWork
<1>3. /\ hidden = {} /\ (damaged <=> counter > LIMIT)
      /\ Holds(buffer, ProgramWords(C), counter)
  BY DEF WInv, Damage, Contents, PutPlaces
<1>4. pc' \in {"putInpSizes", "putOutWLabels", "putSize"}
  BY <1>1
<1>5. WKinds'
  BY <1>1, <1>2, <1>4 DEF WKinds, WPlaces, PutPlaces
<1>6. Position'
  <2>1. CASE pc = "putGates"
    BY <1>1, <1>2, <2>1 DEF WInv, Position, SizeAt, GateAt, GATE
  <2>2. CASE pc = "putInpSizes"
    BY <1>1, <1>2, <2>2 DEF WInv, Position, LabelAt, SizeAt, GateAt, GATE
  <2>3. CASE pc = "putOutWLabels"
    BY <1>1, <1>2, <2>3 DEF WInv, Position, ProgramSize, LabelAt, SizeAt, GateAt, GATE
  <2> QED
    BY <1>1, <2>1, <2>2, <2>3
<1>7. Damage'
  BY <1>1, <1>3, <1>4 DEF Damage, PutPlaces, GetPlaces, PutGPlaces, GetGPlaces
<1>8. Contents'
  BY <1>1, <1>2, <1>3, <1>4 DEF Contents, PutPlaces, GetPlaces, PutGPlaces, GetGPlaces
<1>9. Enclaves' /\ Owners'
  BY <1>4 DEF Enclaves, Owners, PutGPlaces, GetGPlaces
<1> QED
  BY <1>5, <1>6, <1>7, <1>8, <1>9 DEF WInv

LEMMA EndGetLoop ==
  ASSUME RInv, WInv, Round, UNCHANGED readerVars, EndLoop,
         pc \in {"getGates", "getInpSizes", "getOutWLabels"}
  PROVE  WInv'
<1>1. /\ i' = 0 /\ UNCHANGED <<counter, buffer, hidden, damaged, EC>>
      /\ \/ pc = "getGates" /\ i = EC.numGates /\ pc' = "getInpSizes"
         \/ pc = "getInpSizes" /\ i = EC.num_of_clients /\ pc' = "getOutWLabels"
         \/ pc = "getOutWLabels" /\ i = EC.outSize /\ pc' = "garble"
  BY EndedLoop
<1>2. /\ rpc = "done" /\ C' = C /\ counter \in Nat \ {0} /\ Formed(C)
      /\ C.numGates \in Nat /\ C.num_of_clients \in Nat /\ C.outSize \in Nat
  BY AtWork
<1>3. /\ EC = Circ(C.numGates, C.numWires, C.num_of_clients, C.inpSize, EC.inpSizes,
                   C.outSize, EC.gates, EC.outWLabels)
      /\ EC.gates = [k \in Index(C.numGates) |-> EC.gates[k]]
      /\ EC.inpSizes = [k \in Index(C.num_of_clients) |-> EC.inpSizes[k]]
      /\ EC.outWLabels = [k \in Index(C.outSize) |-> EC.outWLabels[k]]
      /\ EC.numGates = C.numGates /\ EC.num_of_clients = C.num_of_clients
      /\ EC.outSize = C.outSize
  BY Getting
<1>4. pc' \in {"getInpSizes", "getOutWLabels", "garble"}
  BY <1>1
<1>5. Position'
  <2>0. EC.numGates = C.numGates /\ EC.num_of_clients = C.num_of_clients
    BY <1>3
  <2>1. CASE pc = "getGates"
    <3>1. counter = GateAt(C.numGates) /\ pc' = "getInpSizes"
      BY <1>1, <2>0, <2>1 DEF WInv, Position
    <3> QED
      BY <1>1, <1>2, <3>1 DEF Position, SizeAt, GateAt, GATE
  <2>2. CASE pc = "getInpSizes"
    <3>1. counter = SizeAt(C.num_of_clients) /\ pc' = "getOutWLabels"
      BY <1>1, <2>0, <2>2 DEF WInv, Position
    <3> QED
      BY <1>1, <1>2, <3>1 DEF Position, LabelAt, SizeAt, GateAt, GATE
  <2>3. CASE pc = "getOutWLabels"
    BY <1>1, <2>3 DEF Position
  <2> QED
    BY <1>1, <2>1, <2>2, <2>3
<1>6. ECForm'
  BY <1>1, <1>2, <1>3 DEF ECForm
<1>7. ASSUME ProgramSize(C) <= LIMIT
      PROVE  /\ pc = "getGates" => EC.gates = C.gates
             /\ pc = "getInpSizes" => EC.gates = C.gates /\ EC.inpSizes = C.inpSizes
             /\ pc = "getOutWLabels" => EC = C
  <2>1. /\ C.gates = [k \in Index(C.numGates) |-> C.gates[k]]
        /\ C.inpSizes = [k \in Index(C.num_of_clients) |-> C.inpSizes[k]]
        /\ C.outWLabels = [k \in Index(C.outSize) |-> C.outWLabels[k]]
        /\ C = Circ(C.numGates, C.numWires, C.num_of_clients, C.inpSize, C.inpSizes,
                    C.outSize, C.gates, C.outWLabels)
    BY <1>2 DEF Formed
  <2>2. CASE pc = "getGates"
    <3>1. Agree(EC.gates, C.gates, C.numGates)
      BY <1>1, <1>2, <1>3, <1>7, <2>2 DEF WInv, Enclaves
    <3>2. EC.gates = C.gates
      BY <1>3, <2>1, <3>1, AgreeAll
    <3> QED
      BY <2>2, <3>2
  <2>3. CASE pc = "getInpSizes"
    <3>1. EC.gates = C.gates /\ Agree(EC.inpSizes, C.inpSizes, C.num_of_clients)
      BY <1>1, <1>2, <1>3, <1>7, <2>3 DEF WInv, Enclaves
    <3>2. EC.inpSizes = C.inpSizes
      BY <1>3, <2>1, <3>1, AgreeAll
    <3> QED
      BY <2>3, <3>1, <3>2
  <2>4. CASE pc = "getOutWLabels"
    <3>1. /\ EC.gates = C.gates /\ EC.inpSizes = C.inpSizes
          /\ Agree(EC.outWLabels, C.outWLabels, C.outSize)
      BY <1>1, <1>2, <1>3, <1>7, <2>4 DEF WInv, Enclaves
    <3>2. EC.outWLabels = C.outWLabels
      BY <1>3, <2>1, <3>1, AgreeAll
    <3>3. EC = C
      BY <1>3, <2>1, <3>1, <3>2
    <3> QED
      BY <2>4, <3>3
  <2> QED
    BY <2>2, <2>3, <2>4
<1>8. Enclaves'
  <2>1. ASSUME ProgramSize(C) <= LIMIT
        PROVE  /\ pc' = "getInpSizes" => EC'.gates = C.gates
               /\ pc' = "getOutWLabels" => EC'.gates = C.gates /\ EC'.inpSizes = C.inpSizes
               /\ pc' = "garble" => EC' = C
    BY <1>1, <1>7, <2>1
  <2>2. \A f, g : Agree(f, g, 0)
    BY DEF Agree, Index
  <2> QED
    BY <1>1, <1>2, <1>4, <1>6, <2>1, <2>2 DEF Enclaves, PutGPlaces
<1>9. pc \in GetPlaces /\ pc # "getHeader" /\ pc' \in GetPlaces \cup {"garble"}
      /\ pc' # "getHeader" /\ i' \in Nat /\ counter' \in Nat \ {0}
  BY <1>1, <1>2 DEF GetPlaces
<1> QED
  BY <1>1, <1>5, <1>8, <1>9, ProgramGot

LEMMA EndPutGLoop ==
  ASSUME RInv, WInv, Round, UNCHANGED readerVars, EndLoop,
         pc \in {"putGGates", "putGOutWLabels"}
  PROVE  WInv'
<1>1. /\ i' = 0 /\ UNCHANGED <<counter, buffer, hidden, damaged, EC, GC>>
      /\ \/ pc = "putGGates" /\ i = EC.numGates /\ pc' = "putGOutWLabels"
         \/ pc = "putGOutWLabels" /\ i = GC.outSize /\ pc' = "putKeys"
  BY EndedLoop
<1>2. /\ rpc' = "done" /\ C' = C /\ counter \in Nat \ {0} /\ damaged \in BOOLEAN
      /\ C.numGates \in Nat /\ C.outSize \in Nat
      /\ buffer = [a \in Index(LIMIT) |-> buffer[a]]
  BY AtWork
<1>3. /\ EC.numGates = C.numGates /\ GC.outSize = C.outSize /\ ECForm /\ GCForm
      /\ hidden = {} /\ Holds(buffer, GProgramWords(GC), counter)
      /\ (damaged <=> (ProgramSize(C) > LIMIT \/ counter > LIMIT))
  BY PuttingG DEF PutGPlaces, LikeIn
<1>4. pc' \in {"putGOutWLabels", "putKeys"}
  BY <1>1
<1>5. WKinds'
  BY <1>1, <1>2, <1>4 DEF WKinds, WPlaces, PutGPlaces
<1>6. Position'
  <2>1. CASE pc = "putGGates"
    BY <1>1, <1>2, <1>3, <2>1 DEF WInv, Position, GLabelAt, GGateAt, GGATE
  <2>2. CASE pc = "putGOutWLabels"
    BY <1>1, <1>2, <1>3, <2>2 DEF WInv, Position, KeysAt, GLabelAt, GGateAt, GGATE
  <2> QED
    BY <1>1, <2>1, <2>2
<1>7. Damage'
  BY <1>1, <1>2, <1>3, <1>4 DEF Damage, PutPlaces, GetPlaces, PutGPlaces, GetGPlaces
<1>8. Contents'
  BY <1>1, <1>2, <1>3, <1>4 DEF Contents, PutPlaces, GetPlaces, PutGPlaces, GetGPlaces
<1>9. Enclaves' /\ Owners'
  <2>1. ECForm' /\ GCForm'
    BY <1>1, <1>2, <1>3 DEF ECForm, GCForm, Garbled
  <2> QED
    BY <1>4, <2>1 DEF Enclaves, Owners, PutGPlaces, GetGPlaces
<1> QED
  BY <1>5, <1>6, <1>7, <1>8, <1>9 DEF WInv

LEMMA EndGetGLoop ==
  ASSUME RInv, WInv, Round, UNCHANGED readerVars, EndLoop,
         pc \in {"getGGates", "getGOutWLabels"}
  PROVE  WInv'
<1>1. /\ i' = 0 /\ UNCHANGED <<counter, buffer, hidden, damaged, GC, OGC>>
      /\ \/ pc = "getGGates" /\ i = OGC.numGates /\ pc' = "getGOutWLabels"
         \/ pc = "getGOutWLabels" /\ i = OGC.outSize /\ pc' = "getKeys"
  BY EndedLoop
<1>2. /\ rpc = "done" /\ rpc' = "done" /\ C' = C /\ counter \in Nat \ {0}
      /\ C.numGates \in Nat /\ C.outSize \in Nat
  BY AtWork
<1>3. /\ OGC = Garbled(OGC.ggates, OGC.outWLabels, OGC.ginput, OGC.fixedkey)
      /\ OGC.ggates = [k \in Index(C.numGates) |-> OGC.ggates[k]]
      /\ OGC.outWLabels = [k \in Index(C.outSize) |-> OGC.outWLabels[k]]
      /\ OGC.numGates = C.numGates /\ OGC.outSize = C.outSize /\ GCForm
  BY GettingG
<1>4. Position'
  <2>1. CASE pc = "getGGates"
    BY <1>1, <1>2, <1>3, <2>1 DEF WInv, Position, GLabelAt, GGateAt, GGATE
  <2>2. CASE pc = "getGOutWLabels"
    BY <1>1, <1>2, <1>3, <2>2 DEF WInv, Position, KeysAt, GLabelAt, GGateAt, GGATE
  <2> QED
    BY <1>1, <2>1, <2>2
<1>5. GCForm' /\ OGCForm'
  BY <1>1, <1>2, <1>3 DEF GCForm, OGCForm, Garbled
<1>6. ASSUME GProgramSize(C) <= LIMIT
      PROVE  /\ OGC.ggates = GC.ggates
             /\ pc = "getGOutWLabels" => OGC.outWLabels = GC.outWLabels
  <2>1. /\ GC.ggates = [k \in Index(C.numGates) |-> GC.ggates[k]]
        /\ GC.outWLabels = [k \in Index(C.outSize) |-> GC.outWLabels[k]]
    BY <1>3 DEF GCForm
  <2>2. CASE pc = "getGGates"
    <3>1. Agree(OGC.ggates, GC.ggates, C.numGates)
      BY <1>1, <1>2, <1>3, <1>6, <2>2 DEF WInv, Owners
    <3>2. OGC.ggates = GC.ggates
      BY <1>3, <2>1, <3>1, AgreeAll
    <3> QED
      BY <2>2, <3>2
  <2>3. CASE pc = "getGOutWLabels"
    <3>1. OGC.ggates = GC.ggates /\ Agree(OGC.outWLabels, GC.outWLabels, C.outSize)
      BY <1>1, <1>2, <1>3, <1>6, <2>3 DEF WInv, Owners
    <3>2. OGC.outWLabels = GC.outWLabels
      BY <1>3, <2>1, <3>1, AgreeAll
    <3> QED
      BY <3>1, <3>2
  <2> QED
    BY <2>2, <2>3
<1>7. Owners'
  <2>1. \A f, g : Agree(f, g, 0)
    BY DEF Agree, Index
  <2>2. pc' \in {"getGOutWLabels", "getKeys"}
    BY <1>1
  <2>3. CASE pc' = "getGOutWLabels"
    BY <1>1, <1>2, <1>5, <1>6, <2>1, <2>3 DEF Owners
  <2>4. CASE pc' = "getKeys"
    BY <1>1, <1>2, <1>5, <1>6, <2>4 DEF Owners
  <2> QED
    BY <2>2, <2>3, <2>4
<1>8. pc \in GetGPlaces /\ pc # "getGHeader" /\ pc' \in GetGPlaces \cup {"done"}
      /\ pc' # "getGHeader" /\ i' \in Nat /\ counter' \in Nat \ {0}
  BY <1>1, <1>2 DEF GetGPlaces
<1> QED
  BY <1>1, <1>4, <1>7, <1>8, GProgramGot

LEMMA CrashStep ==
  ASSUME RInv, WInv, Round, UNCHANGED readerVars, Crash
  PROVE  WInv'
<1>1. pc' = "crashed" /\ UNCHANGED <<i, counter, buffer, hidden, damaged>>
  BY DEF Crash
<1>2. /\ rpc' = "done" /\ i \in Nat /\ counter \in Nat \ {0} /\ damaged \in BOOLEAN
      /\ buffer = [a \in Index(LIMIT) |-> buffer[a]]
  BY AtWork
<1>3. WKinds'
  BY <1>1, <1>2 DEF WKinds, WPlaces
<1>4. Position' /\ Damage' /\ Contents' /\ Enclaves' /\ Owners'
  BY <1>1 DEF Position, Damage, Contents, Enclaves, Owners,
              PutPlaces, GetPlaces, PutGPlaces, GetGPlaces
<1> QED
  BY <1>3, <1>4 DEF WInv

LEMMA RoundStep ==
  ASSUME RInv, WInv, Round, UNCHANGED readerVars
  PROVE  WInv'
<1>1. CASE EndLoop
  BY <1>1, EndedLoop, EndPutLoop, EndGetLoop, EndPutGLoop, EndGetGLoop
<1>2. CASE PutHeader \/ PutGate \/ PutInpSize \/ PutOutWLabel \/ PutSize
  BY <1>2, PutHeaderStep, PutGateStep, PutInpSizeStep, PutOutWLabelStep, PutSizeStep
<1>3. CASE GetHeader \/ GetGate \/ GetInpSize \/ GetOutWLabel \/ Garble
  BY <1>3, GetHeaderStep, GetGateStep, GetInpSizeStep, GetOutWLabelStep, GarbleStep
<1>4. CASE PutGHeader \/ PutGGate \/ PutGOutWLabel \/ PutKeys \/ PutGSize
  BY <1>4, PutGHeaderStep, PutGGateStep, PutGOutWLabelStep, PutKeysStep, PutGSizeStep
<1>5. CASE GetGHeader \/ GetGGate \/ GetGOutWLabel \/ GetKeys
  BY <1>5, GetGHeaderStep, GetGGateStep, GetGOutWLabelStep, GetKeysStep
<1>6. CASE Crash
  BY <1>6, CrashStep
<1> QED
  BY <1>1, <1>2, <1>3, <1>4, <1>5, <1>6 DEF Round

(* What is the same stays right; before the program is read, only C is     *)
(* read of what the reader changes, and not here.                          *)
LEMMA WireStep ==
  ASSUME RInv, WInv, [Next]_vars
  PROVE  WInv'
<1>1. CASE readBRISCircuit /\ UNCHANGED wireVars
  <2>1. UNCHANGED <<pc, i, counter, buffer, hidden, damaged>>
    BY <1>1 DEF wireVars
  <2>2. rpc # "done"
    BY <1>1 DEF readBRISCircuit, Open, ReadMeta, ReadNumInputs, ReadInpSize, ReadOutSize,
                ReadGateSize, ReadOneInput, ReadTwoInputs, LabelOutputs
  <2>3. pc = "putHeader" /\ pc' = "putHeader"
    BY <2>1, <2>2 DEF WInv, WKinds
  <2>4. WKinds'
    BY <2>1, <2>3 DEF WInv, WKinds
  <2>5. Position'
    BY <2>1, <2>3 DEF WInv, Position
  <2>6. Damage' /\ Contents' /\ Enclaves' /\ Owners'
    BY <2>3 DEF Damage, Contents, Enclaves, Owners,
                PutPlaces, GetPlaces, PutGPlaces, GetGPlaces
  <2> QED
    BY <2>4, <2>5, <2>6 DEF WInv
<1>2. CASE Round /\ UNCHANGED readerVars
  BY <1>2, RoundStep
<1>3. CASE UNCHANGED vars
  <2>1. UNCHANGED <<pc, i, counter, buffer, hidden, damaged, EC, GC, OGC, rpc, C>>
    BY <1>3 DEF vars, wireVars, readerVars
  <2>2. WKinds' /\ Position' /\ Damage'
    BY <2>1 DEF WInv, WKinds, Position, Damage, Fits, GateAt, SizeAt, LabelAt, GGateAt,
                GLabelAt, KeysAt
  <2>3. Contents'
    BY <2>1 DEF WInv, Contents
  <2>4. Enclaves'
    BY <2>1 DEF WInv, Enclaves, ECForm
  <2>5. Owners'
    BY <2>1 DEF WInv, Owners, GCForm, OGCForm, Garbled
  <2> QED
    BY <2>2, <2>3, <2>4, <2>5 DEF WInv
<1> QED
  BY <1>1, <1>2, <1>3 DEF Next, Returned

LEMMA WireInvariant == Spec => [](RInv /\ WInv)
<1>1. Init => WInv
  <2> SUFFICES ASSUME Init
               PROVE  WInv
    OBVIOUS
  <2>1. pc = "putHeader" /\ i = 0 /\ counter = 1 /\ hidden = {} /\ damaged = FALSE
        /\ buffer = Blank
    BY DEF Init
  <2>2. WKinds
    <3>1. buffer = [a \in Index(LIMIT) |-> buffer[a]]
      BY <2>1 DEF Blank
    <3>2. damaged \in BOOLEAN /\ ~damaged
      BY <2>1
    <3>3. pc \in WPlaces
      BY <2>1 DEF WPlaces
    <3>4. i \in Nat /\ counter \in Nat \ {0}
      <4>1. i = 0 /\ counter = 1
        BY <2>1
      <4> QED
        BY <4>1
    <3> QED
      BY <2>1, <3>1, <3>2, <3>3, <3>4 DEF WKinds
  <2>3. Position /\ Damage /\ Contents /\ Enclaves /\ Owners
    BY <2>1 DEF Position, Damage, Contents, Enclaves, Owners,
                PutPlaces, GetPlaces, PutGPlaces, GetGPlaces
  <2> QED
    BY <2>2, <2>3 DEF WInv
<1>2. RInv /\ WInv /\ [Next]_vars => WInv'
  BY WireStep
<1> QED
  BY <1>1, <1>2, ReaderInvariant, PTL DEF Spec

-----------------------------------------------------------------------------
(* ProgramArrives: what the enclave garbles (decryptProgram's circuit) is  *)
(* what a whole file describes, if the program fits in PROGLIMIT.          *)
THEOREM ProgramsArrive == Spec => []ProgramArrives
<1>1. RInv /\ WInv => ProgramArrives
  <2> SUFFICES ASSUME RInv, WInv, Intact
               PROVE  /\ rpc \notin {"exit", "undefined"}
                      /\ rpc = "done" => C = file.circuit
                      /\ pc = "garble" /\ ProgramSize(C) <= LIMIT => EC = C
    BY DEF ProgramArrives
  <2>1. rpc \notin {"exit", "undefined"}
    BY IntactIsTaken DEF RInv, RTypeOK
  <2>2. rpc = "done" => C = file.circuit
    BY CircuitRead
  <2>3. pc = "garble" /\ ProgramSize(C) <= LIMIT => EC = C
    BY DEF WInv, WKinds, Enclaves
  <2> QED
    BY <2>1, <2>2, <2>3
<1> QED
  BY <1>1, WireInvariant, PTL

(* GarbledArrives: the garbled circuit and input that decryptGProgram      *)
(* takes from the bytes are those that EncapsulateGProgram put there, if   *)
(* both messages fit.                                                      *)
THEOREM GarbledCircuitsArrive == Spec => []GarbledArrives
<1>1. WInv => GarbledArrives
  BY DEF WInv, WKinds, Owners, GarbledArrives, Fits
<1> QED
  BY <1>1, WireInvariant, PTL

(* DamagedUnlessFits: the two sizes that the code never compares with      *)
(* PROGLIMIT decide alone whether a round writes past a buffer.            *)
THEOREM DamageIsForTooLarge == Spec => []DamagedUnlessFits
<1>1. WInv => DamagedUnlessFits
  BY DEF WInv, Damage, DamagedUnlessFits
<1> QED
  BY <1>1, WireInvariant, PTL
=============================================================================
