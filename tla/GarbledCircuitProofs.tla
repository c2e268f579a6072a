------------------------- MODULE GarbledCircuitProofs -------------------------
(***************************************************************************)
(* Proofs about GarbledCircuit, for all circuits, keys and sizes of block. *)
(***************************************************************************)
EXTENDS GarbledCircuit, TLAPS

(* The shift distances of a truth table (evalGate). *)
LEMMA PowersOfTwo ==
  ASSUME NEW n \in 0..3
  PROVE  2^n \in {1, 2, 4, 8}
<1>1. n = 0 \/ n = 1 \/ n = 2 \/ n = 3
  OBVIOUS
<1>2. 2^0 = 1 /\ 2^1 = 2 /\ 2^2 = 4 /\ 2^3 = 8
  OBVIOUS
<1> QED
  BY <1>1, <1>2, Zenon

(* The value of a gate is a bit (evalGate). *)
LEMMA EvalGateIsBit ==
  ASSUME NEW G, G.T \in 0..15, NEW a \in Bit, NEW b \in Bit
  PROVE  evalGate(G, a, b) \in Bit
<1>1. a + a + b \in 0..3
  BY DEF Bit
<1> DEFINE d == 2^(a + a + b)
<1>2. d \in {1, 2, 4, 8}
  BY <1>1, PowersOfTwo
<1> HIDE DEF d
<1>3. (G.T \div d) % 2 \in {0, 1}
  BY <1>2
<1> QED
  BY <1>3 DEF evalGate, Bit, d

(* The wires driven by one more gate. *)
LEMMA DrivenStep ==
  ASSUME NEW c, NEW n \in Nat
  PROVE  /\ Driven(c, 0) = Index(c.inpSize)
         /\ Driven(c, n + 1) = Driven(c, n) \cup {c.gates[n].out}
<1>1. Index(0) = {} /\ Index(n + 1) = Index(n) \cup {n}
  BY DEF Index
<1> QED
  BY <1>1 DEF Driven

LEMMA ValidGate ==
  ASSUME NEW c, ValidCircuit(c), NEW n \in Index(c.numGates)
  PROVE  LET g == c.gates[n] IN
         /\ g.a \in Wires(c) /\ g.b \in Wires(c) /\ g.out \in Wires(c)
         /\ g.T \in 0..15
  BY DEF ValidCircuit, Gate

LEMMA DrivenAreWires ==
  ASSUME NEW c, ValidCircuit(c), NEW n \in Nat, n <= c.numGates
  PROVE  Driven(c, n) \subseteq Wires(c)
<1>1. c.numGates \in Nat /\ c.numWires \in Nat /\ c.inpSize \in Nat /\ c.inpSize <= c.numWires
  BY DEF ValidCircuit
<1>2. \A j \in Index(n) : c.gates[j].out \in Wires(c)
  BY <1>1, ValidGate DEF Index
<1>3. Index(c.inpSize) \subseteq Wires(c)
  BY <1>1 DEF Index, Wires
<1> QED
  BY <1>2, <1>3 DEF Driven

(* Exclusive or of blocks is a block. *)
LEMMA XorIsBlock ==
  ASSUME NEW A \in Block, NEW B \in Block
  PROVE  xorKeys(A, B) \in Block
  BY DEF xorKeys, Block

LEMMA IntBitsIsBlock ==
  ASSUME NEW n
  PROVE  IntBits(n) \in Block
  BY BitsAssumption DEF IntBits, Block

LEMMA EncAESIsBlock ==
  ASSUME NEW k \in Block, NEW msg, NEW part \in SUBSET Bits
  PROVE  encAES(k, msg, part) \in Block
  BY DEF encAES, Block

(* In counter mode the block K that hides a row cancels out: with it goes  *)
(* whatever the unwritten bytes of T held (fixedAESKeyEnc).                *)
LEMMA EncryptionIsXor ==
  ASSUME NEW A \in Block, NEW B \in Block, NEW n, NEW X \in Block,
         NEW k \in Block, NEW tail \in Tails
  PROVE  fixedAESKeyEnc(A, B, n, X, k, tail) = xorKeys(Stream[k], X)
<1> DEFINE K == xorKeys(xorKeys(A, B), IntBits(n) \cup tail)
<1>1. IntBits(n) \cup tail \in Block
  BY IntBitsIsBlock, TailsAssumption DEF Block
<1>2. K \in Block
  BY <1>1, XorIsBlock
<1>3. Stream[k] \in Block
  BY StreamAssumption
<1> HIDE DEF K
<1>4. encAES(k, K, Bits) = xorKeys(K, Stream[k])
  BY <1>2, <1>3 DEF encAES, xorKeys, Block
<1>5. xorKeys(xorKeys(K, Stream[k]), xorKeys(K, X)) = xorKeys(Stream[k], X)
  BY DEF xorKeys
<1> QED
  BY <1>4, <1>5 DEF fixedAESKeyEnc, K

(* Whatever the inputs and the unwritten bytes were at encryption and are  *)
(* at decryption, the row gives back what was put in (fixedAESKeyDec).     *)
LEMMA DecryptionInverts ==
  ASSUME NEW A \in Block, NEW B \in Block, NEW n, NEW X \in Block, NEW k \in Block,
         NEW t1 \in Tails, NEW t2 \in Tails
  PROVE  fixedAESKeyDec(A, B, n, fixedAESKeyEnc(A, B, n, X, k, t1), k, t2) = X
<1>1. Stream[k] \in Block
  BY StreamAssumption
<1>2. xorKeys(Stream[k], X) \in Block
  BY <1>1, XorIsBlock
<1>3. fixedAESKeyDec(A, B, n, xorKeys(Stream[k], X), k, t2)
        = fixedAESKeyEnc(A, B, n, xorKeys(Stream[k], X), k, t2)
  BY DEF fixedAESKeyDec, fixedAESKeyEnc
<1>4. @ = xorKeys(Stream[k], xorKeys(Stream[k], X))
  BY <1>2, EncryptionIsXor
<1>5. xorKeys(Stream[k], xorKeys(Stream[k], X)) = X
  BY DEF xorKeys
<1> QED
  BY <1>3, <1>4, <1>5, EncryptionIsXor

(* Garblings are blocks, and the two garblings of a wire differ in their   *)
(* select bits (writeLastBit): "point and permute" has four distinct rows. *)
LEMMA GarblingsDiffer ==
  ASSUME NEW z \in Block, NEW o \in Block, NEW w
  PROVE  /\ \A v \in Bit : Garbling(z, o, w, v) \in Block
         /\ readLastBit(Garbling(z, o, w, 0)) \in Bit
         /\ readLastBit(Garbling(z, o, w, 1)) = 1 - readLastBit(Garbling(z, o, w, 0))
<1> DEFINE g0 == ZeroGarbling(z, w)
           e1 == encAES(o, IntBits(w), LowBits)
<1>1. g0 \in Block /\ e1 \in Block
  BY EncAESIsBlock, BitsAssumption DEF ZeroGarbling
<1>2. OneGarbling(z, o, w) = writeLastBit(e1, 1 - readLastBit(g0))
  BY DEF OneGarbling
<1>3. Garbling(z, o, w, 0) = g0 /\ Garbling(z, o, w, 1) = OneGarbling(z, o, w)
  BY DEF Garbling
<1> HIDE DEF g0, e1
<1>4. writeLastBit(e1, 1 - readLastBit(g0)) \in Block
  BY <1>1, BitsAssumption DEF writeLastBit, readLastBit, xorKeys, Block
<1>5. readLastBit(writeLastBit(e1, 1 - readLastBit(g0))) = 1 - readLastBit(g0)
  BY DEF writeLastBit, readLastBit, xorKeys
<1>6. readLastBit(g0) \in Bit
  BY DEF readLastBit, Bit
<1> QED
  BY <1>1, <1>2, <1>3, <1>4, <1>5, <1>6 DEF Bit

(* The table of garbleGate, of the four rows e00 .. e11, when the select   *)
(* bits of the garblings of 0 on the two input wires are la and lb.        *)
Table(la, lb, e00, e01, e10, e11) ==
  [[n \in 0..3 |-> {}] EXCEPT ![2 * la + lb] = e00,
                             ![2 * la + (1 - lb)] = e01,
                             ![2 * (1 - la) + lb] = e10,
                             ![2 * (1 - la) + (1 - lb)] = e11]

(* Each row is where evalGarbledGate looks for it. *)
LEMMA RowsInPlace ==
  ASSUME NEW la \in Bit, NEW lb \in Bit, NEW B,
         NEW e00 \in B, NEW e01 \in B, NEW e10 \in B, NEW e11 \in B
  PROVE  LET c == Table(la, lb, e00, e01, e10, e11) IN
         /\ c[2 * la + lb] = e00
         /\ c[2 * la + (1 - lb)] = e01
         /\ c[2 * (1 - la) + lb] = e10
         /\ c[2 * (1 - la) + (1 - lb)] = e11
         /\ c \in [0..3 -> B]
<1>1. CASE la = 0 /\ lb = 0
  BY <1>1 DEF Table
<1>2. CASE la = 0 /\ lb = 1
  BY <1>2 DEF Table
<1>3. CASE la = 1 /\ lb = 0
  BY <1>3 DEF Table
<1>4. CASE la = 1 /\ lb = 1
  BY <1>4 DEF Table
<1> QED
  BY <1>1, <1>2, <1>3, <1>4 DEF Bit

(* A garbled gate takes the garblings of two values to the garbling of the *)
(* gate's value on them, whatever T holds beyond its first four bytes in   *)
(* the enclave and at the owner (garbleGate, evalGarbledGate).             *)
LEMMA GarbledGateCorrect ==
  ASSUME NEW g, g.T \in 0..15, NEW n, NEW z \in Block, NEW o \in Block,
         NEW k \in Block, NEW tail \in [Bit -> [Bit -> Tails]],
         NEW gg, gg = garbleGate(g, n, z, o, k, tail)
  PROVE  /\ gg \in [a : {g.a}, b : {g.b}, out : {g.out}, ciphers : [0..3 -> Block]]
         /\ GarbledCorrectly(gg, g, n, z, o, k)
<1> DEFINE lab(w, v) == Garbling(z, o, w, v)
           X(x, y) == lab(g.out, evalGate(g, x, y))
           enc(x, y) == fixedAESKeyEnc(lab(g.a, x), lab(g.b, y), n, X(x, y), k, tail[x][y])
           la == readLastBit(lab(g.a, 0))
           lb == readLastBit(lab(g.b, 0))
           c == Table(la, lb, enc(0, 0), enc(0, 1), enc(1, 0), enc(1, 1))
<1>1. /\ la \in Bit /\ lb \in Bit
      /\ readLastBit(lab(g.a, 1)) = 1 - la
      /\ readLastBit(lab(g.b, 1)) = 1 - lb
      /\ \A w : \A v \in Bit : lab(w, v) \in Block
  BY GarblingsDiffer
<1>2. gg = [a |-> g.a, b |-> g.b, out |-> g.out, ciphers |-> c]
  BY <1>1, Zenon DEF garbleGate, Table
<1>3. \A x \in Bit, y \in Bit : X(x, y) \in Block
  BY <1>1, EvalGateIsBit
<1>4. \A x \in Bit, y \in Bit : tail[x][y] \in Tails
  OBVIOUS
<1>5. \A x \in Bit, y \in Bit : enc(x, y) \in Block
  BY <1>1, <1>3, <1>4, EncryptionIsXor, XorIsBlock, StreamAssumption
<1> HIDE DEF lab, X, enc, la, lb, c
<1>6. /\ c[2 * la + lb] = enc(0, 0)
      /\ c[2 * la + (1 - lb)] = enc(0, 1)
      /\ c[2 * (1 - la) + lb] = enc(1, 0)
      /\ c[2 * (1 - la) + (1 - lb)] = enc(1, 1)
      /\ c \in [0..3 -> Block]
  BY <1>1, <1>5, RowsInPlace DEF c, Bit
<1>8. ASSUME NEW x \in Bit, NEW y \in Bit, NEW t \in Tails
      PROVE  evalGarbledGate(gg, n, lab(g.a, x), lab(g.b, y), k, t) = X(x, y)
  <2>1. c[2 * readLastBit(lab(g.a, x)) + readLastBit(lab(g.b, y))] = enc(x, y)
    BY <1>1, <1>6 DEF la, lb, Bit
  <2>2. evalGarbledGate(gg, n, lab(g.a, x), lab(g.b, y), k, t)
          = fixedAESKeyDec(lab(g.a, x), lab(g.b, y), n, enc(x, y), k, t)
    BY <1>2, <2>1 DEF evalGarbledGate
  <2> QED
    BY <1>1, <1>3, <1>4, <2>2, DecryptionInverts DEF enc
<1> QED
  BY <1>2, <1>6, <1>8 DEF lab, X, GarbledCorrectly

-----------------------------------------------------------------------------
(* The inductive invariant. *)

IInv == TypeOK /\ GarblingInv

(* What the proofs use of a circuit. *)
LEMMA CircuitFacts ==
  ASSUME NEW c \in Circuits
  PROVE  /\ c.numGates \in Nat /\ c.numWires \in Nat
         /\ c.inpSize \in Nat /\ c.outSize \in Nat
         /\ c.inpSize <= c.numWires
         /\ c.gates \in [Index(c.numGates) -> Gate(c)]
         /\ c.outWLabels \in [Index(c.outSize) -> Wires(c)]
         /\ \A n \in Index(c.numGates) :
              c.gates[n].a \in Driven(c, n) /\ c.gates[n].b \in Driven(c, n)
         /\ \A n \in Index(c.outSize) : c.outWLabels[n] \in Driven(c, c.numGates)
  BY CircuitsAssumption DEF ValidCircuit

LEMMA InitInv == Init => IInv
<1> SUFFICES ASSUME Init PROVE IInv
  OBVIOUS
<1> USE DEF Init
<1>1. TypeOK
  BY CircuitFacts, GenKeysAssumption, BitsAssumption
  DEF TypeOK, Block, Bit, NoGate, Index
<1>2. LoopBound
  BY CircuitFacts DEF LoopBound
<1>3. GatesDone = 0 /\ InputsDone = 0 /\ OutputsDone = 0 /\ CopiesDone = 0
      /\ DecodesDone = 0 /\ DrivenNow = {}
  BY DEF GatesDone, InputsDone, OutputsDone, CopiesDone, DecodesDone, DrivenNow,
         Progress, Garbling0
<1>4. Index(0) = {}
  BY DEF Index
<1> QED
  BY <1>1, <1>2, <1>3, <1>4
  DEF IInv, GarblingInv, GatesCorrect, InputsCorrect, OutGarblingsCorrect,
      WiresGarbled, GoutputCorrect, DecodedCorrect

(* The phases. *)
LEMMA EndLoopInv ==
  ASSUME IInv,
         \/ EndGarbleGates \/ EndGarbleInput \/ EndGarbleOutput
         \/ EndLoad \/ EndGates \/ EndDecode
  PROVE  IInv'
<1> USE DEF IInv, GarblingInv, EndLoop, keys
<1>1. TypeOK'
  BY DEF TypeOK, EndGarbleGates, EndGarbleInput, EndGarbleOutput, EndLoad, EndGates,
         EndDecode
<1>2. LoopBound'
  BY CircuitFacts DEF TypeOK, LoopBound, EndGarbleGates, EndGarbleInput, EndGarbleOutput,
         EndLoad, EndGates, EndDecode
<1>3. /\ GatesDone' = GatesDone /\ InputsDone' = InputsDone
      /\ OutputsDone' = OutputsDone /\ CopiesDone' = CopiesDone
      /\ DecodesDone' = DecodesDone
  BY DEF GatesDone, InputsDone, OutputsDone, CopiesDone, DecodesDone, Progress,
         Garbling0, EndGarbleGates, EndGarbleInput, EndGarbleOutput, EndLoad, EndGates,
         EndDecode
<1>4. DrivenNow' = DrivenNow
  <2>1. Index(0) = {} /\ Driven(C, 0) = Index(C.inpSize)
    BY DrivenStep DEF Index
  <2>2. CASE EndGarbleGates \/ EndGarbleInput
    BY <2>2 DEF DrivenNow, Garbling0, EndGarbleGates, EndGarbleInput
  <2>3. CASE EndGarbleOutput
    BY <2>1, <2>3 DEF DrivenNow, Garbling0, EndGarbleOutput
  <2>4. CASE EndLoad
    BY <2>1, <2>4 DEF DrivenNow, Garbling0, EndLoad
  <2>5. CASE EndGates
    BY <2>5 DEF DrivenNow, Garbling0, EndGates
  <2>6. CASE EndDecode
    BY <2>6 DEF DrivenNow, Garbling0, EndDecode
  <2> QED
    BY <2>2, <2>3, <2>4, <2>5, <2>6
<1>5. UNCHANGED <<keys, ggates, garbledInput, outGarblings, wires, goutput, output>>
  BY DEF EndGarbleGates, EndGarbleInput, EndGarbleOutput, EndLoad, EndGates, EndDecode
<1>6. pc' # "failed" /\ pc # "failed"
  BY DEF EndGarbleGates, EndGarbleInput, EndGarbleOutput, EndLoad, EndGates, EndDecode
<1>7. GatesCorrect'
  BY <1>3, <1>5 DEF GatesCorrect
<1>8. InputsCorrect'
  BY <1>3, <1>5 DEF InputsCorrect
<1>9. OutGarblingsCorrect'
  BY <1>3, <1>5 DEF OutGarblingsCorrect
<1>10. WiresGarbled'
  BY <1>4, <1>5 DEF WiresGarbled, IsGarbling
<1>11. GoutputCorrect'
  BY <1>3, <1>5, <1>6 DEF GoutputCorrect, IsGarbling
<1>12. DecodedCorrect'
  BY <1>3, <1>5 DEF DecodedCorrect, Ungarble
<1> QED
  BY <1>1, <1>2, <1>7, <1>8, <1>9, <1>10, <1>11, <1>12

LEMMA GarbleGatesInv == IInv /\ GarbleGates => IInv'
<1> SUFFICES ASSUME IInv, GarbleGates PROVE IInv'
  OBVIOUS
<1> USE DEF IInv, GarblingInv, keys
<1>1. PICK tail \in [Bit -> [Bit -> Tails]] :
        ggates' = [ggates EXCEPT ![i] = garbleGate(C.gates[i], i, zk, ok, fixedKey, tail)]
  BY DEF GarbleGates
<1>2. /\ C \in Circuits /\ i \in Index(C.numGates) /\ i \in Nat /\ i' = i + 1
      /\ pc = "garbleGates" /\ pc' = "garbleGates"
      /\ UNCHANGED <<keys, garbledInput, outGarblings, wires, goutput, output>>
  BY CircuitFacts DEF GarbleGates, TypeOK, Index
<1> DEFINE g == C.gates[i]
           gg == garbleGate(g, i, zk, ok, fixedKey, tail)
<1>3. /\ g.a \in Wires(C) /\ g.b \in Wires(C) /\ g.out \in Wires(C) /\ g.T \in 0..15
  BY <1>2, ValidGate, CircuitsAssumption
<1>4. /\ gg \in [a : {g.a}, b : {g.b}, out : {g.out}, ciphers : [0..3 -> Block]]
      /\ GarbledCorrectly(gg, g, i, zk, ok, fixedKey)
  <2>1. zk \in Block /\ ok \in Block /\ fixedKey \in Block
    BY DEF TypeOK
  <2>2. gg = garbleGate(g, i, zk, ok, fixedKey, tail)
    OBVIOUS
  <2> HIDE DEF g, gg
  <2> QED
    BY <1>3, <2>1, <2>2, GarbledGateCorrect
<1> HIDE DEF gg
<1>5. gg \in [a : Int, b : Int, out : Int, ciphers : [0..3 -> Block]]
  <2>1. g.a \in Int /\ g.b \in Int /\ g.out \in Int
    BY <1>3 DEF Wires, Index
  <2> HIDE DEF g
  <2> QED
    BY <1>4, <2>1
<1>6. TypeOK'
  BY <1>1, <1>2, <1>5 DEF TypeOK, gg
<1>7. LoopBound'
  BY <1>2, CircuitFacts DEF LoopBound, Index
<1>8. /\ GatesDone = i /\ GatesDone' = i + 1
      /\ InputsDone' = 0 /\ OutputsDone' = 0 /\ CopiesDone' = 0 /\ DecodesDone' = 0
      /\ DrivenNow' = {}
  BY <1>2 DEF GatesDone, InputsDone, OutputsDone, CopiesDone, DecodesDone, DrivenNow,
              Progress, Garbling0
<1>9. ggates'[i] = gg /\ \A n \in Index(i) : ggates'[n] = ggates[n]
  BY <1>1, <1>2 DEF gg, TypeOK, Index
<1>10. GatesCorrect'
  <2> SUFFICES ASSUME NEW n \in Index(i + 1)
               PROVE  GarbledCorrectly(ggates'[n], C.gates[n], n, zk, ok, fixedKey)
    BY <1>2, <1>8 DEF GatesCorrect
  <2>1. CASE n = i
    BY <2>1, <1>4, <1>9
  <2>2. CASE n \in Index(i)
    BY <2>2, <1>8, <1>9 DEF GatesCorrect
  <2>3. n = i \/ n \in Index(i)
    BY <1>2 DEF Index
  <2> QED
    BY <2>1, <2>2, <2>3
<1>11. Index(0) = {}
  BY DEF Index
<1> QED
  BY <1>2, <1>6, <1>7, <1>8, <1>10, <1>11
  DEF InputsCorrect, OutGarblingsCorrect, WiresGarbled, GoutputCorrect, DecodedCorrect

LEMMA GarblingIsBlock ==
  ASSUME TypeOK, NEW w, NEW v \in Bit
  PROVE  Garbling(zk, ok, w, v) \in Block
  BY GarblingsDiffer DEF TypeOK

LEMMA GarbleInputInv == IInv /\ GarbleInput => IInv'
<1> SUFFICES ASSUME IInv, GarbleInput PROVE IInv'
  OBVIOUS
<1> USE DEF IInv, GarblingInv, keys
<1>1. /\ C \in Circuits /\ i \in Index(C.inpSize) /\ i \in Nat /\ i' = i + 1
      /\ pc = "garbleInput" /\ pc' = "garbleInput"
      /\ garbledInput' = [garbledInput EXCEPT ![i] = Garbling(zk, ok, i, input[i])]
      /\ UNCHANGED <<keys, ggates, outGarblings, wires, goutput, output>>
  BY CircuitFacts DEF GarbleInput, TypeOK, Index
<1>2. Garbling(zk, ok, i, input[i]) \in Block
  BY <1>1, GarblingIsBlock DEF TypeOK
<1>3. TypeOK'
  BY <1>1, <1>2 DEF TypeOK
<1>4. LoopBound'
  BY <1>1, CircuitFacts DEF LoopBound, Index
<1>5. /\ GatesDone' = GatesDone
      /\ InputsDone = i /\ InputsDone' = i + 1
      /\ OutputsDone' = 0 /\ CopiesDone' = 0 /\ DecodesDone' = 0 /\ DrivenNow' = {}
  BY <1>1 DEF GatesDone, InputsDone, OutputsDone, CopiesDone, DecodesDone, DrivenNow,
              Progress, Garbling0
<1>6. InputsCorrect'
  BY <1>1, <1>5 DEF InputsCorrect, TypeOK, Index
<1>7. Index(0) = {}
  BY DEF Index
<1> QED
  BY <1>1, <1>3, <1>4, <1>5, <1>6, <1>7
  DEF GatesCorrect, OutGarblingsCorrect, WiresGarbled, GoutputCorrect, DecodedCorrect

LEMMA TwoUpdates ==
  ASSUME NEW S, NEW T, NEW f \in [S -> T], NEW a, NEW b, NEW x \in T, NEW y \in T
  PROVE  [f EXCEPT ![a] = x, ![b] = y] \in [S -> T]
  OBVIOUS

LEMMA GarbleOutputInv == IInv /\ GarbleOutput => IInv'
<1> SUFFICES ASSUME IInv, GarbleOutput PROVE IInv'
  OBVIOUS
<1> USE DEF IInv, GarblingInv, keys
<1> DEFINE w == C.outWLabels[i]
<1>1. /\ C \in Circuits /\ i \in Index(C.outSize) /\ i \in Nat /\ i' = i + 1
      /\ pc = "garbleOutput" /\ pc' = "garbleOutput"
      /\ outGarblings' = [outGarblings EXCEPT ![2 * i] = Garbling(zk, ok, w, 0),
                                              ![2 * i + 1] = Garbling(zk, ok, w, 1)]
      /\ UNCHANGED <<keys, ggates, garbledInput, wires, goutput, output>>
  <2>1. /\ ZeroGarbling(zk, w) = Garbling(zk, ok, w, 0)
        /\ OneGarbling(zk, ok, w) = Garbling(zk, ok, w, 1)
    BY DEF Garbling
  <2> QED
    BY <2>1, CircuitFacts DEF GarbleOutput, TypeOK, Index
<1>2. Garbling(zk, ok, w, 0) \in Block /\ Garbling(zk, ok, w, 1) \in Block
  BY GarblingIsBlock DEF Bit
<1>3. TypeOK'
  <2>1. outGarblings' \in [Index(2 * C.outSize) -> Block]
    <3>1. outGarblings \in [Index(2 * C.outSize) -> Block]
      BY DEF TypeOK
    <3> HIDE DEF w
    <3> QED
      BY <1>1, <1>2, <3>1, TwoUpdates
  <2>2. /\ i' \in Nat /\ pc' = pc
        /\ UNCHANGED <<C, input, zk, ok, fixedKey, ggates, garbledInput, wires, goutput,
                       output>>
    BY <1>1
  <2> QED
    BY <2>1, <2>2 DEF TypeOK
<1>4. LoopBound'
  BY <1>1, CircuitFacts DEF LoopBound, Index
<1>5. /\ GatesDone' = GatesDone /\ InputsDone' = InputsDone
      /\ OutputsDone = i /\ OutputsDone' = i + 1
      /\ CopiesDone' = 0 /\ DecodesDone' = 0 /\ DrivenNow' = {}
  BY <1>1 DEF GatesDone, InputsDone, OutputsDone, CopiesDone, DecodesDone, DrivenNow,
              Progress, Garbling0
<1>6. OutGarblingsCorrect'
  <2> SUFFICES ASSUME NEW n \in Index(i + 1)
               PROVE  /\ outGarblings'[2 * n] = Garbling(zk, ok, C.outWLabels[n], 0)
                      /\ outGarblings'[2 * n + 1] = Garbling(zk, ok, C.outWLabels[n], 1)
    BY <1>1, <1>5 DEF OutGarblingsCorrect
  <2>1. /\ outGarblings \in [Index(2 * C.outSize) -> Block]
        /\ {2 * i, 2 * i + 1, 2 * n, 2 * n + 1} \subseteq Index(2 * C.outSize)
    BY <1>1, CircuitFacts DEF TypeOK, Index
  <2>2. CASE n = i
    BY <1>1, <2>1, <2>2
  <2>3. CASE n \in Index(i)
    <3>1. /\ outGarblings[2 * n] = Garbling(zk, ok, C.outWLabels[n], 0)
          /\ outGarblings[2 * n + 1] = Garbling(zk, ok, C.outWLabels[n], 1)
      BY <1>5, <2>3 DEF OutGarblingsCorrect
    <3>2. 2 * n \notin {2 * i, 2 * i + 1} /\ 2 * n + 1 \notin {2 * i, 2 * i + 1}
      BY <1>1, <2>3 DEF Index
    <3> QED
      BY <1>1, <2>1, <3>1, <3>2
  <2>4. n = i \/ n \in Index(i)
    BY <1>1 DEF Index
  <2> QED
    BY <2>2, <2>3, <2>4
<1>7. Index(0) = {}
  BY DEF Index
<1> QED
  BY <1>1, <1>3, <1>4, <1>5, <1>6, <1>7
  DEF GatesCorrect, InputsCorrect, WiresGarbled, GoutputCorrect, DecodedCorrect

LEMMA LoadInv == IInv /\ Load => IInv'
<1> SUFFICES ASSUME IInv, Load PROVE IInv'
  OBVIOUS
<1> USE DEF IInv, GarblingInv, keys
<1>1. /\ C \in Circuits /\ i \in Index(C.inpSize) /\ i \in Nat /\ i' = i + 1
      /\ pc = "load" /\ pc' = "load"
      /\ wires' = [wires EXCEPT ![i] = garbledInput[i]]
      /\ UNCHANGED <<keys, ggates, garbledInput, outGarblings, goutput, output>>
  BY CircuitFacts DEF Load, TypeOK, Index
<1>2. garbledInput[i] = Garbling(zk, ok, i, input[i]) /\ input[i] \in Bit
  BY <1>1 DEF InputsCorrect, InputsDone, Progress, TypeOK
<1>3. TypeOK'
  <2>1. garbledInput[i] \in Block
    BY <1>1 DEF TypeOK
  <2>2. wires' \in [Wires(C) -> Block]
    BY <1>1, <2>1 DEF TypeOK
  <2> QED
    BY <1>1, <2>2 DEF TypeOK
<1>4. LoopBound'
  BY <1>1, CircuitFacts DEF LoopBound, Index
<1>5. /\ GatesDone' = GatesDone /\ InputsDone' = InputsDone /\ OutputsDone' = OutputsDone
      /\ CopiesDone' = 0 /\ DecodesDone' = 0
      /\ DrivenNow = Index(i) /\ DrivenNow' = Index(i + 1)
  BY <1>1 DEF GatesDone, InputsDone, OutputsDone, CopiesDone, DecodesDone, DrivenNow,
              Progress, Garbling0
<1>6. WiresGarbled'
  <2>3. \A w \in Index(i) : IsGarbling(w, wires[w])
    BY <1>5 DEF WiresGarbled
  <2>4. IsGarbling(i, garbledInput[i])
    BY <1>2 DEF IsGarbling
  <2>1. i \in Wires(C) /\ Index(i + 1) = Index(i) \cup {i}
    BY <1>1, CircuitFacts DEF Wires, Index
  <2>2. \A w \in Index(i) : w # i /\ w \in Wires(C)
    BY <1>1, CircuitFacts DEF Index, Wires
  <2> QED
    BY <1>1, <1>5, <2>1, <2>2, <2>3, <2>4 DEF WiresGarbled, IsGarbling, TypeOK
<1>7. Index(0) = {}
  BY DEF Index
<1> QED
  BY <1>1, <1>3, <1>4, <1>5, <1>6, <1>7
  DEF GatesCorrect, InputsCorrect, OutGarblingsCorrect, GoutputCorrect, DecodedCorrect

(* The two garblings of a wire are different, so that a garbling has one   *)
(* bit.                                                                    *)
LEMMA UngarbleInverts ==
  ASSUME TypeOK, NEW w, NEW k, IsGarbling(w, k)
  PROVE  Ungarble(w, k) \in Bit /\ k = Garbling(zk, ok, w, Ungarble(w, k))
  BY DEF IsGarbling, Ungarble, Bit

LEMMA UngarbleGarbling ==
  ASSUME TypeOK, NEW w, NEW v \in Bit
  PROVE  Ungarble(w, Garbling(zk, ok, w, v)) = v
<1>1. Garbling(zk, ok, w, 1) # Garbling(zk, ok, w, 0)
  <2>1. /\ readLastBit(Garbling(zk, ok, w, 0)) \in Bit
        /\ readLastBit(Garbling(zk, ok, w, 1)) = 1 - readLastBit(Garbling(zk, ok, w, 0))
    BY GarblingsDiffer DEF TypeOK
  <2> QED
    BY <2>1 DEF Bit
<1> QED
  BY <1>1 DEF Ungarble, Bit

(* A gate of the owner: whichever garblings its input wires hold, its      *)
(* output wire gets the garbling of the gate's value on their bits.        *)
LEMMA EvalGatesStep ==
  ASSUME IInv, EvalGates
  PROVE  LET g == C.gates[i]
             r == Garbling(zk, ok, g.out,
                           evalGate(g, Ungarble(g.a, wires[g.a]), Ungarble(g.b, wires[g.b])))
         IN  /\ C \in Circuits /\ i \in Index(C.numGates) /\ i \in Nat /\ i' = i + 1
             /\ pc = "gates" /\ pc' = "gates"
             /\ UNCHANGED <<keys, ggates, garbledInput, outGarblings, goutput, output>>
             /\ wires' = [wires EXCEPT ![g.out] = r]
             /\ evalGate(g, Ungarble(g.a, wires[g.a]), Ungarble(g.b, wires[g.b])) \in Bit
             /\ r \in Block
             /\ g.out \in Wires(C)
<1> USE DEF IInv, GarblingInv
<1> DEFINE g == C.gates[i]
           gg == ggates[i]
           x == Ungarble(g.a, wires[g.a])
           y == Ungarble(g.b, wires[g.b])
<1>1. /\ C \in Circuits /\ i \in Index(C.numGates) /\ i \in Nat /\ i' = i + 1
      /\ pc = "gates" /\ pc' = "gates"
      /\ UNCHANGED <<keys, ggates, garbledInput, outGarblings, goutput, output>>
  BY CircuitFacts DEF EvalGates, TypeOK, Index, keys
<1>2. PICK tail \in Tails :
        wires' = [wires EXCEPT ![gg.out] =
                    evalGarbledGate(gg, i, wires[gg.a], wires[gg.b], fixedKey, tail)]
  BY DEF EvalGates
<1>3. GarbledCorrectly(gg, g, i, zk, ok, fixedKey)
  BY <1>1 DEF GatesCorrect, GatesDone, Progress
<1>4. DrivenNow = Driven(C, i)
  BY <1>1 DEF DrivenNow, Garbling0
<1>5. g.a \in DrivenNow /\ g.b \in DrivenNow
  BY <1>1, <1>4, CircuitFacts
<1>6. /\ x \in Bit /\ wires[g.a] = Garbling(zk, ok, g.a, x)
      /\ y \in Bit /\ wires[g.b] = Garbling(zk, ok, g.b, y)
  <2>1. IsGarbling(g.a, wires[g.a]) /\ IsGarbling(g.b, wires[g.b])
    BY <1>5 DEF WiresGarbled
  <2> QED
    BY <2>1, UngarbleInverts
<1>7. /\ g.out \in Wires(C) /\ g.T \in 0..15
  BY <1>1, ValidGate, CircuitsAssumption
<1>8. evalGate(g, x, y) \in Bit
  BY <1>6, <1>7, EvalGateIsBit
<1>9. Garbling(zk, ok, g.out, evalGate(g, x, y)) \in Block
  BY <1>8, GarblingIsBlock
<1> HIDE DEF g, gg, x, y
<1>10. /\ gg.a = g.a /\ gg.b = g.b /\ gg.out = g.out
       /\ evalGarbledGate(gg, i, wires[g.a], wires[g.b], fixedKey, tail)
             = Garbling(zk, ok, g.out, evalGate(g, x, y))
  BY <1>3, <1>6 DEF GarbledCorrectly
<1>11. wires' = [wires EXCEPT ![g.out] = Garbling(zk, ok, g.out, evalGate(g, x, y))]
  BY <1>2, <1>10
<1> QED
  BY <1>1, <1>7, <1>8, <1>9, <1>11 DEF g, x, y

LEMMA EvalGatesInv == IInv /\ EvalGates => IInv'
<1> SUFFICES ASSUME IInv, EvalGates PROVE IInv'
  OBVIOUS
<1> USE DEF IInv, GarblingInv
<1> DEFINE g == C.gates[i]
           v == evalGate(g, Ungarble(g.a, wires[g.a]), Ungarble(g.b, wires[g.b]))
           r == Garbling(zk, ok, g.out, v)
<1>1. /\ C \in Circuits /\ i \in Index(C.numGates) /\ i \in Nat /\ i' = i + 1
      /\ pc = "gates" /\ pc' = "gates"
      /\ UNCHANGED <<keys, ggates, garbledInput, outGarblings, goutput, output>>
      /\ wires' = [wires EXCEPT ![g.out] = r]
      /\ v \in Bit /\ r \in Block /\ g.out \in Wires(C)
  BY EvalGatesStep
<1> HIDE DEF v
<1>2. UNCHANGED <<C, input, zk, ok, fixedKey>>
  BY <1>1 DEF keys
<1>3. TypeOK'
  <2>1. wires' \in [Wires(C) -> Block]
    BY <1>1 DEF TypeOK
  <2> QED
    BY <1>1, <1>2, <2>1 DEF TypeOK
<1>4. LoopBound'
  BY <1>1, <1>2, CircuitFacts DEF LoopBound, Index
<1>5. /\ GatesDone' = GatesDone /\ InputsDone' = InputsDone /\ OutputsDone' = OutputsDone
      /\ CopiesDone' = 0 /\ DecodesDone' = 0
      /\ DrivenNow = Driven(C, i) /\ DrivenNow' = Driven(C, i + 1)
  BY <1>1, <1>2 DEF GatesDone, InputsDone, OutputsDone, CopiesDone, DecodesDone, DrivenNow,
                    Progress, Garbling0
<1>6. WiresGarbled'
  <2> SUFFICES ASSUME NEW w \in DrivenNow' PROVE IsGarbling(w, wires'[w])
    BY <1>2 DEF WiresGarbled, IsGarbling
  <2>1. w \in DrivenNow \/ w = g.out
    BY <1>1, <1>5, DrivenStep
  <2>2. IsGarbling(g.out, r)
    BY <1>1 DEF IsGarbling
  <2>3. wires'[g.out] = r
    BY <1>1 DEF TypeOK
  <2>4. CASE w # g.out
    <3>1. IsGarbling(w, wires[w]) /\ w \in Wires(C)
      BY <2>1, <2>4, <1>1, <1>5, DrivenAreWires, CircuitsAssumption DEF WiresGarbled, LoopBound
    <3> QED
      BY <3>1, <2>4, <1>1 DEF TypeOK
  <2> QED
    BY <2>2, <2>3, <2>4
<1>7. Index(0) = {}
  BY DEF Index
<1> QED
  BY <1>1, <1>2, <1>3, <1>4, <1>5, <1>6, <1>7
  DEF GatesCorrect, InputsCorrect, OutGarblingsCorrect, GoutputCorrect, DecodedCorrect

LEMMA CopyInv == IInv /\ Copy => IInv'
<1> SUFFICES ASSUME IInv, Copy PROVE IInv'
  OBVIOUS
<1> USE DEF IInv, GarblingInv
<1> DEFINE w == C.outWLabels[i]
<1>1. /\ C \in Circuits /\ i \in Index(C.outSize) /\ i \in Nat /\ i' = i + 1
      /\ pc = "copy" /\ pc' = "copy"
      /\ goutput' = [goutput EXCEPT ![i] = wires[w]]
      /\ UNCHANGED <<C, input, zk, ok, fixedKey, ggates, garbledInput, outGarblings, wires,
                     output>>
  BY CircuitFacts DEF Copy, TypeOK, Index, keys
<1>2. w \in Wires(C) /\ wires[w] \in Block
  BY <1>1, CircuitFacts DEF TypeOK
<1> HIDE DEF w
<1>3. TypeOK'
  <2>1. goutput' \in [Index(C.outSize) -> Block]
    BY <1>1, <1>2 DEF TypeOK
  <2> QED
    BY <1>1, <2>1 DEF TypeOK
<1>4. LoopBound'
  BY <1>1, CircuitFacts DEF LoopBound, Index
<1>5. /\ GatesDone' = GatesDone /\ InputsDone' = InputsDone /\ OutputsDone' = OutputsDone
      /\ CopiesDone = i /\ CopiesDone' = i + 1 /\ DecodesDone' = 0
      /\ DrivenNow' = DrivenNow
  BY <1>1 DEF GatesDone, InputsDone, OutputsDone, CopiesDone, DecodesDone, DrivenNow,
              Progress, Garbling0
<1>6. GoutputCorrect'
  <2> SUFFICES ASSUME NEW n \in Index(i + 1)
               PROVE  \/ goutput'[n] = wires[C.outWLabels[n]]
                      \/ ~ IsGarbling(C.outWLabels[n], goutput'[n])
    BY <1>1, <1>5 DEF GoutputCorrect, IsGarbling
  <2>1. n \in Index(C.outSize) /\ (n = i \/ n \in Index(i))
    BY <1>1, CircuitFacts DEF Index
  <2>2. CASE n = i
    BY <1>1, <2>1, <2>2 DEF w, TypeOK
  <2>3. CASE n \in Index(i)
    <3>1. n # i
      BY <1>1, <2>3 DEF Index
    <3>2. goutput'[n] = goutput[n]
      BY <1>1, <2>1, <3>1 DEF TypeOK
    <3> QED
      BY <1>1, <1>5, <2>3, <3>2 DEF GoutputCorrect
  <2> QED
    BY <2>1, <2>2, <2>3
<1>7. Index(0) = {}
  BY DEF Index
<1> QED
  BY <1>1, <1>3, <1>4, <1>5, <1>6, <1>7
  DEF GatesCorrect, InputsCorrect, OutGarblingsCorrect, WiresGarbled, IsGarbling,
      DecodedCorrect

(* What was not received is no garbling of its wire. *)
LEMMA EndCopyInv == IInv /\ EndCopy => IInv'
<1> SUFFICES ASSUME IInv, EndCopy PROVE IInv'
  OBVIOUS
<1> USE DEF IInv, GarblingInv
<1>1. PICK received \in 0..C.outSize, stale \in StaleBlocks :
        /\ \A n \in received..(C.outSize - 1) :
              stale \notin {outGarblings[2 * n], outGarblings[2 * n + 1]}
        /\ goutput' = [n \in Index(C.outSize) |->
                         IF n < received THEN goutput[n] ELSE stale]
  BY DEF EndCopy
<1>2. /\ C \in Circuits /\ i = C.outSize /\ i' = 0
      /\ pc = "copy" /\ pc' = "decode"
      /\ UNCHANGED <<C, input, zk, ok, fixedKey, ggates, garbledInput, outGarblings, wires,
                     output>>
  BY DEF EndCopy, TypeOK, keys
<1>3. TypeOK'
  <2>1. goutput' \in [Index(C.outSize) -> Block]
    BY <1>1, <1>2, StaleBlocksAssumption DEF TypeOK
  <2> QED
    BY <1>2, <2>1 DEF TypeOK
<1>4. LoopBound'
  BY <1>2, CircuitFacts DEF LoopBound
<1>5. /\ GatesDone' = GatesDone /\ InputsDone' = InputsDone
      /\ OutputsDone' = OutputsDone /\ OutputsDone = C.outSize
      /\ CopiesDone' = C.outSize /\ CopiesDone = C.outSize /\ DecodesDone' = 0
      /\ DrivenNow' = DrivenNow
  BY <1>2 DEF GatesDone, InputsDone, OutputsDone, CopiesDone, DecodesDone, DrivenNow,
              Progress, Garbling0
<1>6. GoutputCorrect'
  <2> SUFFICES ASSUME NEW n \in Index(C.outSize)
               PROVE  \/ goutput'[n] = wires[C.outWLabels[n]]
                      \/ ~ IsGarbling(C.outWLabels[n], goutput'[n])
    BY <1>2, <1>5 DEF GoutputCorrect, IsGarbling
  <2>1. CASE n < received
    <3>1. goutput'[n] = goutput[n]
      BY <1>1, <2>1
    <3> QED
      BY <1>2, <1>5, <3>1 DEF GoutputCorrect
  <2>2. CASE ~ (n < received)
    <3>1. C.outSize \in Nat /\ n \in received..(C.outSize - 1)
      BY <1>2, <2>2, CircuitFacts DEF Index
    <3>2. goutput'[n] = stale
      BY <1>1, <2>2, <3>1 DEF Index
    <3>3. /\ outGarblings[2 * n] = Garbling(zk, ok, C.outWLabels[n], 0)
          /\ outGarblings[2 * n + 1] = Garbling(zk, ok, C.outWLabels[n], 1)
      BY <1>5 DEF OutGarblingsCorrect
    <3>4. stale \notin {outGarblings[2 * n], outGarblings[2 * n + 1]}
      BY <1>1, <3>1
    <3>5. ~ IsGarbling(C.outWLabels[n], stale)
      BY <3>3, <3>4 DEF IsGarbling, Bit
    <3> QED
      BY <3>2, <3>5
  <2> QED
    BY <2>1, <2>2
<1>7. Index(0) = {}
  BY DEF Index
<1> QED
  BY <1>2, <1>3, <1>4, <1>5, <1>6, <1>7
  DEF GatesCorrect, InputsCorrect, OutGarblingsCorrect, WiresGarbled, IsGarbling,
      DecodedCorrect

(* The bit that decodeOutput finds is the one the wire stands for, because *)
(* the two garblings of the wire differ.                                   *)
LEMMA DecodeStep ==
  ASSUME IInv, pc = "decode", i \in Index(C.outSize)
  PROVE  LET w == C.outWLabels[i] IN
         /\ IsGarbling(w, wires[w])
         /\ \/ goutput[i] = wires[w]
            \/ ~ IsGarbling(w, goutput[i])
         /\ \A v \in Bit : goutput[i] = outGarblings[2 * i + v] => Ungarble(w, wires[w]) = v
         /\ IsGarbling(w, goutput[i])
              => goutput[i] \in {outGarblings[2 * i], outGarblings[2 * i + 1]}
<1> USE DEF IInv, GarblingInv
<1> DEFINE w == C.outWLabels[i]
<1>1. C \in Circuits
  BY DEF TypeOK
<1>2. /\ OutputsDone = C.outSize /\ CopiesDone = C.outSize
      /\ DrivenNow = Driven(C, C.numGates)
  BY DEF OutputsDone, CopiesDone, DrivenNow, Progress, Garbling0
<1>3. IsGarbling(w, wires[w])
  BY <1>1, <1>2, CircuitFacts DEF WiresGarbled
<1>4. goutput[i] = wires[w] \/ ~ IsGarbling(w, goutput[i])
  BY <1>2 DEF GoutputCorrect
<1>5. /\ outGarblings[2 * i] = Garbling(zk, ok, w, 0)
      /\ outGarblings[2 * i + 1] = Garbling(zk, ok, w, 1)
  BY <1>2 DEF OutGarblingsCorrect
<1> HIDE DEF w
<1>6. ASSUME NEW v \in Bit, goutput[i] = outGarblings[2 * i + v]
      PROVE  Ungarble(w, wires[w]) = v
  <2>1. goutput[i] = Garbling(zk, ok, w, v)
    <3>1. 2 * i + 0 = 2 * i
      BY DEF Index
    <3> QED
      BY <1>5, <1>6, <3>1 DEF Bit
  <2>2. IsGarbling(w, goutput[i])
    BY <2>1 DEF IsGarbling
  <2>3. wires[w] = Garbling(zk, ok, w, v)
    BY <1>4, <2>1, <2>2
  <2> QED
    BY <2>3, UngarbleGarbling
<1>7. IsGarbling(w, goutput[i]) => goutput[i] \in {outGarblings[2 * i], outGarblings[2 * i + 1]}
  BY <1>5 DEF IsGarbling, Bit
<1> QED
  BY <1>3, <1>4, <1>6, <1>7 DEF w

LEMMA DecodeInv == IInv /\ Decode => IInv'
<1> SUFFICES ASSUME IInv, Decode PROVE IInv'
  OBVIOUS
<1> USE DEF IInv, GarblingInv
<1> DEFINE w == C.outWLabels[i]
<1>1. /\ C \in Circuits /\ i \in Index(C.outSize) /\ i \in Nat /\ i' = i + 1
      /\ pc = "decode" /\ pc' = "decode"
      /\ UNCHANGED <<C, input, zk, ok, fixedKey, ggates, garbledInput, outGarblings, wires,
                     goutput>>
  BY CircuitFacts DEF Decode, TypeOK, Index, keys
<1>2. PICK v \in Bit : output' = [output EXCEPT ![i] = v] /\ v = Ungarble(w, wires[w])
  <2>1. 2 * i + 0 = 2 * i /\ 0 \in Bit /\ 1 \in Bit
    BY <1>1 DEF Bit
  <2>2. \A v \in Bit : goutput[i] = outGarblings[2 * i + v] => Ungarble(w, wires[w]) = v
    BY <1>1, DecodeStep
  <2>3. \/ goutput[i] = outGarblings[2 * i] /\ output' = [output EXCEPT ![i] = 0]
        \/ goutput[i] = outGarblings[2 * i + 1] /\ output' = [output EXCEPT ![i] = 1]
    BY DEF Decode
  <2> QED
    BY <2>1, <2>2, <2>3
<1>3. TypeOK'
  <2>1. output' \in [Index(C.outSize) -> Bit]
    BY <1>1, <1>2 DEF TypeOK
  <2> QED
    BY <1>1, <2>1 DEF TypeOK
<1>4. LoopBound'
  BY <1>1, CircuitFacts DEF LoopBound, Index
<1>5. /\ GatesDone' = GatesDone /\ InputsDone' = InputsDone /\ OutputsDone' = OutputsDone
      /\ CopiesDone' = CopiesDone /\ DecodesDone = i /\ DecodesDone' = i + 1
      /\ DrivenNow' = DrivenNow
  BY <1>1 DEF GatesDone, InputsDone, OutputsDone, CopiesDone, DecodesDone, DrivenNow,
              Progress, Garbling0
<1>6. DecodedCorrect'
  <2> SUFFICES ASSUME NEW n \in Index(i + 1)
               PROVE  output'[n] = Ungarble(C.outWLabels[n], wires[C.outWLabels[n]])
    BY <1>1, <1>5 DEF DecodedCorrect, Ungarble
  <2>1. n \in Index(C.outSize) /\ (n = i \/ (n \in Index(i) /\ n # i))
    BY <1>1, CircuitFacts DEF Index
  <2>2. CASE n = i
    BY <1>1, <1>2, <2>1, <2>2 DEF TypeOK
  <2>3. CASE n \in Index(i) /\ n # i
    <3>1. output'[n] = output[n]
      BY <1>1, <1>2, <2>1, <2>3 DEF TypeOK
    <3> QED
      BY <1>5, <2>3, <3>1 DEF DecodedCorrect
  <2> QED
    BY <2>1, <2>2, <2>3
<1> QED
  BY <1>1, <1>3, <1>4, <1>5, <1>6
  DEF GatesCorrect, InputsCorrect, OutGarblingsCorrect, WiresGarbled, IsGarbling,
      GoutputCorrect

LEMMA DecodeFailsInv == IInv /\ DecodeFails => IInv'
<1> SUFFICES ASSUME IInv, DecodeFails PROVE IInv'
  OBVIOUS
<1> USE DEF IInv, GarblingInv
<1>1. /\ C \in Circuits /\ i \in Index(C.outSize) /\ i \in Nat /\ i' = i
      /\ pc = "decode" /\ pc' = "failed"
      /\ goutput' = [goutput EXCEPT ![0] = (@ \ FirstByte) \cup (LetterA \cap Bits)]
      /\ UNCHANGED <<C, input, zk, ok, fixedKey, ggates, garbledInput, outGarblings, wires,
                     output>>
  BY CircuitFacts DEF DecodeFails, TypeOK, Index, keys
<1>2. TypeOK'
  <2>1. 0 \in Index(C.outSize)
    BY <1>1, CircuitFacts DEF Index
  <2>2. goutput[0] \in Block
    BY <2>1 DEF TypeOK
  <2>3. (goutput[0] \ FirstByte) \cup (LetterA \cap Bits) \in Block
    BY <2>2 DEF Block
  <2>4. goutput' \in [Index(C.outSize) -> Block]
    BY <1>1, <2>3 DEF TypeOK
  <2> QED
    BY <1>1, <2>4 DEF TypeOK
<1>3. LoopBound'
  BY <1>1, CircuitFacts DEF LoopBound, Index
<1>4. /\ GatesDone' = GatesDone /\ InputsDone' = InputsDone /\ OutputsDone' = OutputsDone
      /\ CopiesDone' = CopiesDone /\ DecodesDone' = DecodesDone /\ DrivenNow' = DrivenNow
  BY <1>1 DEF GatesDone, InputsDone, OutputsDone, CopiesDone, DecodesDone, DrivenNow,
              Progress, Garbling0
<1> QED
  BY <1>1, <1>2, <1>3, <1>4
  DEF GatesCorrect, InputsCorrect, OutGarblingsCorrect, WiresGarbled, IsGarbling,
      GoutputCorrect, DecodedCorrect, Ungarble

LEMMA StutterInv == IInv /\ UNCHANGED vars => IInv'
  BY DEF IInv, vars, keys, TypeOK, GarblingInv, LoopBound, GatesCorrect, InputsCorrect,
         OutGarblingsCorrect, WiresGarbled, GoutputCorrect, DecodedCorrect, GatesDone,
         InputsDone, OutputsDone, CopiesDone, DecodesDone, DrivenNow, Progress, IsGarbling,
         Ungarble

(* Every step of the garbled evaluation preserves the invariant. *)
LEMMA StepInv == IInv /\ [Next]_vars => IInv'
<1>1. IInv /\ Next => IInv'
  BY EndLoopInv, GarbleGatesInv, GarbleInputInv, GarbleOutputInv, LoadInv, EvalGatesInv,
     CopyInv, EndCopyInv, DecodeInv, DecodeFailsInv, StutterInv
  DEF Next, Returned
<1> QED
  BY <1>1, StutterInv

LEMMA IInvAlways == Spec => []IInv
<1>1. Init => IInv
  BY InitInv
<1>2. IInv /\ [Next]_vars => IInv'
  BY StepInv
<1> QED
  BY <1>1, <1>2, PTL DEF Spec

-----------------------------------------------------------------------------
(* The variables keep their types: in particular, no step of garbling,     *)
(* evaluation or decoding leaves its arrays (garbledcircuit_enclave.c,     *)
(* garbledcircuit.c).                                                      *)
THEOREM TypeCorrect == Spec => []TypeOK
<1>1. IInv => TypeOK
  BY DEF IInv
<1> QED
  BY <1>1, IInvAlways, PTL

(* In every circuit, for every input, all keys and any content of the      *)
(* unwritten bytes of T, the owner's wires hold garblings of themselves,   *)
(* and the decoded bits are the bits those stand for (garbleCircuit,       *)
(* evalGCircuit, decodeOutput).                                            *)
THEOREM GarblingCorrect == Spec => []GarblingInv
<1>1. IInv => GarblingInv
  BY DEF IInv
<1> QED
  BY <1>1, IInvAlways, PTL

(* decodeOutput gives up only at a part of the garbled output that did not *)
(* arrive as the owner sent it.                                            *)
THEOREM FailsOnlyOnCutOutput == Spec => FailsOnlyIfCut
<1>1. IInv /\ [Next]_vars => [pc' = "failed" => goutput[i] # wires[C.outWLabels[i]]]_vars
  <2> SUFFICES ASSUME IInv, Next, pc' = "failed", vars' # vars
               PROVE  goutput[i] # wires[C.outWLabels[i]]
    OBVIOUS
  <2>1. DecodeFails
    BY DEF Next, vars, GarbleGates, EndGarbleGates, GarbleInput, EndGarbleInput,
           GarbleOutput, EndGarbleOutput, Load, EndLoad, EvalGates, EndGates, Copy, EndCopy,
           Decode, EndDecode, EndLoop, Returned, IInv, GarblingInv, LoopBound
  <2>2. pc = "decode" /\ i \in Index(C.outSize)
    BY <2>1, CircuitFacts DEF DecodeFails, IInv, TypeOK, Index
  <2>3. goutput[i] \notin {outGarblings[2 * i], outGarblings[2 * i + 1]}
    BY <2>1 DEF DecodeFails
  <2> QED
    BY <2>2, <2>3, DecodeStep
<1> QED
  BY <1>1, IInvAlways, PTL DEF Spec, FailsOnlyIfCut

-----------------------------------------------------------------------------
(* The refinement. *)

LEMMA Updated ==
  ASSUME NEW S, NEW f, NEW h, NEW a \in S, NEW x,
         f = [n \in S |-> f[n]], h = [n \in S |-> h[n]],
         h[a] = x, \A n \in S : n # a => h[n] = f[n]
  PROVE  h = [f EXCEPT ![a] = x]
  OBVIOUS

LEMMA PlainInit == Init => Plain!Init
<1> SUFFICES ASSUME Init PROVE Plain!Init
  OBVIOUS
<1>1. DrivenNow = {} /\ DecodesDone = 0
  BY DEF Init, DrivenNow, DecodesDone, Garbling0
<1>2. PlainPc = "load" /\ PlainI = 0
  BY DEF Init, PlainPc, PlainI, Garbling0
<1>3. PlainWires = [w \in Wires(C) |-> Unset]
  BY <1>1 DEF PlainWires
<1>4. PlainOutput = [n \in Index(C.outSize) |-> Unset]
  BY <1>1 DEF PlainOutput, Index
<1> QED
  BY <1>2, <1>3, <1>4 DEF Init, Plain!Init, Plain!Index, Plain!Bit, Plain!Wires, Index, Bit, Wires

(* The loops that are not in evalCircuit leave its state alone. *)
LEMMA PlainStutter ==
  ASSUME IInv,
         \/ GarbleGates \/ GarbleInput \/ GarbleOutput
         \/ EndGarbleGates \/ EndGarbleInput \/ EndGarbleOutput
         \/ Copy \/ EndCopy \/ DecodeFails \/ UNCHANGED vars
  PROVE  UNCHANGED Plain!vars
<1>1. UNCHANGED <<C, input, zk, ok, fixedKey, output>>
  BY DEF GarbleGates, GarbleInput, GarbleOutput, EndGarbleGates, EndGarbleInput,
         EndGarbleOutput, Copy, EndCopy, DecodeFails, EndLoop, vars, keys
<1>2. UNCHANGED <<PlainPc, PlainI, DecodesDone>>
  BY DEF PlainPc, PlainI, DecodesDone, Garbling0,
         GarbleGates, GarbleInput, GarbleOutput, EndGarbleGates, EndGarbleInput,
         EndGarbleOutput, Copy, EndCopy, DecodeFails, EndLoop, vars, keys
<1>3. UNCHANGED DrivenNow /\ (DrivenNow = {} \/ UNCHANGED wires)
  <2>1. Index(0) = {}
    BY DEF Index
  <2> QED
    BY <2>1 DEF DrivenNow, Garbling0, GarbleGates, GarbleInput, GarbleOutput,
         EndGarbleGates, EndGarbleInput, EndGarbleOutput, Copy, EndCopy, DecodeFails,
         EndLoop, vars, keys
<1>4. UNCHANGED PlainWires
  BY <1>1, <1>3 DEF PlainWires, Ungarble
<1>5. UNCHANGED PlainOutput
  BY <1>1, <1>2 DEF PlainOutput
<1> QED
  BY <1>1, <1>2, <1>4, <1>5 DEF Plain!vars

(* A loop's end that evalCircuit has too. *)
LEMMA PlainLoopEnds ==
  ASSUME IInv, EndLoad \/ EndGates \/ EndDecode
  PROVE  Plain!Next
<1>1. UNCHANGED <<C, input, zk, ok, fixedKey, wires, output>>
  BY DEF EndLoad, EndGates, EndDecode, EndLoop, keys
<1>2. UNCHANGED <<DrivenNow, DecodesDone>>
  <2>1. CASE EndLoad
    <3>1. Driven(C, 0) = Index(C.inpSize)
      BY DrivenStep
    <3> QED
      BY <1>1, <2>1, <3>1 DEF DrivenNow, DecodesDone, Garbling0, EndLoad, EndLoop
  <2>2. CASE EndGates
    BY <1>1, <2>2 DEF DrivenNow, DecodesDone, Garbling0, EndGates, EndLoop
  <2>3. CASE EndDecode
    BY <1>1, <2>3 DEF DrivenNow, DecodesDone, Garbling0, EndDecode
  <2> QED
    BY <2>1, <2>2, <2>3
<1>3. UNCHANGED <<PlainWires, PlainOutput>>
  BY <1>1, <1>2 DEF PlainWires, PlainOutput, Ungarble
<1>4. CASE EndLoad
  BY <1>1, <1>3, <1>4
  DEF EndLoad, EndLoop, PlainPc, PlainI, Garbling0, Plain!Next, Plain!EndLoad
<1>5. CASE EndGates
  BY <1>1, <1>3, <1>5
  DEF EndGates, EndLoop, PlainPc, PlainI, Garbling0, Plain!Next, Plain!EndGates
<1>6. CASE EndDecode
  BY <1>1, <1>3, <1>6
  DEF EndDecode, PlainPc, PlainI, Garbling0, Plain!Next, Plain!EndStore
<1> QED
  BY <1>4, <1>5, <1>6

(* The invariant of the theorems above is what makes the owner's steps     *)
(* steps of evalCircuit.                                                   *)
LEMMA PlainLoad == IInv /\ Load => Plain!Load
<1> SUFFICES ASSUME IInv, Load PROVE Plain!Load
  OBVIOUS
<1> USE DEF IInv, GarblingInv
<1>1. /\ C \in Circuits /\ i \in Index(C.inpSize) /\ i \in Nat /\ i' = i + 1
      /\ pc = "load" /\ pc' = "load" /\ i < C.inpSize
      /\ wires' = [wires EXCEPT ![i] = garbledInput[i]]
      /\ UNCHANGED <<C, input, zk, ok, fixedKey, output>>
  BY CircuitFacts DEF Load, TypeOK, Index, keys
<1>2. garbledInput[i] = Garbling(zk, ok, i, input[i]) /\ input[i] \in Bit
  BY <1>1 DEF InputsCorrect, InputsDone, Progress, TypeOK
<1>3. /\ DrivenNow = Index(i) /\ DrivenNow' = Index(i) \cup {i} /\ i \in Wires(C)
      /\ DecodesDone' = DecodesDone
  BY <1>1, CircuitFacts DEF DrivenNow, DecodesDone, Garbling0, Index, Wires
<1>4. PlainWires' = [PlainWires EXCEPT ![i] = input[i]]
  <2>1. Ungarble(i, wires'[i]) = input[i]
    <3>1. wires'[i] = Garbling(zk, ok, i, input[i])
      BY <1>1, <1>2, <1>3 DEF TypeOK
    <3> QED
      BY <1>2, <3>1, UngarbleGarbling
  <2>2. \A w \in Wires(C) : w # i => wires'[w] = wires[w]
    BY <1>1 DEF TypeOK
  <2> QED
    BY <1>1, <1>3, <2>1, <2>2 DEF PlainWires, Ungarble
<1>5. UNCHANGED PlainOutput
  BY <1>1, <1>3 DEF PlainOutput
<1>6. PlainPc = "load" /\ PlainPc' = "load" /\ PlainI = i /\ PlainI' = i + 1
  BY <1>1 DEF PlainPc, PlainI, Garbling0
<1> QED
  BY <1>1, <1>4, <1>5, <1>6 DEF Plain!Load

LEMMA PlainGate == IInv /\ EvalGates => Plain!EvalGateStep
<1> SUFFICES ASSUME IInv, EvalGates PROVE Plain!EvalGateStep
  OBVIOUS
<1> DEFINE g == C.gates[i]
           v == evalGate(g, Ungarble(g.a, wires[g.a]), Ungarble(g.b, wires[g.b]))
           r == Garbling(zk, ok, g.out, v)
<1>1. /\ C \in Circuits /\ i \in Index(C.numGates) /\ i \in Nat /\ i' = i + 1
      /\ pc = "gates" /\ pc' = "gates"
      /\ UNCHANGED <<keys, ggates, garbledInput, outGarblings, goutput, output>>
      /\ wires' = [wires EXCEPT ![g.out] = r]
      /\ v \in Bit /\ r \in Block /\ g.out \in Wires(C)
  BY EvalGatesStep
<1>2. g.a \in Driven(C, i) /\ g.b \in Driven(C, i) /\ g.a \in Wires(C) /\ g.b \in Wires(C)
  BY <1>1, CircuitFacts, ValidGate, CircuitsAssumption
<1>3. UNCHANGED <<C, input, zk, ok, fixedKey>> /\ i < C.numGates
  BY <1>1, CircuitFacts DEF keys, Index
<1>4. /\ DrivenNow = Driven(C, i) /\ DrivenNow' = Driven(C, i) \cup {g.out}
      /\ DecodesDone' = DecodesDone
  BY <1>1, <1>3, DrivenStep DEF DrivenNow, DecodesDone, Garbling0
<1>5. v = evalGate(g, PlainWires[g.a], PlainWires[g.b])
  BY <1>2, <1>4 DEF PlainWires
<1> HIDE DEF v, g
<1>6. PlainWires' = [PlainWires EXCEPT ![g.out] = v]
  <2>1. Ungarble(g.out, wires'[g.out]) = v
    <3>1. wires'[g.out] = r
      BY <1>1 DEF IInv, TypeOK
    <3> QED
      BY <1>1, <3>1, UngarbleGarbling DEF IInv
  <2>2. \A w \in Wires(C) : w # g.out => wires'[w] = wires[w]
    BY <1>1 DEF IInv, TypeOK
  <2>4. PlainWires' = [w \in Wires(C) |->
                         IF w \in DrivenNow' THEN Ungarble(w, wires'[w]) ELSE Unset]
    BY <1>3 DEF PlainWires, Ungarble
  <2>5. \A w \in Wires(C) : w # g.out =>
          PlainWires'[w] = PlainWires[w]
    BY <1>4, <2>2, <2>4 DEF PlainWires
  <2>6. PlainWires'[g.out] = v
    BY <1>1, <1>4, <2>1, <2>4
  <2>8. PlainWires' = [w \in Wires(C) |-> PlainWires'[w]]
    BY <2>4
  <2>9. PlainWires = [w \in Wires(C) |-> PlainWires[w]]
    BY DEF PlainWires
  <2> QED
    BY <1>1, <2>5, <2>6, <2>8, <2>9, Updated
<1>7. UNCHANGED PlainOutput
  BY <1>1, <1>3, <1>4 DEF PlainOutput
<1>8. PlainPc = "gates" /\ PlainPc' = "gates" /\ PlainI = i /\ PlainI' = i + 1
  BY <1>1 DEF PlainPc, PlainI, Garbling0
<1> QED
  BY <1>3, <1>5, <1>6, <1>7, <1>8 DEF Plain!EvalGateStep, Plain!evalGate, evalGate, g

LEMMA PlainStore == IInv /\ Decode => Plain!Store
<1> SUFFICES ASSUME IInv, Decode PROVE Plain!Store
  OBVIOUS
<1>1. IInv'
  BY DecodeInv
<1> USE DEF IInv, GarblingInv
<1> DEFINE w == C.outWLabels[i]
<1>2. /\ C \in Circuits /\ i \in Index(C.outSize) /\ i \in Nat /\ i' = i + 1
      /\ pc = "decode" /\ pc' = "decode" /\ i < C.outSize
      /\ UNCHANGED <<C, input, zk, ok, fixedKey, wires>>
  BY CircuitFacts DEF Decode, TypeOK, Index, keys
<1>3. /\ DecodesDone = i /\ DecodesDone' = i + 1
      /\ DrivenNow = Driven(C, C.numGates) /\ DrivenNow' = DrivenNow
  BY <1>2 DEF DecodesDone, DrivenNow, Garbling0
<1>4. UNCHANGED PlainWires
  BY <1>2, <1>3 DEF PlainWires, Ungarble
<1>5. PlainWires[w] = Ungarble(w, wires[w])
  BY <1>2, <1>3, CircuitFacts DEF PlainWires
<1>6. \A n \in Index(i + 1) : output'[n] = Ungarble(C.outWLabels[n], wires[C.outWLabels[n]])
  BY <1>1, <1>2, <1>3 DEF DecodedCorrect, Ungarble
<1>7. \A n \in Index(i) : output'[n] = output[n]
  <2>1. \A n \in Index(i) : output[n] = Ungarble(C.outWLabels[n], wires[C.outWLabels[n]])
    BY <1>3 DEF DecodedCorrect
  <2>2. \A n \in Index(i) : n \in Index(i + 1)
    BY <1>2 DEF Index
  <2> QED
    BY <1>6, <2>1, <2>2
<1>8. output'[i] = PlainWires[w]
  <2>1. i \in Index(i + 1)
    BY <1>2 DEF Index
  <2> QED
    BY <1>5, <1>6, <2>1
<1> HIDE DEF w
<1>9. PlainOutput' = [PlainOutput EXCEPT ![i] = PlainWires[w]]
  <2>1. PlainOutput' = [n \in Index(C.outSize) |-> IF n < i + 1 THEN output'[n] ELSE Unset]
    BY <1>2, <1>3 DEF PlainOutput
  <2>2. PlainOutput = [n \in Index(C.outSize) |-> IF n < i THEN output[n] ELSE Unset]
    BY <1>3 DEF PlainOutput
  <2>3. PlainOutput'[i] = PlainWires[w]
    BY <1>2, <1>8, <2>1
  <2>4. ASSUME NEW n \in Index(C.outSize), n # i
        PROVE  PlainOutput'[n] = PlainOutput[n]
    <3>1. n \in Int /\ i \in Int /\ (n < i + 1 <=> n < i) /\ (n < i => n \in Index(i))
      BY <1>2, <2>4 DEF Index
    <3> QED
      BY <1>7, <2>1, <2>2, <3>1
  <2>5. PlainOutput' = [n \in Index(C.outSize) |-> PlainOutput'[n]]
    BY <2>1
  <2>6. PlainOutput = [n \in Index(C.outSize) |-> PlainOutput[n]]
    BY <2>2
  <2> QED
    BY <1>2, <2>3, <2>4, <2>5, <2>6, Updated
<1>10. PlainPc = "store" /\ PlainPc' = "store" /\ PlainI = i /\ PlainI' = i + 1
  BY <1>2 DEF PlainPc, PlainI, Garbling0
<1> QED
  BY <1>2, <1>4, <1>9, <1>10 DEF Plain!Store, w

(* Garbling a circuit in the enclave, evaluating it at the owner and       *)
(* decoding the result is a correct way to run evalCircuit: it computes    *)
(* the same wires and the same output, gate by gate.                       *)
THEOREM GarbledEvaluationImplementsPlain == Spec => PlainSpec
<1>1. Init => Plain!Init
  BY PlainInit
<1>2. IInv /\ [Next]_vars => [Plain!Next]_(Plain!vars)
  <2> SUFFICES ASSUME IInv, [Next]_vars PROVE Plain!Next \/ UNCHANGED Plain!vars
    OBVIOUS
  <2>1. CASE \/ GarbleGates \/ GarbleInput \/ GarbleOutput
             \/ EndGarbleGates \/ EndGarbleInput \/ EndGarbleOutput
             \/ Copy \/ EndCopy \/ DecodeFails \/ UNCHANGED vars
    BY <2>1, PlainStutter
  <2>2. CASE EndLoad \/ EndGates \/ EndDecode
    BY <2>2, PlainLoopEnds
  <2>3. CASE Load
    BY <2>3, PlainLoad DEF Plain!Next
  <2>4. CASE EvalGates
    BY <2>4, PlainGate DEF Plain!Next
  <2>5. CASE Decode
    BY <2>5, PlainStore DEF Plain!Next
  <2> QED
    BY <2>1, <2>2, <2>3, <2>4, <2>5 DEF Next, Returned
<1> QED
  BY <1>1, <1>2, IInvAlways, PTL DEF Spec, PlainSpec, Plain!Spec
=============================================================================
