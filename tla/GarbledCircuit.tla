--------------------------- MODULE GarbledCircuit ---------------------------
(***************************************************************************)
(* Case 2's evaluation of a circuit: the enclave garbles it                *)
(* (garbledcircuit_enclave.c), the program owner evaluates the garbled     *)
(* circuit (garbledcircuit.c) and the enclave decodes the garbled output.  *)
(* One action per loop iteration, in the order of the code.                *)
(*                                                                         *)
(* A 16-byte block (struct key) is the set of its bits that are 1, so that *)
(* exclusive or is symmetric difference.  Bits stands for the 128 bits,    *)
(* LowBits for those of the first four bytes, where a wire label or a gate *)
(* index is stored, and SelBit for the lowest bit of byte 0, the bit of    *)
(* "point and permute".                                                    *)
(***************************************************************************)
EXTENDS Circuit

CONSTANTS
  Circuits,     \* the circuits the program may be given
  Unset,        \* EvalCircuit's array cell that was never written
  Bits,         \* the bits of a block
  LowBits,      \* the bits that hold a four-byte integer
  Stream,       \* the AES keystream block of each initial counter value
  GenKeys,      \* the blocks genKey may return
  Tails,        \* what the 12 unwritten bytes of the local T may hold
  StaleBlocks   \* what the part of its buffer that was not received may hold

SelBit == 0
FirstByte == 0..7
LetterA == {0, 6}       \* the bits of the character 'A'

Block == SUBSET Bits

ASSUME CircuitsAssumption == \A c \in Circuits : ValidCircuit(c)
ASSUME UnsetAssumption == Unset \notin Bit
ASSUME BitsAssumption == Bits \subseteq Nat /\ LowBits \subseteq Bits /\ SelBit \in LowBits
ASSUME StreamAssumption == Stream \in [Block -> Block]
ASSUME GenKeysAssumption == GenKeys \subseteq Block
ASSUME TailsAssumption == Tails \subseteq SUBSET (Bits \ LowBits)
ASSUME StaleBlocksAssumption == StaleBlocks \subseteq Block

-----------------------------------------------------------------------------
(* Blocks. *)

xorKeys(k0, k1) == (k0 \ k1) \cup (k1 \ k0)

(* A four-byte integer in memory. *)
IntBits(n) == {b \in LowBits : (n \div 2^b) % 2 = 1}

(* The first msgLen bytes (the bits in part) of msg, encrypted in CTR mode *)
(* with initial counter k, followed by the remaining bytes of k itself.    *)
encAES(k, msg, part) == (xorKeys(msg, Stream[k]) \cap part) \cup (k \ part)

readLastBit(k) == IF SelBit \in k THEN 1 ELSE 0

(* A mutant: the condition is the wrong way round. *)
writeLastBitUnless(k, b) == IF readLastBit(k) = b THEN xorKeys(k, {SelBit}) ELSE k

writeLastBit(k, b) == IF readLastBit(k) # b THEN xorKeys(k, {SelBit}) ELSE k

(* Only the first four bytes of the array T are assigned: tail is what the *)
(* others happen to hold.                                                  *)
fixedAESKeyEnc(A, B, gindex, X, fixedKey, tail) ==
  LET K == xorKeys(xorKeys(A, B), IntBits(gindex) \cup tail)
  IN  xorKeys(encAES(fixedKey, K, Bits), xorKeys(K, X))

fixedAESKeyDec(A, B, gindex, X, fixedKey, tail) ==
  LET K == xorKeys(xorKeys(A, B), IntBits(gindex) \cup tail)
  IN  xorKeys(encAES(fixedKey, K, Bits), xorKeys(K, X))

(* The garblings of the values 0 and 1 on wire w.  The one garbling is     *)
(* fixed up so that the two differ in the select bit.                      *)
ZeroGarbling(zeroKey, w) == encAES(zeroKey, IntBits(w), LowBits)

OneGarbling(zeroKey, oneKey, w) ==
  writeLastBit(encAES(oneKey, IntBits(w), LowBits),
               1 - readLastBit(ZeroGarbling(zeroKey, w)))

Garbling(zeroKey, oneKey, w, v) ==
  IF v = 0 THEN ZeroGarbling(zeroKey, w) ELSE OneGarbling(zeroKey, oneKey, w)

(* A garbled gate: each pair of input values has its row of the table,     *)
(* numbered by the select bits of the two garblings.  The record starts    *)
(* uninitialised; all four rows are assigned.                              *)
garbleGate(g, gindex, zeroKey, oneKey, fixedKey, tail) ==
  LET lab(w, v) == Garbling(zeroKey, oneKey, w, v)
      row(x, y) == 2 * readLastBit(lab(g.a, x)) + readLastBit(lab(g.b, y))
      enc(x, y) == fixedAESKeyEnc(lab(g.a, x), lab(g.b, y), gindex,
                                  lab(g.out, evalGate(g, x, y)), fixedKey,
                                  tail[x][y])
  IN  [a |-> g.a, b |-> g.b, out |-> g.out,
       ciphers |-> [[n \in 0..3 |-> {}] EXCEPT ![row(0, 0)] = enc(0, 0),
                                               ![row(0, 1)] = enc(0, 1),
                                               ![row(1, 0)] = enc(1, 0),
                                               ![row(1, 1)] = enc(1, 1)]]

evalGarbledGate(GG, gindex, A, B, fixedKey, tail) ==
  LET ct == GG.ciphers[2 * readLastBit(A) + readLastBit(B)]
  IN  fixedAESKeyDec(A, B, gindex, ct, fixedKey, tail)

-----------------------------------------------------------------------------

VARIABLES
  C,            \* parameter: the circuit
  input,        \* parameter: the input bits, checked to be 0 or 1 by the enclave
  zk, ok,       \* the keys that generate the garblings of 0 and of 1
  fixedKey,     \* the key that encrypts the rows
  pc,           \* the loop being executed
  i,            \* its loop variable
  ggates,       \* the garbled gates
  garbledInput, \* the garblings of the input bits
  outGarblings, \* both garblings of every output wire
  wires,        \* the garbled value of each wire
  goutput,      \* the garbled output
  output        \* the decoded output

keys == <<C, input, zk, ok, fixedKey>>
vars == <<keys, pc, i, ggates, garbledInput, outGarblings, wires, goutput, output>>

NoGate == [a |-> 0, b |-> 0, out |-> 0, ciphers |-> [n \in 0..3 |-> {}]]

(* The arrays are allocated with calloc. *)
Init ==
  /\ C \in Circuits
  /\ input \in [Index(C.inpSize) -> Bit]
  /\ zk \in GenKeys /\ ok \in GenKeys /\ fixedKey \in GenKeys
  /\ pc = "garbleGates"
  /\ i = 0
  /\ ggates = [n \in Index(C.numGates) |-> NoGate]
  /\ garbledInput = [n \in Index(C.inpSize) |-> {}]
  /\ outGarblings = [n \in Index(2 * C.outSize) |-> {}]
  /\ wires = [w \in Wires(C) |-> {}]
  /\ goutput = [n \in Index(C.outSize) |-> {}]
  /\ output = [n \in Index(C.outSize) |-> 0]

(* The end of a loop that runs to n, and the start of the next one. *)
EndLoop(from, n, to) ==
  /\ pc = from /\ i = n
  /\ pc' = to
  /\ i' = 0
  /\ UNCHANGED <<keys, ggates, garbledInput, outGarblings, wires, goutput, output>>

-----------------------------------------------------------------------------
(* In the enclave: garbleCircuit. *)

GarbleGates ==
  /\ pc = "garbleGates" /\ i < C.numGates
  /\ \E tail \in [Bit -> [Bit -> Tails]] :
        ggates' = [ggates EXCEPT ![i] =
                     garbleGate(C.gates[i], i, zk, ok, fixedKey, tail)]
  /\ i' = i + 1
  /\ UNCHANGED <<keys, pc, garbledInput, outGarblings, wires, goutput, output>>

EndGarbleGates == EndLoop("garbleGates", C.numGates, "garbleInput")

(* A bit that is neither 0 nor 1 would end the function here; getGCircuit, *)
(* the only caller, has already refused such an input.                     *)
GarbleInput ==
  /\ pc = "garbleInput" /\ i < C.inpSize
  /\ garbledInput' = [garbledInput EXCEPT ![i] = Garbling(zk, ok, i, input[i])]
  /\ i' = i + 1
  /\ UNCHANGED <<keys, pc, ggates, outGarblings, wires, goutput, output>>

EndGarbleInput == EndLoop("garbleInput", C.inpSize, "garbleOutput")

(* A mutant: the wires are taken for numbered like the outputs. *)
GarbleOutputOfIndex ==
  /\ pc = "garbleOutput" /\ i < C.outSize
  /\ outGarblings' = [outGarblings EXCEPT ![2 * i] = ZeroGarbling(zk, i),
                                          ![2 * i + 1] = OneGarbling(zk, ok, i)]
  /\ i' = i + 1
  /\ UNCHANGED <<keys, pc, ggates, garbledInput, wires, goutput, output>>

GarbleOutput ==
  /\ pc = "garbleOutput" /\ i < C.outSize
  /\ LET w == C.outWLabels[i] IN
       outGarblings' = [outGarblings EXCEPT ![2 * i] = ZeroGarbling(zk, w),
                                            ![2 * i + 1] = OneGarbling(zk, ok, w)]
  /\ i' = i + 1
  /\ UNCHANGED <<keys, pc, ggates, garbledInput, wires, goutput, output>>

EndGarbleOutput == EndLoop("garbleOutput", C.outSize, "load")

-----------------------------------------------------------------------------
(* At the program owner: evalGCircuit. *)

Load ==
  /\ pc = "load" /\ i < C.inpSize
  /\ wires' = [wires EXCEPT ![i] = garbledInput[i]]
  /\ i' = i + 1
  /\ UNCHANGED <<keys, pc, ggates, garbledInput, outGarblings, goutput, output>>

EndLoad == EndLoop("load", C.inpSize, "gates")

EvalGates ==
  /\ pc = "gates" /\ i < C.numGates
  /\ LET gg == ggates[i] IN
       \E tail \in Tails :
         wires' = [wires EXCEPT ![gg.out] =
                     evalGarbledGate(gg, i, wires[gg.a], wires[gg.b], fixedKey, tail)]
  /\ i' = i + 1
  /\ UNCHANGED <<keys, pc, ggates, garbledInput, outGarblings, goutput, output>>

EndGates == EndLoop("gates", C.numGates, "copy")

Copy ==
  /\ pc = "copy" /\ i < C.outSize
  /\ goutput' = [goutput EXCEPT ![i] = wires[C.outWLabels[i]]]
  /\ i' = i + 1
  /\ UNCHANGED <<keys, pc, ggates, garbledInput, outGarblings, wires, output>>

(* The owner sends goutput and the server, which does not look at the      *)
(* number of bytes that recv returned, passes its buffer to the enclave.   *)
(* A cell that was not received is not a garbling of its wire: it dates    *)
(* from another round, which had other keys.                               *)
EndCopy ==
  /\ pc = "copy" /\ i = C.outSize
  /\ \E received \in 0..C.outSize, stale \in StaleBlocks :
        /\ \A n \in received..(C.outSize - 1) :
              stale \notin {outGarblings[2 * n], outGarblings[2 * n + 1]}
        /\ goutput' = [n \in Index(C.outSize) |->
                         IF n < received THEN goutput[n] ELSE stale]
  /\ pc' = "decode"
  /\ i' = 0
  /\ UNCHANGED <<keys, ggates, garbledInput, outGarblings, wires, output>>

-----------------------------------------------------------------------------
(* In the enclave: decodeOutput. *)

(* A mutant: the number of the matching garbling is stored, not its bit. *)
DecodeNumber ==
  /\ pc = "decode" /\ i < C.outSize
  /\ \E n \in {2 * i, 2 * i + 1} :
        goutput[i] = outGarblings[n] /\ output' = [output EXCEPT ![i] = n]
  /\ i' = i + 1
  /\ UNCHANGED <<keys, pc, ggates, garbledInput, outGarblings, wires, goutput>>

Decode ==
  /\ pc = "decode" /\ i < C.outSize
  /\ \/ /\ goutput[i] = outGarblings[2 * i]
        /\ output' = [output EXCEPT ![i] = 0]
     \/ /\ goutput[i] # outGarblings[2 * i]
        /\ goutput[i] = outGarblings[2 * i + 1]
        /\ output' = [output EXCEPT ![i] = 1]
  /\ i' = i + 1
  /\ UNCHANGED <<keys, pc, ggates, garbledInput, outGarblings, wires, goutput>>

(* A mutant: the function returns as if all had been decoded. *)
DecodeFailsSilently ==
  /\ pc = "decode" /\ i < C.outSize
  /\ goutput[i] \notin {outGarblings[2 * i], outGarblings[2 * i + 1]}
  /\ pc' = "done"
  /\ UNCHANGED <<keys, i, ggates, garbledInput, outGarblings, wires, goutput, output>>

(* Neither garbling: the function puts an 'A' in its argument and gives up *)
(* without telling its caller; the remaining output bits keep calloc's 0.  *)
DecodeFails ==
  /\ pc = "decode" /\ i < C.outSize
  /\ goutput[i] \notin {outGarblings[2 * i], outGarblings[2 * i + 1]}
  /\ goutput' = [goutput EXCEPT ![0] = (@ \ FirstByte) \cup (LetterA \cap Bits)]
  /\ pc' = "failed"
  /\ UNCHANGED <<keys, i, ggates, garbledInput, outGarblings, wires, output>>

EndDecode ==
  /\ pc = "decode" /\ i = C.outSize
  /\ pc' = "done"
  /\ UNCHANGED <<keys, i, ggates, garbledInput, outGarblings, wires, goutput, output>>

Returned == pc \in {"done", "failed"} /\ UNCHANGED vars

Next ==
  \/ GarbleGates \/ EndGarbleGates
  \/ GarbleInput \/ EndGarbleInput
  \/ GarbleOutput \/ EndGarbleOutput
  \/ Load \/ EndLoad
  \/ EvalGates \/ EndGates
  \/ Copy \/ EndCopy
  \/ Decode \/ DecodeFails \/ EndDecode
  \/ Returned

Spec == Init /\ [][Next]_vars

-----------------------------------------------------------------------------
(* Properties. *)

TypeOK ==
  /\ C \in Circuits
  /\ input \in [Index(C.inpSize) -> Bit]
  /\ zk \in Block /\ ok \in Block /\ fixedKey \in Block
  /\ pc \in {"garbleGates", "garbleInput", "garbleOutput", "load", "gates",
             "copy", "decode", "failed", "done"}
  /\ i \in Nat
  /\ ggates \in [Index(C.numGates) ->
                   [a : Int, b : Int, out : Int, ciphers : [0..3 -> Block]]]
  /\ garbledInput \in [Index(C.inpSize) -> Block]
  /\ outGarblings \in [Index(2 * C.outSize) -> Block]
  /\ wires \in [Wires(C) -> Block]
  /\ goutput \in [Index(C.outSize) -> Block]
  /\ output \in [Index(C.outSize) -> Bit]

(* How far each phase has come: the cells of its array that are assigned.  *)
Garbling0 == {"garbleGates", "garbleInput", "garbleOutput"}

Progress(phase, before, n) ==
  IF pc = phase THEN i ELSE IF pc \in before THEN 0 ELSE n

GatesDone   == Progress("garbleGates", {}, C.numGates)
InputsDone  == Progress("garbleInput", {"garbleGates"}, C.inpSize)
OutputsDone == Progress("garbleOutput", {"garbleGates", "garbleInput"}, C.outSize)
CopiesDone  == Progress("copy", Garbling0 \cup {"load", "gates"}, C.outSize)

DecodesDone ==
  CASE pc \in {"decode", "failed"} -> i
    [] pc = "done"                 -> C.outSize
    [] OTHER                       -> 0

DrivenNow ==
  CASE pc \in Garbling0 -> {}
    [] pc = "load"       -> Index(i)
    [] pc = "gates"      -> Driven(C, i)
    [] OTHER             -> Driven(C, C.numGates)

(* The loop variable never passes the bound of its loop. *)
LoopBound ==
  CASE pc \in {"garbleGates", "gates"}   -> i <= C.numGates
    [] pc \in {"garbleInput", "load"}    -> i <= C.inpSize
    [] pc \in {"failed"}                 -> i < C.outSize
    [] OTHER                             -> i <= C.outSize

IsGarbling(w, k) == k \in {Garbling(zk, ok, w, v) : v \in Bit}

(* The bit that a garbling of wire w stands for. *)
Ungarble(w, k) == IF k = Garbling(zk, ok, w, 0) THEN 0 ELSE 1

(* Whatever the unwritten bytes of T hold, at the enclave then and at the  *)
(* owner now, the garbled gate gg takes the garblings of any two input     *)
(* values of the gate g to the garbling of g's value on them (garbleGate,  *)
(* evalGarbledGate).                                                       *)
GarbledCorrectly(gg, g, n, zeroKey, oneKey, key) ==
  /\ gg.a = g.a /\ gg.b = g.b /\ gg.out = g.out
  /\ \A x \in Bit, y \in Bit, tail \in Tails :
       evalGarbledGate(gg, n, Garbling(zeroKey, oneKey, g.a, x),
                       Garbling(zeroKey, oneKey, g.b, y), key, tail)
         = Garbling(zeroKey, oneKey, g.out, evalGate(g, x, y))

GatesCorrect ==
  \A n \in Index(GatesDone) :
    GarbledCorrectly(ggates[n], C.gates[n], n, zk, ok, fixedKey)

InputsCorrect ==
  \A n \in Index(InputsDone) : garbledInput[n] = Garbling(zk, ok, n, input[n])

OutGarblingsCorrect ==
  \A n \in Index(OutputsDone) :
    /\ outGarblings[2 * n] = Garbling(zk, ok, C.outWLabels[n], 0)
    /\ outGarblings[2 * n + 1] = Garbling(zk, ok, C.outWLabels[n], 1)

(* Every wire that the owner has computed holds one of that wire's two     *)
(* garblings (evalGCircuit).                                               *)
WiresGarbled == \A w \in DrivenNow : IsGarbling(w, wires[w])

(* A cell of the garbled output holds the garbling of its wire, or is one  *)
(* that was not received and is no garbling of the wire at all.            *)
GoutputCorrect ==
  pc # "failed" =>
    \A n \in Index(CopiesDone) :
      \/ goutput[n] = wires[C.outWLabels[n]]
      \/ ~ IsGarbling(C.outWLabels[n], goutput[n])

(* The decoded bits are those that the owner's wires stand for.            *)
DecodedCorrect ==
  \A n \in Index(DecodesDone) :
    output[n] = Ungarble(C.outWLabels[n], wires[C.outWLabels[n]])

(* The invariant: every phase has done its part correctly so far.          *)
GarblingInv ==
  /\ LoopBound
  /\ GatesCorrect
  /\ InputsCorrect
  /\ OutGarblingsCorrect
  /\ WiresGarbled
  /\ GoutputCorrect
  /\ DecodedCorrect

(* decodeOutput gives up only at a part of the output that did not arrive  *)
(* as the owner computed it, never at one that did.                        *)
FailsOnlyIfCut == [][pc' = "failed" => goutput[i] # wires[C.outWLabels[i]]]_vars

-----------------------------------------------------------------------------
(* The garbled evaluation implements the plain one.  The garbling phase    *)
(* and the copy to goutput are stuttering; a wire of the plain evaluation  *)
(* has the bit that the owner's garbled wire stands for.  A failed decode  *)
(* is a plain evaluation that stops before its end.                        *)

PlainPc ==
  CASE pc \in Garbling0                   -> "load"
    [] pc \in {"copy", "decode", "failed"} -> "store"
    [] OTHER                              -> pc

PlainI == IF pc \in Garbling0 \cup {"copy"} THEN 0 ELSE i

PlainWires ==
  [w \in Wires(C) |-> IF w \in DrivenNow THEN Ungarble(w, wires[w]) ELSE Unset]

PlainOutput ==
  [n \in Index(C.outSize) |-> IF n < DecodesDone THEN output[n] ELSE Unset]

Plain == INSTANCE EvalCircuit
           WITH pc <- PlainPc, i <- PlainI, wires <- PlainWires, output <- PlainOutput

(* Garble, evaluate and decode is a correct way to run evalCircuit.        *)
PlainSpec == Plain!Spec
=============================================================================

