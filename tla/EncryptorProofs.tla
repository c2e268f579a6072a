--------------------------- MODULE EncryptorProofs ---------------------------
(***************************************************************************)
(* Proofs about Encryptor, for every size of block and of buffer, every    *)
(* place and length of a message and every function in place of AES.       *)
(* Nothing is proved about what CBC reads back: its chain is recursive.    *)
(***************************************************************************)
EXTENDS Encryptor, TLAPS

(* Where the message lies in the two buffers, whatever they hold.          *)
Places ==
  /\ start \in Nat /\ size \in Nat /\ at \in Nat /\ len \in Nat
  /\ start + size <= SIZE /\ at + size <= SIZE /\ len <= size
  /\ DOMAIN plain = Index(SIZE)
  /\ DOMAIN message = Index(SIZE) /\ DOMAIN received = Index(SIZE)
  /\ mode \in {"CTR", "CBC"} /\ pc \in {"encrypt", "copy", "decrypt", "done"}

(* Byte k of a message under the keystream of a counter. *)
Masked(b, k, iv) == Xor(b, AES[<<iv, k \div BLOCK>>][k % BLOCK])

(* How far byte k of the message has got. *)
MessageInv ==
  \A k \in Index(size) :
    /\ pc = "encrypt" => message[start + k] = plain[start + k]
    /\ pc # "encrypt" /\ mode = "CTR" =>
         message[start + k] = Masked(plain[start + k], k, IV)
    /\ pc = "decrypt" => received[at + k] = message[start + k]
    /\ pc = "done" /\ mode = "CTR" /\ IV = IV2 /\ k < len =>
         received[at + k] = plain[start + k]

Inv == Places /\ MessageInv

(* Masking twice with the same bits gives the byte back.                   *)
LEMMA XorTwice == ASSUME NEW x, NEW y PROVE Xor(Xor(x, y), y) = x
  BY DEF Xor

(* Either mode keeps the length of a buffer. *)
LEMMA EncryptKeepsLength ==
  ASSUME NEW m, NEW o, NEW n, NEW op, NEW iv
  PROVE  DOMAIN Encrypt(m, o, n, op, iv) = DOMAIN m
  <1>1. CASE mode = "CTR"
    BY <1>1 DEF Encrypt, encrypt_ipp2
  <1>2. CASE mode # "CTR"
    BY <1>2 DEF Encrypt, encrypt_ipp
  <1> QED BY <1>1, <1>2

(* In counter mode, byte k of the message is masked as byte k of any other *)
(* message, wherever it lies in the buffer.                                *)
LEMMA EncryptInside ==
  ASSUME NEW m, NEW o \in Nat, NEW n \in Nat, NEW op, NEW iv, NEW k \in Index(n),
         o + n <= SIZE, DOMAIN m = Index(SIZE), mode = "CTR", SIZE \in Nat
  PROVE  Encrypt(m, o, n, op, iv)[o + k] = Masked(m[o + k], k, iv)
  <1>1. o + k \in DOMAIN m /\ o + k \in Range(o, n) /\ (o + k) - o = k
    BY DEF Index, Range
  <1> QED BY <1>1 DEF Encrypt, encrypt_ipp2, Masked

LEMMA InitInv == Init => Inv
  <1> SUFFICES ASSUME Init PROVE Inv OBVIOUS
  <1>1. SIZE \in Nat BY BlockAssumption
  <1>2. Places
    BY <1>1, GarbageAssumption DEF Init, Places, Index
  <1>3. MessageInv
    BY DEF Init, MessageInv
  <1> QED BY <1>2, <1>3 DEF Inv

LEMMA StepInv == Inv /\ [Next]_vars => Inv'
  <1> SUFFICES ASSUME Inv, [Next]_vars PROVE Inv' OBVIOUS
  <1>0. SIZE \in Nat BY BlockAssumption
  <1>p. Places BY DEF Inv
  <1>1. CASE Encrypt_Com
    <2>1. DOMAIN message' = Index(SIZE)
      BY <1>1, <1>p, EncryptKeepsLength DEF Encrypt_Com, Places
    <2>2. Places'
      BY <1>1, <1>p, <2>1 DEF Encrypt_Com, Places
    <2>3. ASSUME NEW k \in Index(size), mode = "CTR"
          PROVE  message'[start + k] = Masked(plain[start + k], k, IV)
      <3>1. message[start + k] = plain[start + k]
        BY <1>1 DEF Inv, MessageInv, Encrypt_Com
      <3> QED BY <1>0, <1>1, <1>p, <2>3, <3>1, EncryptInside DEF Encrypt_Com, Places
    <2>4. MessageInv'
      BY <1>1, <2>3 DEF Encrypt_Com, MessageInv, Masked
    <2> QED BY <2>2, <2>4 DEF Inv
  <1>2. CASE Copy
    <2>1. Places'
      BY <1>2, <1>p DEF Copy, Places
    <2>2. ASSUME NEW k \in Index(size)
          PROVE  received'[at + k] = message[start + k]
      <3>1. /\ at + k \in Index(SIZE) /\ at + k \in Range(at, size)
            /\ (at + k) - at + start = start + k
        BY <1>0, <1>p DEF Places, Index, Range
      <3> QED BY <1>2, <3>1 DEF Copy
    <2>3. MessageInv'
      BY <1>2, <2>2 DEF Copy, Inv, MessageInv, Masked
    <2> QED BY <2>1, <2>3 DEF Inv
  <1>3. CASE Decrypt_Com
    <2>1. Places'
      BY <1>3, <1>p, EncryptKeepsLength DEF Decrypt_Com, Places
    <2>2. ASSUME NEW k \in Index(size), mode = "CTR", IV = IV2, k < len
          PROVE  received'[at + k] = plain[start + k]
      <3>1. k \in Index(len) /\ at + len <= SIZE
        BY <1>0, <1>p, <2>2 DEF Places, Index
      <3>2. received'[at + k] = Masked(received[at + k], k, IV2)
        BY <1>0, <1>3, <1>p, <2>2, <3>1, EncryptInside DEF Decrypt_Com, Places
      <3>3. received[at + k] = Masked(plain[start + k], k, IV)
        BY <1>3, <2>2 DEF Decrypt_Com, Inv, MessageInv
      <3> QED BY <2>2, <3>2, <3>3, XorTwice DEF Masked
    <2>3. MessageInv'
      BY <1>3, <2>2 DEF Decrypt_Com, Inv, MessageInv, Masked
    <2> QED BY <2>1, <2>3 DEF Inv
  <1>4. CASE UNCHANGED vars
    BY <1>4 DEF vars, Inv, Places, MessageInv, Masked
  <1> QED BY <1>1, <1>2, <1>3, <1>4 DEF Next, Returned

(* Every byte of a message is masked by the sender and, if the counters    *)
(* agree, unmasked by the receiver (encrypt_ipp2).                         *)
THEOREM InvHolds == Spec => []Inv
  BY InitInv, StepInv, PTL DEF Spec

(* A receiver with the sender's counter reads back the front part of any   *)
(* length of a message, wherever it lies in the two buffers                *)
(* (encrypt_ipp2, Encrypt_Com).                                            *)
THEOREM FrontPartIsReadable == Spec => []FrontPartReadable
  <1>1. Inv => FrontPartReadable
    <2> SUFFICES ASSUME Inv, pc = "done", mode = "CTR", IV = IV2, NEW k \in Index(len)
                 PROVE  received[at + k] = plain[start + k]
      BY DEF FrontPartReadable
    <2>1. k \in Index(size) /\ k < len
      BY DEF Inv, Places, Index
    <2> QED BY <2>1 DEF Inv, MessageInv
  <1> QED BY <1>1, InvHolds, PTL
==============================================================================
