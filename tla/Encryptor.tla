------------------------------ MODULE Encryptor ------------------------------
(***************************************************************************)
(* inc/Encryptor.cpp: what is encrypted in one buffer, copied to another   *)
(* place in a second one, and decrypted there, perhaps in part.            *)
(*                                                                         *)
(* AES under the one fixed key is the vendored library's: any permutation  *)
(* of blocks.  encrypt_ipp2 is its counter mode; the counter block is the  *)
(* caller's counter (8 bytes) and the number of the block in the message   *)
(* (8 bytes, from 0).  encrypt_ipp is its CBC mode, which fails on a part  *)
(* of a block; nobody looks at the error, and the message is then what     *)
(* malloc returned.  A byte is the set of its one bits.                    *)
(***************************************************************************)
EXTENDS Integers

CONSTANTS
  Bits,         \* the bits of a byte
  BLOCK,        \* the bytes of a block (16)
  SIZE,         \* bound: the bytes of a buffer
  Counters,     \* the values of IV_counter
  AES,          \* the encryption of a counter block
  Cipher, Decipher,  \* the encryption of a block, and its inverse
  Garbage       \* what a block of malloc may hold

Index(n) == 0..(n - 1)
Byte == SUBSET Bits
Block == [Index(BLOCK) -> Byte]

ASSUME BlockAssumption == BLOCK \in Nat \ {0} /\ SIZE \in Nat
ASSUME AESAssumption == AES \in [Counters \X Index(SIZE) -> Block]
ASSUME CipherAssumption ==
  /\ Cipher \in [Block -> Block] /\ Decipher \in [Block -> Block]
  /\ \A b \in Block : Decipher[Cipher[b]] = b
ASSUME GarbageAssumption == Garbage \subseteq [Index(SIZE) -> Byte]

VARIABLES
  pc,
  mode,         \* "CTR" or "CBC"
  plain,        \* auxiliary: the sender's buffer before the encryption
  message, start, size,    \* the sender's buffer, and what it encrypts of it
  received, at, len,       \* the receiver's buffer, and what it decrypts of it
  IV, IV2,      \* the counters of the two ends
  heap          \* what malloc returned

vars == <<pc, mode, plain, message, start, size, received, at, len, IV, IV2, heap>>

Xor(x, y) == (x \ y) \cup (y \ x)
XorBlock(x, y) == [k \in Index(BLOCK) |-> Xor(x[k], y[k])]

Range(o, n) == o..(o + n - 1)

(* A mutant: the blocks are those of the buffer, not of the message. *)
encrypt_ipp2Aligned(m, o, n, iv) ==
  [p \in DOMAIN m |->
     IF p \in Range(o, n) THEN Xor(m[p], AES[<<iv, p \div BLOCK>>][p % BLOCK])
     ELSE m[p]]

(* Counter mode: the same for encryption and decryption. *)
encrypt_ipp2(m, o, n, iv) ==
  [p \in DOMAIN m |->
     IF p \in Range(o, n)
     THEN Xor(m[p], AES[<<iv, (p - o) \div BLOCK>>][(p - o) % BLOCK])
     ELSE m[p]]

(* Block b of the n bytes of m from o on. *)
BlockOf(m, o, b) == [k \in Index(BLOCK) |-> m[o + b * BLOCK + k]]

(* CBC: each block is mixed with the one encrypted before it, the first    *)
(* with a block that only depends on the counter.                          *)
Chain(m, o, n, iv) ==
  LET c[b \in -1..(n \div BLOCK)] ==
        IF b = -1 THEN AES[<<iv, 0>>] ELSE Cipher[XorBlock(BlockOf(m, o, b), c[b - 1])]
  IN  c

(* A mutant: the vector is not replaced by the block before. *)
UnchainSameVector(m, o, n, iv) ==
  [b \in Index(n \div BLOCK) |->
     XorBlock(Decipher[BlockOf(m, o, b)], AES[<<iv, 0>>])]

Unchain(m, o, n, iv) ==
  [b \in Index(n \div BLOCK) |->
     XorBlock(Decipher[BlockOf(m, o, b)],
              IF b = 0 THEN AES[<<iv, 0>>] ELSE BlockOf(m, o, b - 1))]

encrypt_ipp(m, o, n, op, iv) ==
  LET blocks == IF op = 1 THEN Chain(m, o, n, iv) ELSE Unchain(m, o, n, iv) IN
    [p \in DOMAIN m |->
       IF p \notin Range(o, n) THEN m[p]
       ELSE IF n % BLOCK # 0 THEN heap[p - o]
       ELSE blocks[(p - o) \div BLOCK][(p - o) % BLOCK]]

Encrypt(m, o, n, op, iv) ==
  IF mode = "CTR" THEN encrypt_ipp2(m, o, n, iv) ELSE encrypt_ipp(m, o, n, op, iv)

-----------------------------------------------------------------------------

(* The receiver's buffer is at least as long as what it decrypts; of its   *)
(* contents, before, nothing is known.                                     *)
Init ==
  /\ pc = "encrypt"
  /\ mode \in {"CTR", "CBC"}
  /\ plain \in [Index(SIZE) -> Byte] /\ message = plain
  /\ start \in Index(SIZE) /\ size \in 1..(SIZE - start)
  /\ at \in 0..(SIZE - size) /\ len \in 1..size
  /\ heap \in Garbage /\ received = heap
  /\ IV \in Counters /\ IV2 \in Counters

Encrypt_Com ==
  /\ pc = "encrypt"
  /\ message' = Encrypt(message, start, size, 1, IV)
  /\ pc' = "copy"
  /\ UNCHANGED <<mode, plain, start, size, received, at, len, IV, IV2, heap>>

(* The message is sent, and stored at another place. *)
Copy ==
  /\ pc = "copy"
  /\ received' = [p \in Index(SIZE) |->
       IF p \in Range(at, size) THEN message[p - at + start] ELSE received[p]]
  /\ pc' = "decrypt"
  /\ UNCHANGED <<mode, plain, message, start, size, at, len, IV, IV2, heap>>

Decrypt_Com ==
  /\ pc = "decrypt"
  /\ received' = Encrypt(received, at, len, 2, IV2)
  /\ pc' = "done"
  /\ UNCHANGED <<mode, plain, message, start, size, at, len, IV, IV2, heap>>

Returned == pc = "done" /\ UNCHANGED vars

Next == Encrypt_Com \/ Copy \/ Decrypt_Com \/ Returned

Spec == Init /\ [][Next]_vars

-----------------------------------------------------------------------------

TypeOK ==
  /\ pc \in {"encrypt", "copy", "decrypt", "done"}
  /\ mode \in {"CTR", "CBC"}
  /\ plain \in [Index(SIZE) -> Byte]
  /\ message \in [Index(SIZE) -> Byte]
  /\ received \in [Index(SIZE) -> Byte]
  /\ start \in Nat /\ size \in Nat /\ at \in Nat /\ len \in Nat
  /\ IV \in Counters /\ IV2 \in Counters /\ heap \in Garbage

(* With equal counters, what was encrypted at one place of a buffer is     *)
(* read back at any other place, whatever the lengths, and also by a       *)
(* receiver that decrypts the front part only, as case 1's enclave does    *)
(* with a padded input.                                                    *)
FrontPartReadable ==
  pc = "done" /\ mode = "CTR" /\ IV = IV2 =>
    \A k \in Index(len) : received[at + k] = plain[start + k]

(* CBC reads back whole blocks, and also the first blocks only.            *)
WholeBlocksReadable ==
  pc = "done" /\ mode = "CBC" /\ IV = IV2 /\ size % BLOCK = 0 /\ len % BLOCK = 0 =>
    \A k \in Index(len) : received[at + k] = plain[start + k]
=============================================================================
