---------------------------- MODULE MCEncryptor ----------------------------
(* TLC instance of Encryptor: blocks of two bytes of one bit, two counters *)
(* with keystreams that differ in every block.                             *)
EXTENDS Encryptor

MCByte(odd) == IF odd THEN Bits ELSE {}
MCAES == [cb \in Counters \X Index(SIZE) |->
            [k \in Index(BLOCK) |-> MCByte((cb[1] + cb[2] * (k + 1)) % 2 = 1)]]

MCGarbage == {[p \in Index(SIZE) |-> MCByte(p > 2)]}

(* A rotation that also turns one bit round. *)
MCCipher == [b \in Block |-> [k \in Index(BLOCK) |->
               IF k = 0 THEN b[BLOCK - 1] ELSE Bits \ b[k - 1]]]
MCDecipher == [b \in Block |-> [k \in Index(BLOCK) |->
               IF k = BLOCK - 1 THEN b[0] ELSE Bits \ b[k + 1]]]
=============================================================================
