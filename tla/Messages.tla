------------------------------ MODULE Messages ------------------------------
(***************************************************************************)
(* The encrypted messages that the peers exchange with the enclave.        *)
(*                                                                         *)
(* An input or a program is the number of the round its owner sent it in.  *)
(* Encryption (Encryptor.cpp) is a counter mode under one fixed key; the   *)
(* counter is the "com_key" of the two ends, here counted from the value   *)
(* that client 0 starts with.  A message is a value and the counter it was *)
(* encrypted with, and decrypts to Junk with any other.  Junk is also what *)
(* uninitialised memory holds, and an input that is not binary.            *)
(***************************************************************************)
EXTENDS Integers, Sequences

CONSTANTS
  NUM_OF_CLIENTS, \* the data owners are numbered from 0
  Junk            \* a meaningless value

ASSUME ClientsAssumption == NUM_OF_CLIENTS \in Nat \ {0}
ASSUME JunkAssumption == Junk \notin Nat

Clients == 0..(NUM_OF_CLIENTS - 1)

Encrypt(counter, v) == [key |-> counter, v |-> v]

(* A mutant: both ends use one counter for everything. *)
DecryptAny(counter, m) == m.v

Decrypt(counter, m) == IF m.key = counter THEN m.v ELSE Junk

(* A buffer into which nothing was written. *)
Nothing == [key |-> -1, v |-> Junk]
=============================================================================
