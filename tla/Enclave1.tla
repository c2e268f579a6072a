------------------------------ MODULE Enclave1 ------------------------------
(***************************************************************************)
(* The enclave of case 1 (Enclave.cpp): its global variables, and one      *)
(* action for each ECALL of Enclave.edl.  The server calls them from one   *)
(* thread, so an ECALL is a step.                                          *)
(*                                                                         *)
(* The circuit's arrays stay in the server's memory: the enclave copies    *)
(* only the struct, with its pointers, here the number of a block.  A      *)
(* result is the inputs that the circuit was evaluated on, a function from *)
(* the clients to the rounds they sent them in.                            *)
(***************************************************************************)
EXTENDS Messages

CONSTANTS NoCircuit   \* the pointers of a struct that was never assigned

ASSUME ResultsAssumption == Junk \notin [Clients -> Nat]

VARIABLES
  enclave,            \* "running" or "crashed"
  com_to_client_key,  \* the counter shared with each client
  cur,                \* the block that holds the circuit
  output              \* the last result

enclaveVars == <<enclave, com_to_client_key, cur, output>>

EnclaveInit ==
  /\ enclave = "running"
  /\ com_to_client_key = [c \in Clients |-> c]
  /\ cur = NoCircuit
  /\ output = Junk

(* An ECALL on a crashed enclave returns an error, at which the server     *)
(* never looks.                                                            *)
EcallFails == enclave = "crashed" /\ UNCHANGED enclaveVars

passCircuit(c) ==
  /\ enclave = "running"
  /\ cur' = c
  /\ UNCHANGED <<enclave, com_to_client_key, output>>

(* A mutant: an input that is not binary is refused.                       *)
passInputOrRefuse(inputs) ==
  LET v == [c \in Clients |-> Decrypt(com_to_client_key[c], inputs[c])] IN
  \/ /\ enclave = "running"
     /\ IF \E c \in Clients : v[c] = Junk THEN UNCHANGED <<com_to_client_key, output>>
        ELSE /\ com_to_client_key' = [c \in Clients |-> com_to_client_key[c] + 1]
             /\ output' = v
     /\ UNCHANGED <<enclave, cur>>
  \/ EcallFails

(* Decrypt all inputs and evaluate the circuit.  What is not binary is     *)
(* reported and evaluated all the same, to a meaningless result.           *)
passInput(inputs) ==
  LET v == [c \in Clients |-> Decrypt(com_to_client_key[c], inputs[c])] IN
  \/ /\ enclave = "running"
     /\ com_to_client_key' = [c \in Clients |-> com_to_client_key[c] + 1]
     /\ output' = IF Junk \in {v[c] : c \in Clients} THEN Junk ELSE v
     /\ UNCHANGED <<enclave, cur>>
  \/ EcallFails

(* What the ECALL leaves in the server's buffer, which held old. *)
OutputMessage(id, old) ==
  IF enclave' = "crashed" THEN old
  ELSE IF id \in Clients THEN Encrypt(com_to_client_key[id], output) ELSE Nothing

(* A mutant: the counter is not incremented. *)
getOutputOutOfStep(id) ==
  \/ enclave = "running" /\ UNCHANGED enclaveVars
  \/ EcallFails

(* A number that is no client's reads and counts up some other memory,     *)
(* which may be the result's. *)
getOutputFromEnclave(id) ==
  \/ /\ enclave = "running" /\ id \in Clients
     /\ com_to_client_key' = [com_to_client_key EXCEPT ![id] = @ + 1]
     /\ UNCHANGED <<enclave, cur, output>>
  \/ /\ enclave = "running" /\ id \notin Clients
     /\ enclave' \in {"running", "crashed"}
     /\ output' \in {output, Junk}
     /\ UNCHANGED <<com_to_client_key, cur>>
  \/ EcallFails
=============================================================================
