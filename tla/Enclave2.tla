------------------------------ MODULE Enclave2 ------------------------------
(***************************************************************************)
(* The enclave of case 2 (Enclave.cpp): its global variables, and one      *)
(* action for each ECALL of Enclave.edl.  The server calls them from one   *)
(* thread, so an ECALL is a step.                                          *)
(*                                                                         *)
(* A result is the program and the inputs it was computed from.            *)
(*                                                                         *)
(* Where the code has undefined behaviour (a null or dangling pointer, a   *)
(* write past the end of a block, a nonsensical size) the enclave crashes, *)
(* or goes on with what the memory happens to hold.  Once a byte has been  *)
(* written past the end of a block that can happen wherever the heap is    *)
(* used.  After a crash every ECALL returns an error, at which the server  *)
(* never looks.                                                            *)
(***************************************************************************)
EXTENDS Messages

CONSTANTS NULL

ASSUME NullAssumption == NULL \notin [Clients -> Nat \cup {Junk}]
ASSUME ResultsAssumption == Junk \notin [program : Nat, inputs : [Clients -> Nat]]

VARIABLES
  enclave,            \* "running" or "crashed"
  com_to_client_key,  \* the counter shared with each client
  com_key_program,    \* the counter shared with the program owner
  datainput,          \* the clients' inputs, NULL between rounds
  freed,              \* what the last freed datainput held
  damaged,            \* was a byte written outside of the block it was meant for?
  C,                  \* the circuit, and the state of its pointers
  outGarblings,       \* the output garblings of a result, and their pointer
  output,             \* the decoded result, and its pointer
  outbuf              \* what the server finds in its [out] buffer

state == <<com_to_client_key, com_key_program, datainput, freed,
           damaged, C, outGarblings, output>>
enclaveVars == <<enclave, state, outbuf>>

(* The number of inputs that datainput has room for: malloc((len-1)*2). *)
Room == 2

Pointer == {"null", "live", "dangling"}

Result(program, inputs) == [program |-> program, inputs |-> inputs]

EnclaveInit ==
  /\ enclave = "running"
  /\ com_to_client_key = [c \in Clients |-> c]
  /\ com_key_program = 0
  /\ datainput = NULL
  /\ freed = [c \in Clients |-> Junk]
  /\ damaged = FALSE
  /\ C = [program |-> Junk, gates |-> "null", inpSizes |-> "null"]
  /\ outGarblings = [ptr |-> "null", v |-> Junk]
  /\ output = [ptr |-> "null", v |-> Junk]
  /\ outbuf = Nothing

-----------------------------------------------------------------------------

Running == enclave = "running" /\ UNCHANGED enclave

EcallFails ==
  /\ enclave = "crashed"
  /\ outbuf' = Nothing
  /\ UNCHANGED <<enclave, state>>

Crash ==
  /\ enclave = "running"
  /\ enclave' = "crashed"
  /\ outbuf' = Nothing
  /\ UNCHANGED state

(* A new datainput block may hold what the last one held, except where the *)
(* allocator has put its links. *)
NewInputs == {[c \in Clients |-> IF c \in kept THEN freed[c] ELSE Junk]
                : kept \in SUBSET {c \in Clients : freed[c] # Junk}}

passInput(id, m) ==
  \/ /\ Running
     /\ \E buf \in IF datainput = NULL THEN NewInputs ELSE {datainput} :
          datainput' = [buf EXCEPT ![id] = Decrypt(com_to_client_key[id], m)]
     /\ com_to_client_key' = [com_to_client_key EXCEPT ![id] = @ + 1]
     /\ damaged' = (damaged \/ id >= Room)
     /\ UNCHANGED <<com_key_program, freed, C, outGarblings, output, outbuf>>
  \/ (damaged \/ id >= Room) /\ Crash
  \/ EcallFails

(* A mutant: a program that is already there is not replaced. *)
passProgramOnce(m) ==
  LET v == Decrypt(com_key_program, m) IN
  \/ /\ Running
     /\ C' = [program |-> IF C.program = Junk THEN v ELSE C.program,
              gates |-> "live", inpSizes |-> "live"]
     /\ com_key_program' = com_key_program + 1
     /\ UNCHANGED <<com_to_client_key, datainput, freed, damaged, outGarblings, output,
                    outbuf>>
  \/ EcallFails

(* decryptProgram allocates the arrays of C without freeing the old ones.  *)
(* If the length in the buffer is nonsense the ECALL may be refused.       *)
passProgram(m) ==
  LET v == Decrypt(com_key_program, m) IN
  \/ /\ Running
     /\ C' = [program |-> v, gates |-> "live", inpSizes |-> "live"]
     /\ com_key_program' = com_key_program + 1
     /\ UNCHANGED <<com_to_client_key, datainput, freed, damaged, outGarblings, output,
                    outbuf>>
  \/ (v = Junk \/ damaged) /\ Crash
  \/ m = Nothing /\ Running /\ UNCHANGED <<state, outbuf>>
  \/ EcallFails

-----------------------------------------------------------------------------

(* A mutant: the counter is incremented all the same. *)
RefuseInputInStep ==
  /\ Running
  /\ outbuf' = Nothing
  /\ com_key_program' = com_key_program + 1
  /\ UNCHANGED <<com_to_client_key, datainput, freed, damaged, C, outGarblings, output>>

(* An input that is not binary: the buffer goes back as the bridge made    *)
(* it, and nothing is freed. *)
RefuseInput ==
  /\ Running
  /\ outbuf' = Nothing
  /\ UNCHANGED state

Garble(v) ==
  /\ Running
  /\ outGarblings' = [ptr |-> "live", v |-> v]
  /\ outbuf' = Encrypt(com_key_program, v)
  /\ com_key_program' = com_key_program + 1
  /\ C' = [C EXCEPT !.gates = "dangling"]
  /\ UNCHANGED <<com_to_client_key, datainput, freed, damaged, output>>

getGCircuit ==
  LET usable == C.program # Junk /\ C.gates = "live"
      binary == datainput # NULL /\ \A c \in Clients : datainput[c] # Junk
  IN
  \/ usable /\ binary /\ Garble(Result(C.program, datainput))
  \/ usable /\ datainput # NULL /\ ~binary /\ RefuseInput
  \/ usable /\ datainput = NULL /\ Crash
  \/ (~usable \/ damaged) /\ (Garble(Junk) \/ RefuseInput \/ Crash)
  \/ EcallFails

(* A mutant: outGarblings is not freed. *)
passGoutputLeaks(v) ==
  \/ /\ Running
     /\ outGarblings.ptr # "null"
     /\ output' = [ptr |-> "live", v |-> IF v = outGarblings.v THEN v ELSE Junk]
     /\ freed' = IF datainput = NULL THEN freed ELSE datainput
     /\ datainput' = NULL
     /\ UNCHANGED <<com_to_client_key, com_key_program, damaged, C, outGarblings, outbuf>>
  \/ EcallFails

(* Decoding anything but the garbled output of these output garblings      *)
(* stops at the first key that does not match.                             *)
passGoutput(v) ==
  \/ /\ Running
     /\ outGarblings.ptr # "null"
     /\ output' = [ptr |-> "live",
                   v |-> IF outGarblings.ptr = "live" /\ v = outGarblings.v
                         THEN v ELSE Junk]
     /\ freed' = IF datainput = NULL THEN freed ELSE datainput
     /\ datainput' = NULL
     /\ outGarblings' = [outGarblings EXCEPT !.ptr = "dangling"]
     /\ UNCHANGED <<com_to_client_key, com_key_program, damaged, C, outbuf>>
  \/ (outGarblings.ptr # "live" \/ C.program = Junk \/ damaged) /\ Crash
  \/ EcallFails

(* A mutant: the counter is not incremented. *)
getOutputOutOfStep(id) ==
  \/ /\ Running
     /\ id \in Clients
     /\ outbuf' = Encrypt(com_to_client_key[id], output.v)
     /\ UNCHANGED state
  \/ EcallFails

(* The client's number comes from sock_client_map, which may be unset: a   *)
(* number that is no client's makes the enclave read a counter, and count  *)
(* up, outside of com_to_client_key, in another block or in none.          *)
getOutputFromEnclave(id) ==
  \/ /\ Running
     /\ id \in Clients /\ output.ptr # "null"
     /\ \E v \in IF output.ptr = "live" THEN {output.v} ELSE {output.v, Junk} :
          outbuf' = Encrypt(com_to_client_key[id], v)
     /\ com_to_client_key' = [com_to_client_key EXCEPT ![id] = @ + 1]
     /\ UNCHANGED <<com_key_program, datainput, freed, damaged, C, outGarblings, output>>
  \/ /\ Running
     /\ id \notin Clients /\ output.ptr # "null"
     /\ outbuf' = Nothing
     /\ damaged' \in {damaged, TRUE}
     /\ UNCHANGED <<com_to_client_key, com_key_program, datainput, freed, C, outGarblings,
                    output>>
  \/ (id \notin Clients \/ output.ptr # "live" \/ C.program = Junk) /\ Crash
  \/ EcallFails

freeEnc ==
  \/ /\ Running
     /\ output' = IF output.ptr = "null" THEN output ELSE [output EXCEPT !.ptr = "dangling"]
     /\ C' = IF C.inpSizes = "null" THEN C ELSE [C EXCEPT !.inpSizes = "dangling"]
     /\ UNCHANGED <<com_to_client_key, com_key_program, datainput, freed, damaged,
                    outGarblings, outbuf>>
  \/ (output.ptr = "dangling" \/ C.inpSizes = "dangling" \/ damaged) /\ Crash
  \/ EcallFails
=============================================================================
