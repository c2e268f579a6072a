------------------------------ MODULE PfeCase1 ------------------------------
(***************************************************************************)
(* Case 1 as a whole: the data owners (DataOwner), the server (server.c),  *)
(* which is also the program owner, and its enclave (Enclave1), connected  *)
(* by TCP (Sockets).  One action per blocking call or ECALL, with the      *)
(* local work up to the next one.                                          *)
(***************************************************************************)
EXTENDS Enclave1, DataOwner

CONSTANTS
  Unknown,      \* an entry of sock_client_map that was never assigned
  Blocks        \* the blocks of memory that the server's circuits may use

ASSUME PeersAssumption == Peers = Clients
ASSUME BlocksAssumption == NoCircuit \notin Blocks
ASSUME UnknownAssumption == Unknown \notin Clients

VARIABLES
  spc, i, client_sock, sock_client_map,
  read,             \* has any client sent an input in this round?
  enclave_message,  \* each client's place in the message to the enclave
  output_message,   \* the message to a client
  C,                \* the block that holds the server's circuit
  heap              \* the blocks in use

serverVars == <<spc, i, client_sock, sock_client_map, read, enclave_message,
                output_message, C, heap>>
peerVars == <<scenario, clientVars>>
vars == <<peerVars, backlog, serverVars, enclaveVars, sockets>>

Init ==
  /\ DataOwnerInit
  /\ spc = "start" /\ i = 0
  /\ client_sock = <<>>
  /\ sock_client_map = [n \in Clients |-> Unknown]
  /\ read = FALSE
  /\ enclave_message = [c \in Clients |-> Nothing]
  /\ output_message = Nothing
  /\ C = NoCircuit /\ heap = {}
  /\ EnclaveInit
  /\ SocketsInit

-----------------------------------------------------------------------------

Client(c) == DataOwner(c) /\ UNCHANGED <<serverVars, enclaveVars>>

-----------------------------------------------------------------------------
(* The server. *)

(* i counts the clients. *)
Goto(pc, n) == spc' = pc /\ i' = n

readBRISCircuit ==
  \E b \in Blocks \ heap : C' = b /\ heap' = heap \cup {b}

Start ==
  /\ spc = "start"
  /\ readBRISCircuit
  /\ passCircuit(C')
  /\ Goto("accept", 0)
  /\ UNCHANGED <<peerVars, backlog, client_sock, sock_client_map, read,
                 enclave_message, output_message, sockets>>

Accept ==
  /\ spc = "accept"
  /\ backlog # <<>>
  /\ client_sock' = Append(client_sock, Head(backlog))
  /\ backlog' = Tail(backlog)
  /\ IF i + 1 < NUM_OF_CLIENTS THEN Goto("accept", i + 1) ELSE Goto("newRound", 0)
  /\ UNCHANGED <<peerVars, sock_client_map, read, enclave_message, output_message,
                 C, heap, enclaveVars, sockets>>

(* A mutant: the circuit is not read again. *)
NewRoundSameCircuit ==
  /\ spc = "newRound"
  /\ read' = FALSE
  /\ Goto("recvInput", 0)
  /\ UNCHANGED <<peerVars, backlog, client_sock, sock_client_map, enclave_message,
                 output_message, C, heap, enclaveVars, sockets>>

NewRound ==
  /\ spc = "newRound"
  /\ readBRISCircuit
  /\ read' = FALSE
  /\ Goto("recvInput", 0)
  /\ UNCHANGED <<peerVars, backlog, client_sock, sock_client_map, enclave_message,
                 output_message, enclaveVars, sockets>>

Sock(n) == client_sock[n + 1]

NextInput == IF i + 1 < NUM_OF_CLIENTS THEN Goto("recvInput", i + 1) ELSE Goto("passInput", 0)

(* A mutant: the inputs are laid out in the order of the connections. *)
RecvInputInOrder ==
  /\ spc = "recvInput"
  /\ ServerGets(Sock(i))
  /\ LET msg == Head(up[Sock(i)]) IN
       /\ sock_client_map' = [sock_client_map EXCEPT ![i] = msg.id]
       /\ enclave_message' = [enclave_message EXCEPT ![i] = msg.m]
  /\ read' = TRUE
  /\ NextInput
  /\ UNCHANGED <<peerVars, backlog, client_sock, output_message, C, heap, enclaveVars>>

(* Copy the next client's input to the place of its number. *)
RecvInput ==
  /\ spc = "recvInput"
  /\ ServerGets(Sock(i))
  /\ LET msg == Head(up[Sock(i)]) IN
       /\ sock_client_map' = [sock_client_map EXCEPT ![i] = msg.id]
       /\ enclave_message' = [enclave_message EXCEPT ![msg.id] = msg.m]
  /\ read' = TRUE
  /\ NextInput
  /\ UNCHANGED <<peerVars, backlog, client_sock, output_message, C, heap, enclaveVars>>

(* A mutant: the server waits for the client to come back. *)
RecvInputRetry ==
  /\ spc = "recvInput"
  /\ ServerRecvFails(Sock(i))
  /\ UNCHANGED vars

(* A client has gone: its place keeps what it held. *)
RecvNoInput ==
  /\ spc = "recvInput"
  /\ ServerRecvFails(Sock(i))
  /\ NextInput
  /\ UNCHANGED <<peerVars, backlog, client_sock, sock_client_map, read, enclave_message,
                 output_message, C, heap, enclaveVars, sockets>>

(* A mutant: the results are sent from the second client on. *)
PassInputSkipFirst ==
  /\ spc = "passInput"
  /\ IF read THEN passInput(enclave_message) ELSE UNCHANGED enclaveVars
  /\ Goto("getOutput", 1)
  /\ UNCHANGED <<peerVars, backlog, client_sock, sock_client_map, read, enclave_message,
                 output_message, C, heap, sockets>>

PassInput ==
  /\ spc = "passInput"
  /\ IF read THEN passInput(enclave_message) ELSE UNCHANGED enclaveVars
  /\ Goto("getOutput", 0)
  /\ UNCHANGED <<peerVars, backlog, client_sock, sock_client_map, read, enclave_message,
                 output_message, C, heap, sockets>>

(* An entry that was never assigned may hold any client's number, or none. *)
Indices(n) == IF n = Unknown THEN Clients \cup {Unknown} ELSE {n}

GetOutput ==
  /\ spc = "getOutput"
  /\ \E index \in Indices(sock_client_map[i]) :
       /\ getOutputFromEnclave(index)
       /\ output_message' = OutputMessage(index, output_message)
  /\ Goto("writeOutput", i)
  /\ UNCHANGED <<peerVars, backlog, client_sock, sock_client_map, read, enclave_message,
                 C, heap, sockets>>

(* A mutant: i is not reset at the end of the loop. *)
WriteOutputCountOn ==
  /\ spc = "writeOutput"
  /\ ServerSends(Sock(i), output_message)
  /\ Goto(IF i + 1 < NUM_OF_CLIENTS THEN "getOutput" ELSE "freeCircuit", i + 1)
  /\ UNCHANGED <<peerVars, backlog, client_sock, sock_client_map, read, enclave_message,
                 output_message, C, heap, enclaveVars>>

WriteOutput ==
  /\ spc = "writeOutput"
  /\ ServerSends(Sock(i), output_message)
  /\ IF i + 1 < NUM_OF_CLIENTS THEN Goto("getOutput", i + 1) ELSE Goto("freeCircuit", 0)
  /\ UNCHANGED <<peerVars, backlog, client_sock, sock_client_map, read, enclave_message,
                 output_message, C, heap, enclaveVars>>

(* Bound: a reset that the server caused arrives before the round is over, *)
(* which keeps the server from going round and counting up for ever.       *)
ResetBound == \A p \in Peers : rstS[p] # "sent"

FreeCircuit ==
  /\ spc = "freeCircuit"
  /\ ResetBound
  /\ heap' = heap \ {C}
  /\ Goto("newRound", 0)
  /\ UNCHANGED <<peerVars, backlog, client_sock, sock_client_map, read, enclave_message,
                 output_message, C, enclaveVars, sockets>>

(* A send on a connection that was reset. *)
ServerKilled ==
  /\ spc = "writeOutput" /\ rstS[Sock(i)] = "arrived"
  /\ Goto("killed", 0)
  /\ ServerEnds
  /\ UNCHANGED <<peerVars, backlog, client_sock, sock_client_map, read, enclave_message,
                 output_message, C, heap, enclaveVars>>

Server ==
  \/ Start \/ Accept \/ NewRound \/ RecvInput \/ RecvNoInput \/ PassInput
  \/ GetOutput \/ WriteOutput \/ FreeCircuit \/ ServerKilled

-----------------------------------------------------------------------------

Network == ResetArrives /\ UNCHANGED <<peerVars, serverVars, backlog, enclaveVars>>

Next == (\E c \in Clients : Client(c)) \/ Server \/ Network

(* Every process that can take a step does, and a reset arrives.           *)
Fairness ==
  (\A c \in Clients : WF_vars(Client(c))) /\ WF_vars(Server) /\ WF_vars(Network)

Spec == Init /\ [][Next]_vars /\ Fairness

-----------------------------------------------------------------------------
(* Properties. *)

Results == [Clients -> 1..Rounds] \cup {Junk}

TypeOK ==
  /\ enclave \in {"running", "crashed"}
  /\ com_to_client_key \in [Clients -> Nat]
  /\ cur \in Blocks \cup {NoCircuit} /\ C \in Blocks \cup {NoCircuit}
  /\ heap \subseteq Blocks
  /\ output \in Results
  /\ cpc \in [Clients -> {"connect", "send", "recv", "ended", "killed"}]
  /\ \A c \in Clients : com_key[c] \in Nat /\ crounds[c] \in 0..Rounds
  /\ \A c \in Clients : \A n \in DOMAIN results[c] : results[c][n] \in Results
  /\ spc \in {"start", "accept", "newRound", "recvInput", "passInput", "getOutput",
              "writeOutput", "freeCircuit", "killed"}
  /\ i \in Clients /\ read \in BOOLEAN
  /\ client_sock \in Seq(Clients) /\ Len(client_sock) <= NUM_OF_CLIENTS
  /\ sock_client_map \in [Clients -> Clients \cup {Unknown}]

AllOf(n) == [c \in Clients |-> n]

(* Has the server an input of this client that the enclave has not got?    *)
Held(c) ==
  \/ spc = "passInput"
  \/ spc = "recvInput" /\ \E n \in 0..(i - 1) : Sock(n) = c

(* While no client has left, the two counters of every connection differ   *)
(* by exactly the messages under way, so whatever is received decrypts     *)
(* (com_key and com_to_client_key).                                        *)
KeyLockstep ==
  \A c \in Clients :
    com_key[c] = com_to_client_key[c] + Len(up[c]) - Len(down[c])
                   + (IF Held(c) THEN 1 ELSE 0)
                   - (IF spc = "writeOutput" /\ Sock(i) = c THEN 1 ELSE 0)

(* The enclave's circuit is never freed, although the server frees the one *)
(* it has read at the end of every round, and the rounds take no more      *)
(* memory: the last circuit read is the only other one.                    *)
CircuitKept ==
  spc # "start" =>
    /\ cur \in heap
    /\ heap \subseteq {cur, C}
    /\ spc \notin {"accept", "newRound", "killed"} => C # cur

(* Every client gets, round by round, what the circuit yields on the       *)
(* inputs that all clients sent in that round.                             *)
RoundIntegrity ==
  \A c \in Clients : \A n \in DOMAIN results[c] : results[c][n] = AllOf(n)

(* Every client gets the results of all the rounds. *)
AllServed == <>(\A c \in Clients : Len(results[c]) = Rounds)

(* A round counts if every client took part in it with a binary input. *)
Complete(n) ==
  (\A p \in Peers : n <= QuitAfter(p)) /\ (\A d \in Clients : ~BadInput(d, n))

(* Results are genuine exactly for the rounds that count: an input that is *)
(* not binary spoils no other round, and an input that a client left       *)
(* behind is not evaluated as if it were a new one, whatever the clients   *)
(* that stay are sent.                                                     *)
GenuineIffComplete ==
  \A c \in Clients : \A n \in DOMAIN results[c] :
    results[c][n] = IF Complete(n) THEN AllOf(n) ELSE Junk

(* When all clients leave, everything ends: nobody is left waiting for a   *)
(* message that will not come.                                             *)
AllEnd ==
  (\A p \in Peers : QuitAfter(p) <= Rounds)
    => <>(spc = "killed" /\ \A p \in Peers : ~open[p])

-----------------------------------------------------------------------------
(* The mapping to the abstract specification: the circuit counts as        *)
(* supplied for a round when its inputs are complete.                      *)
Evaluated == IF output = Junk THEN 0 ELSE output[0]
Supplied == IF spc = "passInput" THEN Evaluated + 1 ELSE Evaluated
Answers == [c \in Clients |->
  [n \in DOMAIN results[c] |-> [program |-> n, inputs |-> results[c][n]]]]

Promise == INSTANCE Pfe WITH
  inputs <- crounds, programs <- Supplied, evaluated <- Evaluated, answers <- Answers

(* While no client leaves, case 1 does what private function evaluation    *)
(* promises.                                                               *)
PromiseSpec == Promise!Spec
=============================================================================
