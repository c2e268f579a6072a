------------------------------ MODULE PfeCase2 ------------------------------
(***************************************************************************)
(* Case 2 as a whole: the data owners (DataOwner), the program owner       *)
(* (program_owner.c), the server (server.c) and its enclave (Enclave2),    *)
(* connected by TCP (Sockets).  One action per blocking call, with the     *)
(* local work up to the next one.                                          *)
(***************************************************************************)
EXTENDS Enclave2, DataOwner

CONSTANTS
  Owner,        \* the program owner
  Unknown,      \* an entry of sock_client_map that was never assigned
  Chunks        \* PROGLIMIT/BUFSIZE: a program is sent in so many pieces

ASSUME PeersAssumption == Owner \notin Clients /\ Peers = Clients \cup {Owner}
ASSUME UnknownAssumption == Unknown \notin Clients
ASSUME ChunksAssumption == Chunks \in Nat \ {0}

VARIABLES
  \* program_owner.c
  opc, ocom_key, orounds, oi, program, goutput,
  \* server.c
  spc, i, client_sock, sock_client_map, buffer, prog, reply

ownerVars  == <<opc, ocom_key, orounds, oi, program, goutput>>
serverVars == <<spc, i, client_sock, sock_client_map, buffer, prog,
                reply>>
vars == <<scenario, clientVars, ownerVars, serverVars, backlog, enclaveVars, sockets>>

(* Piece n of an encrypted program, and what a buffer of pieces holds. *)
Piece(m, n) == [part |-> n, m |-> m]
Assembled(pieces) ==
  IF Len(pieces) = Chunks /\ \A n \in 1..Chunks : pieces[n] = Piece(pieces[1].m, n)
  THEN pieces[1].m ELSE Nothing

Init ==
  /\ DataOwnerInit
  /\ opc = "connect" /\ ocom_key = 0 /\ orounds = 0 /\ oi = 1
  /\ program = <<>> /\ goutput = Junk
  /\ spc = "accept" /\ i = 0
  /\ client_sock = <<>>
  /\ sock_client_map = [n \in Clients |-> Unknown]
  /\ buffer = <<>> /\ prog = Nothing /\ reply = Nothing
  /\ EnclaveInit
  /\ SocketsInit

-----------------------------------------------------------------------------

Client(c) == DataOwner(c) /\ UNCHANGED <<ownerVars, serverVars, enclaveVars>>

-----------------------------------------------------------------------------
(* The program owner.  In every loop over the pieces, oi is the number of  *)
(* the current one.                                                        *)

OwnerConnect ==
  /\ opc = "connect"
  /\ opc' = "prepare"
  /\ UNCHANGED <<scenario, clientVars, ocom_key, orounds, oi, program, goutput,
                 serverVars, backlog, enclaveVars, sockets>>

(* Read, serialise and encrypt the program.  (The pieces of the message    *)
(* are taken from Encrypt(ocom_key - 1, orounds) as they are sent.)        *)
PrepareProgram ==
  /\ opc = "prepare" /\ orounds < QuitAfter(Owner) /\ orounds < Rounds
  /\ orounds' = orounds + 1
  /\ ocom_key' = ocom_key + 1
  /\ opc' = "sendPiece" /\ oi' = 1
  /\ UNCHANGED <<scenario, clientVars, program, goutput, serverVars, backlog,
                 enclaveVars, sockets>>

SendPiece ==
  /\ opc = "sendPiece"
  /\ PeerSends(Owner, Piece(Encrypt(ocom_key - 1, orounds), oi))
  /\ opc' = "recvAck"
  /\ UNCHANGED <<scenario, clientVars, ocom_key, orounds, oi, program, goutput,
                 serverVars, backlog, enclaveVars>>

(* recv at the owner: a message, or an error it does not act upon. *)
OwnerRecv == PeerGets(Owner)
OwnerRecvNothing == (PeerRecvEnds(Owner) \/ PeerRecvFails(Owner)) /\ UNCHANGED sockets

(* The next piece, or what comes after the last one. *)
NextPiece(again, after) ==
  IF oi < Chunks THEN oi' = oi + 1 /\ opc' = again ELSE oi' = 1 /\ opc' = after

RecvAck ==
  /\ opc = "recvAck"
  /\ OwnerRecv \/ OwnerRecvNothing
  /\ NextPiece("sendPiece", "recvPiece")
  /\ program' = <<>>
  /\ UNCHANGED <<scenario, clientVars, ocom_key, orounds, goutput, serverVars,
                 backlog, enclaveVars>>

RecvPiece ==
  /\ opc = "recvPiece"
  /\ \/ OwnerRecv /\ program' = Append(program, Head(down[Owner]))
     \/ OwnerRecvNothing /\ UNCHANGED program
  /\ opc' = "sendAck"
  /\ UNCHANGED <<scenario, clientVars, ocom_key, orounds, oi, goutput, serverVars,
                 backlog, enclaveVars>>

SendAck ==
  /\ opc = "sendAck"
  /\ PeerSends(Owner, "ack")
  /\ NextPiece("recvPiece", "evaluate")
  /\ UNCHANGED <<scenario, clientVars, ocom_key, orounds, program, goutput,
                 serverVars, backlog, enclaveVars>>

(* Decrypt, deserialise and evaluate the garbled circuit.  A meaningless   *)
(* one may bring the process down.                                         *)
Evaluate ==
  /\ opc = "evaluate"
  /\ LET v == Decrypt(ocom_key, Assembled(program)) IN
       \/ /\ goutput' = v
          /\ ocom_key' = ocom_key + 1
          /\ opc' = "sendGoutput"
          /\ UNCHANGED sockets
       \/ /\ v = Junk
          /\ opc' = "killed"
          /\ PeerCloses(Owner)
          /\ UNCHANGED <<ocom_key, goutput>>
  /\ program' = <<>>
  /\ UNCHANGED <<scenario, clientVars, orounds, oi, serverVars, backlog, enclaveVars>>

SendGoutput ==
  /\ opc = "sendGoutput"
  /\ PeerSends(Owner, goutput)
  /\ opc' = "recvSize"
  /\ UNCHANGED <<scenario, clientVars, ocom_key, orounds, oi, program, goutput,
                 serverVars, backlog, enclaveVars>>

RecvSize ==
  /\ opc = "recvSize"
  /\ OwnerRecv \/ OwnerRecvNothing
  /\ opc' = "prepare"
  /\ goutput' = Junk
  /\ UNCHANGED <<scenario, clientVars, ocom_key, orounds, oi, program, serverVars,
                 backlog, enclaveVars>>

OwnerLeave ==
  /\ opc = "prepare" /\ orounds = QuitAfter(Owner)
  /\ opc' = "ended"
  /\ PeerCloses(Owner)
  /\ UNCHANGED <<scenario, clientVars, ocom_key, orounds, oi, program, goutput,
                 serverVars, backlog, enclaveVars>>

OwnerBrokenPipe ==
  /\ opc \in {"sendPiece", "sendAck", "sendGoutput"} /\ rstP[Owner] = "arrived"
  /\ opc' = "killed"
  /\ PeerCloses(Owner)
  /\ UNCHANGED <<scenario, clientVars, ocom_key, orounds, oi, program, goutput,
                 serverVars, backlog, enclaveVars>>

ProgramOwner ==
  \/ OwnerConnect \/ PrepareProgram \/ SendPiece \/ RecvAck \/ RecvPiece \/ SendAck
  \/ Evaluate \/ SendGoutput \/ RecvSize \/ OwnerLeave \/ OwnerBrokenPipe

-----------------------------------------------------------------------------
(* The server. *)

peerVars == <<scenario, clientVars, ownerVars>>

(* i counts the clients (from 0) or the pieces (from 1). *)
Goto(pc, n) == spc' = pc /\ i' = n

Accept ==
  /\ spc = "accept"
  /\ backlog # <<>>
  /\ client_sock' = Append(client_sock, Head(backlog))
  /\ backlog' = Tail(backlog)
  /\ IF i + 1 < NUM_OF_CLIENTS THEN Goto("accept", i + 1) ELSE Goto("acceptOwner", 0)
  /\ UNCHANGED <<peerVars, sock_client_map, buffer, prog, reply,
                 enclaveVars, sockets>>

AcceptOwner ==
  /\ spc = "acceptOwner"
  /\ opc # "connect"
  /\ Goto("recvInput", 0)
  /\ UNCHANGED <<peerVars, backlog, client_sock, sock_client_map, buffer, prog, reply,
                 enclaveVars, sockets>>

Sock(n) == client_sock[n + 1]

(* A mutant: clients are told apart by their connections. *)
RecvInputBySocket ==
  /\ spc = "recvInput"
  /\ ServerGets(Sock(i))
  /\ sock_client_map' = [sock_client_map EXCEPT ![i] = i]
  /\ passInput(i, Head(up[Sock(i)]).m)
  /\ IF i + 1 < NUM_OF_CLIENTS THEN Goto("recvInput", i + 1) ELSE Goto("recvProgram", 1)
  /\ UNCHANGED <<peerVars, backlog, client_sock, buffer, prog, reply>>

(* Read the next client's input and hand it to the enclave. *)
RecvInput ==
  /\ spc = "recvInput"
  /\ ServerGets(Sock(i))
  /\ LET msg == Head(up[Sock(i)]) IN
       /\ sock_client_map' = [sock_client_map EXCEPT ![i] = msg.id]
       /\ passInput(msg.id, msg.m)
  /\ IF i + 1 < NUM_OF_CLIENTS THEN Goto("recvInput", i + 1) ELSE Goto("recvProgram", 1)
  /\ UNCHANGED <<peerVars, backlog, client_sock, buffer, prog, reply>>

(* A mutant: the server waits for the client to come back. *)
RecvInputRetry ==
  /\ spc = "recvInput"
  /\ ServerRecvFails(Sock(i))
  /\ UNCHANGED vars

(* A client has gone: the server stops reading, and goes on with the rest  *)
(* of the round.                                                           *)
RecvInputBreak ==
  /\ spc = "recvInput"
  /\ ServerRecvFails(Sock(i))
  /\ Goto("recvProgram", 1)
  /\ UNCHANGED <<peerVars, backlog, client_sock, sock_client_map, buffer, prog, reply,
                 enclaveVars, sockets>>

RecvProgram ==
  /\ spc = "recvProgram"
  /\ \/ ServerGets(Owner) /\ buffer' = Append(buffer, Head(up[Owner]))
     \/ ServerRecvFails(Owner) /\ UNCHANGED <<buffer, sockets>>
  /\ Goto("ackProgram", i)
  /\ UNCHANGED <<peerVars, backlog, client_sock, sock_client_map, prog, reply, enclaveVars>>

(* A mutant: the last piece is not acknowledged. *)
AckProgramButLast ==
  /\ spc = "ackProgram"
  /\ IF i < Chunks
     THEN ServerSends(Owner, "ack") /\ Goto("recvProgram", i + 1)
     ELSE UNCHANGED sockets /\ Goto("passProgram", 0)
  /\ UNCHANGED <<peerVars, backlog, client_sock, sock_client_map, buffer, prog, reply,
                 enclaveVars>>

AckProgram ==
  /\ spc = "ackProgram"
  /\ ServerSends(Owner, "ack")
  /\ IF i < Chunks THEN Goto("recvProgram", i + 1) ELSE Goto("passProgram", 0)
  /\ UNCHANGED <<peerVars, backlog, client_sock, sock_client_map, buffer, prog, reply,
                 enclaveVars>>

PassProgram ==
  /\ spc = "passProgram"
  /\ passProgram(Assembled(buffer))
  /\ Goto("getGCircuit", 0)
  /\ UNCHANGED <<peerVars, backlog, client_sock, sock_client_map, buffer, prog, reply,
                 sockets>>

(* A mutant: a round whose input is refused is given up. *)
GetGCircuitOrGiveUp ==
  /\ spc = "getGCircuit"
  /\ getGCircuit
  /\ prog' = outbuf'
  /\ IF outbuf' = Nothing THEN Goto("recvInput", 0) ELSE Goto("sendGProgram", 1)
  /\ UNCHANGED <<peerVars, backlog, client_sock, sock_client_map, buffer, reply, sockets>>

GetGCircuit ==
  /\ spc = "getGCircuit"
  /\ getGCircuit
  /\ prog' = outbuf'
  /\ Goto("sendGProgram", 1)
  /\ UNCHANGED <<peerVars, backlog, client_sock, sock_client_map, buffer, reply, sockets>>

(* sendGProgram copies as many bytes of prog as its first word says, and   *)
(* sends all of its own buffer.                                            *)
SendGProgram ==
  /\ spc = "sendGProgram"
  /\ ServerSends(Owner, Piece(prog, i))
  /\ Goto("recvGAck", i)
  /\ UNCHANGED <<peerVars, backlog, client_sock, sock_client_map, buffer, prog, reply,
                 enclaveVars>>

RecvGAck ==
  /\ spc = "recvGAck"
  /\ \/ ServerGets(Owner)
     \/ ServerRecvFails(Owner) /\ UNCHANGED sockets
  /\ IF i < Chunks
     THEN Goto("sendGProgram", i + 1) /\ UNCHANGED prog
     ELSE Goto("recvGoutput", 0) /\ prog' = Nothing
  /\ UNCHANGED <<peerVars, backlog, client_sock, sock_client_map, buffer, reply, enclaveVars>>

RecvGoutput ==
  /\ spc = "recvGoutput"
  /\ \/ /\ ServerGets(Owner)
        /\ passGoutput(Head(up[Owner]))
     \/ ServerRecvFails(Owner) /\ UNCHANGED <<sockets, enclaveVars>>
  /\ Goto("sendSize", 0)
  /\ UNCHANGED <<peerVars, backlog, client_sock, sock_client_map, buffer, prog, reply>>

SendSize ==
  /\ spc = "sendSize"
  /\ ServerSends(Owner, "size")
  /\ Goto("getOutput", 0)
  /\ UNCHANGED <<peerVars, backlog, client_sock, sock_client_map, buffer, prog, reply,
                 enclaveVars>>

(* An entry that was never assigned may hold any client's number, or none. *)
Indices(n) == IF n = Unknown THEN Clients \cup {Unknown} ELSE {n}

(* The array for the result is new in every round, but keeps what it held  *)
(* if the ECALL does not write it: a result of another client, perhaps.    *)
GetOutput ==
  /\ spc = "getOutput"
  /\ \E index \in Indices(sock_client_map[i]) : getOutputFromEnclave(index)
  /\ reply' \in IF outbuf' = Nothing THEN {reply, Nothing} ELSE {outbuf'}
  /\ Goto("writeOutput", i)
  /\ UNCHANGED <<peerVars, backlog, client_sock, sock_client_map, buffer, prog,
                 sockets>>

WriteOutput ==
  /\ spc = "writeOutput"
  /\ ServerSends(Sock(i), reply)
  /\ IF i + 1 < NUM_OF_CLIENTS THEN Goto("getOutput", i + 1) ELSE Goto("freeEnc", 0)
  /\ UNCHANGED <<peerVars, backlog, client_sock, sock_client_map, buffer, prog, reply,
                 enclaveVars>>

(* Bound: a reset that the server caused arrives before the round is over, *)
(* which keeps the server from going round and counting up for ever.       *)
ResetBound == \A p \in Peers : rstS[p] # "sent"

(* A mutant: the next program is appended to the last one. *)
FreeEncKeepsBuffer ==
  /\ spc = "freeEnc"
  /\ ResetBound
  /\ freeEnc
  /\ Goto("recvInput", 0)
  /\ UNCHANGED <<peerVars, backlog, client_sock, sock_client_map, buffer, prog, reply, sockets>>

FreeEnc ==
  /\ spc = "freeEnc"
  /\ ResetBound
  /\ freeEnc
  /\ buffer' = <<>>
  /\ Goto("recvInput", 0)
  /\ UNCHANGED <<peerVars, backlog, client_sock, sock_client_map, prog, reply, sockets>>

(* A send on a connection that was reset; or a copy of a nonsensical       *)
(* number of bytes.                                                        *)
ServerKilled ==
  /\ \/ /\ spc \in {"ackProgram", "sendGProgram", "sendSize"}
        /\ rstS[Owner] = "arrived"
     \/ /\ spc = "writeOutput"
        /\ rstS[Sock(i)] = "arrived"
     \/ /\ spc = "passProgram"
        /\ Assembled(buffer) = Nothing
     \/ /\ spc = "sendGProgram" /\ i = 1
        /\ prog = Nothing /\ enclave = "crashed"
  /\ Goto("killed", 0)
  /\ ServerEnds
  /\ UNCHANGED <<peerVars, backlog, client_sock, sock_client_map, buffer, prog, reply,
                 enclaveVars>>

Server ==
  \/ Accept \/ AcceptOwner \/ RecvInput \/ RecvInputBreak \/ RecvProgram \/ AckProgram
  \/ PassProgram \/ GetGCircuit \/ SendGProgram \/ RecvGAck \/ RecvGoutput \/ SendSize
  \/ GetOutput \/ WriteOutput \/ FreeEnc \/ ServerKilled

-----------------------------------------------------------------------------

Network == ResetArrives /\ UNCHANGED <<peerVars, serverVars, backlog, enclaveVars>>

Next == (\E c \in Clients : Client(c)) \/ ProgramOwner \/ Server \/ Network

(* Every process that can take a step does, and a reset arrives.           *)
Fairness ==
  /\ \A c \in Clients : WF_vars(Client(c))
  /\ WF_vars(ProgramOwner) /\ WF_vars(Server) /\ WF_vars(Network)

Spec == Init /\ [][Next]_vars /\ Fairness

-----------------------------------------------------------------------------
(* Properties. *)

Results == [program : 1..Rounds, inputs : [Clients -> 1..Rounds]] \cup {Junk}

TypeOK ==
  /\ enclave \in {"running", "crashed"}
  /\ cpc \in [Clients -> {"connect", "send", "recv", "ended", "killed"}]
  /\ \A c \in Clients : com_key[c] \in Nat /\ crounds[c] \in 0..Rounds
  /\ \A c \in Clients : \A n \in DOMAIN results[c] : results[c][n] \in Results
  /\ opc \in {"connect", "prepare", "sendPiece", "recvAck", "recvPiece", "sendAck",
              "evaluate", "sendGoutput", "recvSize", "ended", "killed"}
  /\ ocom_key \in Nat /\ orounds \in 0..Rounds /\ oi \in 1..Chunks
  /\ Len(program) <= Chunks /\ Len(buffer) <= Chunks
  /\ goutput \in Results
  /\ spc \in {"accept", "acceptOwner", "recvInput", "recvProgram", "ackProgram",
              "passProgram", "getGCircuit", "sendGProgram", "recvGAck", "recvGoutput",
              "sendSize", "getOutput", "writeOutput", "freeEnc", "killed"}
  /\ client_sock \in Seq(Clients) /\ Len(client_sock) <= NUM_OF_CLIENTS
  /\ sock_client_map \in [Clients -> Clients \cup {Unknown}]
  /\ damaged \in BOOLEAN
  /\ datainput = NULL \/ \A c \in Clients : datainput[c] \in 1..Rounds \cup {Junk}
  /\ C.program \in 1..Rounds \cup {Junk} /\ {C.gates, C.inpSizes} \subseteq Pointer
  /\ outGarblings.ptr \in Pointer /\ outGarblings.v \in Results
  /\ output.ptr \in Pointer /\ output.v \in Results

AllOf(n) == Result(n, [c \in Clients |-> n])

(* While no peer has left, the two counters of every connection differ by  *)
(* exactly the messages under way, so whatever is received decrypts        *)
(* (com_key and com_to_client_key, com_key and com_key_program).           *)
KeyLockstep ==
  /\ \A c \in Clients :
       com_key[c] = com_to_client_key[c] + Len(up[c]) - Len(down[c])
                      - (IF spc = "writeOutput" /\ Sock(i) = c THEN 1 ELSE 0)
  /\ opc \in {"connect", "prepare"} => ocom_key = com_key_program
  /\ spc \in {"passProgram", "recvProgram"} /\ opc = "recvAck" =>
       ocom_key = com_key_program + 1

(* While no peer has left, the enclave uses no pointer that is null or     *)
(* dangling, and starts a round with nothing left over from the last one.  *)
HeapDiscipline ==
  /\ enclave = "running"
  /\ spc = "recvInput" =>
       /\ "live" \notin {C.gates, C.inpSizes, outGarblings.ptr, output.ptr}
       /\ i = 0 => datainput = NULL
  /\ spc = "getGCircuit" => C.gates = "live" /\ datainput # NULL
  /\ spc = "recvGoutput" => outGarblings.ptr = "live" /\ datainput # NULL
  /\ spc \in {"getOutput", "freeEnc"} => output.ptr = "live" /\ C.inpSizes = "live"

(* Every client gets, round by round, the result of that round's program   *)
(* on the inputs that all clients sent in that round.                      *)
RoundIntegrity ==
  \A c \in Clients : \A n \in DOMAIN results[c] : results[c][n] = AllOf(n)

(* Every client gets the results of all the rounds. *)
AllServed == <>(\A c \in Clients : Len(results[c]) = Rounds)

FirstToQuit == CHOOSE n \in {QuitAfter(p) : p \in Peers} :
                 \A p \in Peers : n <= QuitAfter(p)

(* Whatever goes wrong once a peer has left or an input was refused, the   *)
(* results of the rounds before are those of RoundIntegrity.               *)
GenuineWhileComplete ==
  \A c \in Clients : \A n \in DOMAIN results[c] :
     n <= FirstToQuit /\ (\A bad \in scenario.badInputs : n < bad[2])
       => results[c][n] = AllOf(n)

(* When all peers leave, everything ends: nobody is left waiting for a     *)
(* message that will not come.                                             *)
AllEnd ==
  (\A p \in Peers : QuitAfter(p) <= Rounds)
    => <>(spc = "killed" /\ \A p \in Peers : ~open[p])

(* From the round of the first non-binary input on, no client gets a       *)
(* result that was computed in that round or later: the refusal leaves the *)
(* program counters of the two ends apart for good.                        *)
NothingAfterBadInput ==
  \A bad \in scenario.badInputs : \A c \in Clients : \A n \in DOMAIN results[c] :
     results[c][n] # Junk => results[c][n].program < bad[2]

(* A client that has sent an input does not wait for ever: it gets some    *)
(* answer, or its connection ends.                                         *)
Answered == \A c \in Clients : cpc[c] = "recv" ~> cpc[c] # "recv"

(* However the enclave fails, a result that a client can read was computed *)
(* from the program and the inputs of one round, and not of a later one,   *)
(* if every peer took part in it.                                          *)
NeverMixed ==
  \A c \in Clients : \A n \in DOMAIN results[c] :
     LET r == results[c][n] IN
       r # Junk /\ r.program <= FirstToQuit => r.program <= n /\ r = AllOf(r.program)

(* The result that a client gets under its own counter was computed from   *)
(* its own current input, if it was computed from the current program.     *)
OwnInput ==
  \A c \in Clients : \A n \in DOMAIN results[c] :
     results[c][n] # Junk /\ results[c][n].program = n => results[c][n].inputs[c] = n

-----------------------------------------------------------------------------
Evaluated == IF output.v = Junk THEN 0 ELSE output.v.program

Promise == INSTANCE Pfe WITH
  inputs <- crounds, programs <- orounds, evaluated <- Evaluated, answers <- results

(* While no peer leaves, case 2 does what private function evaluation      *)
(* promises.                                                               *)
PromiseSpec == Promise!Spec
=============================================================================
