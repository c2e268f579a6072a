--------------------------- MODULE PfeCase1Proofs ---------------------------
(***************************************************************************)
(* What is proved about case 1, for any number of clients and of rounds:   *)
(* of its circuits, its types and its rounds, whoever leaves and whatever  *)
(* the enclave does; of its keys and what it promises, while the clients   *)
(* stay.                                                                   *)
(***************************************************************************)
EXTENDS PfeCase1, FiniteSetTheorems, TLAPS

(* The parts of the state that CircuitKept is about. *)
circuitVars == <<spc, cur, C, heap>>

(* CircuitKept is not inductive: reading a circuit keeps within two blocks *)
(* because the last one read is no longer in use by then.                  *)
IInv ==
  /\ spc = "start" => heap = {}
  /\ spc \in {"accept", "newRound"} => heap = {cur}
  /\ CircuitKept

LEMMA Initially == Init => IInv
  BY DEF Init, IInv, CircuitKept

LEMMA StartKeeps == IInv /\ Start => IInv'
<1> SUFFICES ASSUME IInv, Start PROVE IInv'
  OBVIOUS
<1>1. PICK b \in Blocks \ heap : C' = b /\ heap' = heap \cup {b}
  BY DEF Start, readBRISCircuit
<1>2. spc = "start" /\ spc' = "accept" /\ cur' = C'
  BY DEF Start, passCircuit, Goto
<1> QED
  BY <1>1, <1>2 DEF IInv, CircuitKept

LEMMA NewRoundKeeps == IInv /\ NewRound => IInv'
<1> SUFFICES ASSUME IInv, NewRound PROVE IInv'
  OBVIOUS
<1>1. PICK b \in Blocks \ heap : C' = b /\ heap' = heap \cup {b}
  BY DEF NewRound, readBRISCircuit
<1>2. spc = "newRound" /\ spc' = "recvInput" /\ cur' = cur
  BY DEF NewRound, Goto, enclaveVars
<1> QED
  BY <1>1, <1>2 DEF IInv, CircuitKept

LEMMA FreeCircuitKeeps == IInv /\ FreeCircuit => IInv'
<1> SUFFICES ASSUME IInv, FreeCircuit PROVE IInv'
  OBVIOUS
<1>1. spc = "freeCircuit" /\ spc' = "newRound" /\ cur' = cur /\ C' = C
  BY DEF FreeCircuit, Goto, enclaveVars
<1>2. heap' = heap \ {C}
  BY DEF FreeCircuit
<1> QED
  BY <1>1, <1>2 DEF IInv, CircuitKept

(* The other steps of the server use no circuit, and go on to a place of   *)
(* the round at which the same is asked of it.                             *)
LEMMA AcceptKeeps == IInv /\ Accept => IInv'
  BY DEF IInv, CircuitKept, Accept, Goto, enclaveVars

LEMMA ServiceKeeps ==
  IInv /\ (RecvInput \/ RecvNoInput \/ PassInput \/ GetOutput \/ WriteOutput) => IInv'
<1> SUFFICES ASSUME IInv,
                    RecvInput \/ RecvNoInput \/ PassInput \/ GetOutput \/ WriteOutput
             PROVE IInv'
  OBVIOUS
<1> DEFINE Serving == {"recvInput", "passInput", "getOutput", "writeOutput", "freeCircuit"}
<1>1. spc \in Serving /\ spc' \in Serving
  BY DEF RecvInput, RecvNoInput, NextInput, PassInput, GetOutput, WriteOutput, Goto
<1>2. C' = C /\ heap' = heap
  BY DEF RecvInput, RecvNoInput, PassInput, GetOutput, WriteOutput
<1>3. cur' = cur
  BY DEF RecvInput, RecvNoInput, PassInput, GetOutput, WriteOutput, passInput,
         getOutputFromEnclave, EcallFails, enclaveVars
<1> QED
  BY <1>1, <1>2, <1>3 DEF IInv, CircuitKept

LEMMA ServerKilledKeeps == IInv /\ ServerKilled => IInv'
  BY DEF IInv, CircuitKept, ServerKilled, Goto, enclaveVars

LEMMA OthersKeep == IInv /\ UNCHANGED circuitVars => IInv'
  BY DEF IInv, CircuitKept, circuitVars

LEMMA Inductive == IInv /\ [Next]_vars => IInv'
<1> SUFFICES ASSUME IInv, [Next]_vars PROVE IInv'
  OBVIOUS
<1>1. CASE \E c \in Clients : Client(c)
  BY <1>1, OthersKeep DEF Client, circuitVars, serverVars, enclaveVars
<1>2. CASE Network
  BY <1>2, OthersKeep DEF Network, circuitVars, serverVars, enclaveVars
<1>3. CASE Server
  BY <1>3, StartKeeps, AcceptKeeps, NewRoundKeeps, ServiceKeeps, FreeCircuitKeeps,
     ServerKilledKeeps DEF Server
<1>4. CASE UNCHANGED vars
  BY <1>4, OthersKeep DEF vars, circuitVars, serverVars, enclaveVars
<1> QED
  BY <1>1, <1>2, <1>3, <1>4 DEF Next

(* The enclave's circuit, which lies in the server's memory, is never      *)
(* freed, and the server's loop takes no more memory than two circuits     *)
(* (the frees at the end of the service loop of server.c, passCircuit).    *)
THEOREM CircuitIsKept == Spec => []CircuitKept
<1>1. IInv => CircuitKept
  BY DEF IInv
<1> QED
  BY Initially, Inductive, <1>1, PTL DEF Spec

-----------------------------------------------------------------------------
(* The counters of the two ends of every connection, until the server      *)
(* misses a client.                                                        *)

Staying == \A s \in Scenarios : \A p \in Peers : s.quitAfter[p] > Rounds

(* What the messages may be. *)
Encrypted == [key : Int, v : Nat \cup {Junk}]
InputOf(c) == [id : {c}, m : Encrypted]
Output == [key : Int, v : [Clients -> Nat \cup {Junk}] \cup {Junk}]

Typed ==
  /\ com_key \in [Clients -> Int] /\ com_to_client_key \in [Clients -> Int]
  /\ crounds \in [Clients -> 0..Rounds] /\ DOMAIN cpc = Clients
  /\ DOMAIN up = Clients /\ DOMAIN down = Clients
  /\ \A c \in Clients : up[c] \in Seq(InputOf(c)) /\ down[c] \in Seq(Output)
  /\ enclave_message \in [Clients -> Encrypted] /\ output_message \in Output
  /\ output \in [Clients -> Nat \cup {Junk}] \cup {Junk}
  /\ sock_client_map \in [Clients -> Clients \cup {Unknown}]
  /\ i \in Clients

(* Who has left has done so after its last round, and nothing has gone     *)
(* wrong.                                                                  *)
Undisturbed ==
  /\ scenario \in Scenarios
  /\ open \in [Peers -> BOOLEAN] /\ serving = TRUE
  /\ \A p \in Peers :
       /\ crounds[p] <= QuitAfter(p)
       /\ ~open[p] => cpc[p] = "ended" /\ crounds[p] = QuitAfter(p)
  /\ rstS = [p \in Peers |-> "none"] /\ rstP = [p \in Peers |-> "none"]
  /\ enclave = "running"

(* Every client has at most one connection, and in the end exactly one.    *)
Connected ==
  /\ client_sock \in Seq(Clients) /\ backlog \in Seq(Clients)
  /\ \A m, n \in 1..Len(client_sock) : client_sock[m] = client_sock[n] => m = n
  /\ \A m, n \in 1..Len(backlog) : backlog[m] = backlog[n] => m = n
  /\ \A m \in 1..Len(client_sock) : \A n \in 1..Len(backlog) :
       client_sock[m] # backlog[n]
  /\ \A n \in 1..Len(client_sock) : cpc[client_sock[n]] # "connect"
  /\ \A n \in 1..Len(backlog) : cpc[backlog[n]] # "connect"
  /\ spc = "start" => Len(client_sock) = 0
  /\ spc = "accept" => Len(client_sock) = i
  /\ spc \notin {"start", "accept"} => Len(client_sock) = NUM_OF_CLIENTS

(* The server knows who is at the end of the connections it has read.      *)
Identified ==
  /\ \A n \in Clients :
       \/ spc \in {"passInput", "getOutput", "writeOutput"}
       \/ spc = "recvInput" /\ n < i
       => sock_client_map[n] = client_sock[n + 1]
  /\ spc = "recvInput" /\ i > 0 => read = TRUE
  /\ spc = "passInput" => read = TRUE

(* What the server has of a client and the enclave has not, and the        *)
(* reverse; KeyLockstep says that Diff is 0 for every client.              *)
Mine(c) ==
  (IF Held(c) THEN 1 ELSE 0) - (IF spc = "writeOutput" /\ Sock(i) = c THEN 1 ELSE 0)
Diff(c) == com_key[c] - com_to_client_key[c] - Len(up[c]) + Len(down[c]) - Mine(c)
InStep == \A c \in Clients : Diff(c) = 0

KInv == Typed /\ Undisturbed /\ Connected /\ Identified /\ InStep

LEMMA Numbers ==
  ASSUME Typed, NEW c \in Clients
  PROVE  /\ com_key[c] \in Int /\ com_to_client_key[c] \in Int
         /\ Len(up[c]) \in Nat /\ Len(down[c]) \in Nat /\ Mine(c) \in Int
<1>1. up[c] \in Seq(InputOf(c)) /\ down[c] \in Seq(Output)
  BY DEF Typed
<1>2. Mine(c) \in Int
  BY DEF Mine
<1> QED
  BY <1>1, <1>2 DEF Typed

LEMMA DiffIsLockstep ==
  ASSUME Typed, \A c \in Clients : Diff(c) = 0
  PROVE  KeyLockstep
<1> SUFFICES ASSUME NEW c \in Clients
             PROVE  com_key[c] = com_to_client_key[c] + Len(up[c]) - Len(down[c])
                      + (IF Held(c) THEN 1 ELSE 0)
                      - (IF spc = "writeOutput" /\ Sock(i) = c THEN 1 ELSE 0)
  BY DEF KeyLockstep
<1> DEFINE written == spc = "writeOutput" /\ Sock(i) = c
<1>1. com_key[c] = com_to_client_key[c] + Len(up[c]) - Len(down[c]) + Mine(c)
  <2>1. PICK x \in Int : x = com_key[c] BY Numbers
  <2>2. PICK y \in Int : y = com_to_client_key[c] BY Numbers
  <2>3. PICK u \in Int : u = Len(up[c]) BY Numbers
  <2>4. PICK d \in Int : d = Len(down[c]) BY Numbers
  <2>5. PICK m \in Int : m = Mine(c) BY Numbers
  <2>6. x - y - u + d - m = 0
    BY <2>1, <2>2, <2>3, <2>4, <2>5 DEF Diff
  <2>7. x = y + u - d + m
    BY <2>6
  <2> QED
    BY <2>1, <2>2, <2>3, <2>4, <2>5, <2>7
<1>2. CASE Held(c) /\ written
  BY <1>1, <1>2, Numbers DEF Mine
<1>3. CASE Held(c) /\ ~written
  BY <1>1, <1>3, Numbers DEF Mine
<1>4. CASE ~Held(c) /\ written
  BY <1>1, <1>4, Numbers DEF Mine
<1>5. CASE ~Held(c) /\ ~written
  BY <1>1, <1>5, Numbers DEF Mine
<1> QED
  BY <1>2, <1>3, <1>4, <1>5

(* What a step adds to the five numbers of a client; together, it must add *)
(* nothing.                                                                *)
Adds(c, k, t, p, q, h) ==
  /\ com_key'[c] = com_key[c] + k
  /\ com_to_client_key'[c] = com_to_client_key[c] + t
  /\ Len(up'[c]) = Len(up[c]) + p
  /\ Len(down'[c]) = Len(down[c]) + q
  /\ Mine(c)' = Mine(c) + h

LEMMA DiffKept ==
  ASSUME Typed, NEW c \in Clients,
         NEW k \in Int, NEW t \in Int, NEW p \in Int, NEW q \in Int, NEW h \in Int,
         Adds(c, k, t, p, q, h), k - t - p + q - h = 0
  PROVE  Diff(c)' = Diff(c)
<1>1. PICK x \in Int : x = com_key[c] BY Numbers
<1>2. PICK y \in Int : y = com_to_client_key[c] BY Numbers
<1>3. PICK u \in Int : u = Len(up[c]) BY Numbers
<1>4. PICK d \in Int : d = Len(down[c]) BY Numbers
<1>5. PICK m \in Int : m = Mine(c) BY Numbers
<1>6. (x + k) - (y + t) - (u + p) + (d + q) - (m + h) = x - y - u + d - m
  OBVIOUS
<1>7. Diff(c)' = (x + k) - (y + t) - (u + p) + (d + q) - (m + h)
  BY <1>1, <1>2, <1>3, <1>4, <1>5 DEF Diff, Adds
<1>8. Diff(c) = x - y - u + d - m
  BY <1>1, <1>2, <1>3, <1>4, <1>5 DEF Diff
<1> QED
  BY <1>6, <1>7, <1>8

(* Connections stay while the clients only go on. *)
LEMMA ConnectedKept ==
  ASSUME Connected, UNCHANGED <<client_sock, backlog, spc, i>>,
         \A c \in Clients : cpc[c] # "connect" => cpc'[c] # "connect"
  PROVE  Connected'
<1>1. /\ \A n \in 1..Len(client_sock) : client_sock[n] \in Clients
      /\ \A n \in 1..Len(backlog) : backlog[n] \in Clients
  BY DEF Connected
<1> QED
  BY <1>1 DEF Connected

LEMMA QuitNumber ==
  ASSUME scenario \in Scenarios, NEW c \in Clients
  PROVE  QuitAfter(c) \in Nat
BY PeersAssumption, ScenariosAssumption DEF QuitAfter

LEMMA KInitially == Init => KInv
<1> SUFFICES ASSUME Init PROVE KInv
  OBVIOUS
<1> USE ClientsAssumption, PeersAssumption, RoundsAssumption
<1>1. Typed
  BY DEF Init, DataOwnerInit, SocketsInit, EnclaveInit, Typed, Clients, Nothing,
         Encrypted, Output, InputOf
<1>2. Undisturbed
  BY QuitNumber DEF Init, DataOwnerInit, SocketsInit, EnclaveInit, Undisturbed
<1>3. Connected
  BY DEF Init, DataOwnerInit, Connected
<1>4. Identified
  BY DEF Init, Identified
<1>5. InStep
  BY DEF Init, DataOwnerInit, SocketsInit, EnclaveInit, InStep, Diff, Mine, Held, Clients
<1> QED
  BY <1>1, <1>2, <1>3, <1>4, <1>5 DEF KInv

(* The clients. *)

LEMMA ConnectKeeps ==
  ASSUME KInv, NEW c \in Clients, Connect(c), UNCHANGED <<serverVars, enclaveVars>>
  PROVE  KInv'
<1> USE DEF KInv, Connect, serverVars, enclaveVars, sockets
<1>1. Typed'
  BY DEF Typed
<1>2. Undisturbed'
  BY PeersAssumption DEF Undisturbed, Typed, QuitAfter
<1>3. Connected'
  <2>1. \A n \in 1..Len(client_sock) : client_sock[n] # c
    BY DEF Connected
  <2>2. \A n \in 1..Len(backlog) : backlog[n] # c
    BY DEF Connected
  <2>3. cpc' = [cpc EXCEPT ![c] = "send"] /\ DOMAIN cpc = Clients
    BY DEF Typed
  <2>4. /\ Len(backlog') = Len(backlog) + 1 /\ backlog' \in Seq(Clients)
        /\ \A n \in 1..Len(backlog) : backlog'[n] = backlog[n]
        /\ backlog'[Len(backlog) + 1] = c
    BY DEF Connected
  <2>5. \A d \in Clients : cpc[d] # "connect" => cpc'[d] # "connect"
    BY <2>3
  <2> QED
    BY <2>1, <2>2, <2>3, <2>4, <2>5 DEF Connected
<1>4. Identified'
  BY DEF Identified
<1>5. InStep'
  BY DEF InStep, Diff, Mine, Held, Sock
<1> QED
  BY <1>1, <1>2, <1>3, <1>4, <1>5

LEMMA SendInputKeeps ==
  ASSUME KInv, NEW c \in Clients, SendInput(c), UNCHANGED <<serverVars, enclaveVars>>
  PROVE  KInv'
<1> USE PeersAssumption, RoundsAssumption DEF KInv, serverVars, enclaveVars
<1> DEFINE input == IF BadInput(c, crounds[c] + 1) THEN Junk ELSE crounds[c] + 1
           msg == [id |-> c, m |-> Encrypt(com_key[c], input)]
<1>1. /\ up' = [up EXCEPT ![c] = Append(@, msg)]
      /\ UNCHANGED <<down, open, serving, rstS, rstP>>
  BY DEF SendInput, PeerSends, Undisturbed
<1>2. /\ com_key' = [com_key EXCEPT ![c] = @ + 1]
      /\ crounds' = [crounds EXCEPT ![c] = @ + 1]
      /\ cpc' = [cpc EXCEPT ![c] = "recv"]
      /\ crounds[c] < Rounds
      /\ UNCHANGED <<scenario, results, backlog>>
  BY DEF SendInput
<1>3. msg \in InputOf(c)
  <2>1. input \in Nat \cup {Junk}
    BY DEF Typed
  <2> QED
    BY <2>1 DEF Typed, InputOf, Encrypted, Encrypt
<1>4. /\ up'[c] \in Seq(InputOf(c)) /\ Len(up'[c]) = Len(up[c]) + 1
      /\ DOMAIN up' = Clients
      /\ \A d \in Clients : d # c => up'[d] = up[d]
  BY <1>1, <1>3 DEF Typed
<1>5. Typed'
  BY <1>1, <1>2, <1>4 DEF Typed
<1>6. Undisturbed'
  <2>1. cpc[c] = "send" /\ crounds[c] + 1 <= QuitAfter(c)
    BY QuitNumber DEF SendInput, Undisturbed, Typed
  <2>2. \A p \in Peers : crounds'[p] <= QuitAfter(p)
    BY <1>2, <2>1 DEF Undisturbed, Typed
  <2> QED
    BY <1>1, <1>2, <2>1, <2>2 DEF Undisturbed, Typed, QuitAfter
<1>7. Connected'
  BY <1>2, ConnectedKept DEF Typed
<1>8. Identified'
  BY DEF Identified
<1>9. InStep'
  <2> SUFFICES ASSUME NEW d \in Clients PROVE Diff(d)' = Diff(d)
    BY DEF InStep
  <2>1. Mine(d)' = Mine(d) /\ com_to_client_key' = com_to_client_key /\ down' = down
    BY <1>1 DEF Mine, Held, Sock
  <2>2. CASE d = c
    <3>1. com_key'[d] = com_key[d] + 1 /\ com_to_client_key'[d] = com_to_client_key[d] + 0
      BY <1>2, <2>1, <2>2, Numbers DEF Typed
    <3>2. Len(up'[d]) = Len(up[d]) + 1 /\ Len(down'[d]) = Len(down[d]) + 0
      BY <1>4, <2>1, <2>2, Numbers
    <3>3. Mine(d)' = Mine(d) + 0
      BY <2>1, Numbers
    <3>4. Adds(d, 1, 0, 1, 0, 0)
      BY <3>1, <3>2, <3>3 DEF Adds
    <3> QED
      BY <3>4, DiffKept
  <2>3. CASE d # c
    BY <1>2, <1>4, <2>1, <2>3 DEF Typed, Diff
  <2> QED
    BY <2>2, <2>3
<1> QED
  BY <1>5, <1>6, <1>7, <1>8, <1>9

LEMMA RecvResultKeeps ==
  ASSUME KInv, NEW c \in Clients, RecvResult(c), UNCHANGED <<serverVars, enclaveVars>>
  PROVE  KInv'
<1> USE PeersAssumption DEF KInv, serverVars, enclaveVars
<1>1. /\ down[c] # <<>>
      /\ down' = [down EXCEPT ![c] = Tail(@)]
      /\ UNCHANGED <<up, open, serving, rstS, rstP>>
  BY DEF RecvResult, PeerGets, PeerRecvEnds, Undisturbed
<1>2. /\ com_key' = [com_key EXCEPT ![c] = @ + 1]
      /\ cpc' = [cpc EXCEPT ![c] = "send"]
      /\ UNCHANGED <<scenario, crounds, backlog>>
  BY DEF RecvResult
<1>4. /\ down'[c] \in Seq(Output) /\ Len(down'[c]) = Len(down[c]) - 1
      /\ DOMAIN down' = Clients
      /\ \A d \in Clients : d # c => down'[d] = down[d]
  BY <1>1 DEF Typed
<1>5. Typed'
  BY <1>1, <1>2, <1>4 DEF Typed
<1>6. Undisturbed'
  BY <1>1, <1>2 DEF Undisturbed, RecvResult, Typed, QuitAfter
<1>7. Connected'
  BY <1>2, ConnectedKept DEF Typed
<1>8. Identified'
  BY DEF Identified
<1>9. InStep'
  <2> SUFFICES ASSUME NEW d \in Clients PROVE Diff(d)' = Diff(d)
    BY DEF InStep
  <2>1. Mine(d)' = Mine(d) /\ com_to_client_key' = com_to_client_key /\ up' = up
    BY <1>1 DEF Mine, Held, Sock
  <2>2. CASE d = c
    <3>1. com_key'[d] = com_key[d] + 1 /\ com_to_client_key'[d] = com_to_client_key[d] + 0
      BY <1>2, <2>1, <2>2, Numbers DEF Typed
    <3>2. Len(up'[d]) = Len(up[d]) + 0 /\ Len(down'[d]) = Len(down[d]) + (-1)
      BY <1>4, <2>1, <2>2, Numbers
    <3>3. Mine(d)' = Mine(d) + 0
      BY <2>1, Numbers
    <3>4. Adds(d, 1, 0, 0, -1, 0)
      BY <3>1, <3>2, <3>3 DEF Adds
    <3> QED
      BY <3>4, DiffKept
  <2>3. CASE d # c
    BY <1>2, <1>4, <2>1, <2>3 DEF Typed, Diff
  <2> QED
    BY <2>2, <2>3
<1> QED
  BY <1>5, <1>6, <1>7, <1>8, <1>9

(* A client that has nothing under way can leave without a trace.          *)
LEMMA LeaveKeeps ==
  ASSUME KInv, NEW c \in Clients, Leave(c), down[c] = <<>>,
         UNCHANGED <<serverVars, enclaveVars>>
  PROVE  KInv'
<1> USE PeersAssumption DEF KInv, serverVars, enclaveVars
<1>1. /\ cpc[c] = "send" /\ crounds[c] = QuitAfter(c)
      /\ cpc' = [cpc EXCEPT ![c] = "ended"]
      /\ UNCHANGED <<scenario, com_key, crounds, backlog>>
  BY DEF Leave, PeerRecvFails, Undisturbed
<1>2. /\ open' = [open EXCEPT ![c] = FALSE]
      /\ UNCHANGED <<up, serving, rstP>> /\ rstS' = rstS
      /\ DOMAIN down' = Clients /\ \A d \in Clients : down'[d] = down[d]
  BY DEF Leave, PeerCloses, Typed, Undisturbed
<1>3. Typed'
  BY <1>1, <1>2 DEF Typed
<1>4. Undisturbed'
  BY <1>1, <1>2 DEF Undisturbed, Typed, QuitAfter
<1>5. Connected'
  BY <1>1, ConnectedKept DEF Typed
<1>6. Identified'
  BY DEF Identified
<1>7. InStep'
  BY <1>1, <1>2 DEF InStep, Diff, Mine, Held, Sock
<1> QED
  BY <1>3, <1>4, <1>5, <1>6, <1>7

(* The connection that the server is at is one of a client. *)
LEMMA SockIsClient ==
  ASSUME KInv, spc \notin {"start", "accept"}
  PROVE  i \in Clients /\ Sock(i) \in Clients
<1>1. i \in Nat /\ i < NUM_OF_CLIENTS /\ i \in Clients
  BY ClientsAssumption DEF KInv, Typed, Clients
<1>2. client_sock \in Seq(Clients) /\ i + 1 \in 1..Len(client_sock)
  BY <1>1, ClientsAssumption DEF KInv, Connected
<1> QED
  BY <1>1, <1>2 DEF Sock

(* No reset is ever sent. *)
LEMMA NoReset ==
  ASSUME KInv
  PROVE  /\ \A c \in Clients : ~ClientBrokenPipe(c)
         /\ ~ResetArrives /\ ~ServerKilled
<1>1. \A p \in Peers : rstS[p] = "none" /\ rstP[p] = "none"
  BY DEF KInv, Undisturbed
<1>2. ASSUME spc = "writeOutput" PROVE rstS[Sock(i)] = "none"
  BY <1>1, <1>2, SockIsClient, PeersAssumption
<1> QED
  BY <1>1, <1>2, PeersAssumption DEF ClientBrokenPipe, ResetArrives, ServerKilled

(* The server. *)

(* Outside the service of a round, the server has nothing of a client.     *)
LEMMA IdleInStep ==
  ASSUME KInv, spc \in {"start", "accept", "newRound", "freeCircuit"},
         spc' \in {"accept", "newRound", "recvInput"}, i' \in Int,
         spc' = "recvInput" => i' = 0,
         UNCHANGED <<com_key, com_to_client_key, up, down>>
  PROVE  InStep'
<1> SUFFICES ASSUME NEW c \in Clients PROVE Diff(c)' = 0
  BY DEF InStep
<1>1. Mine(c) = 0
  BY DEF Mine, Held
<1>2. ~Held(c)'
  <2>1. CASE spc' = "recvInput"
    <3>1. \A n \in 0..(i' - 1) : FALSE
      BY <2>1
    <3> QED
      BY <2>1, <3>1 DEF Held
  <2>2. CASE spc' # "recvInput"
    BY <2>2 DEF Held
  <2> QED
    BY <2>1, <2>2
<1>3. Mine(c)' = 0
  BY <1>2 DEF Mine
<1>4. Diff(c)' = Diff(c)
  BY <1>1, <1>3 DEF Diff
<1> QED
  BY <1>4 DEF KInv, InStep

LEMMA StartKeepsStep ==
  ASSUME KInv, Start
  PROVE  KInv'
<1> USE ClientsAssumption DEF KInv, Start, passCircuit, Goto, peerVars, clientVars, sockets
<1>1. Typed'
  BY DEF Typed, Clients
<1>2. Undisturbed'
  BY DEF Undisturbed, QuitAfter
<1>3. Connected'
  BY DEF Connected
<1>4. Identified'
  BY DEF Identified
<1>5. InStep'
  BY IdleInStep
<1> QED
  BY <1>1, <1>2, <1>3, <1>4, <1>5

LEMMA AcceptKeepsStep ==
  ASSUME KInv, Accept
  PROVE  KInv'
<1> USE ClientsAssumption DEF KInv, Accept, Goto, peerVars, clientVars, sockets, enclaveVars
<1>1. /\ Head(backlog) = backlog[1] /\ Len(backlog) > 0
      /\ backlog' \in Seq(Clients) /\ Len(backlog') = Len(backlog) - 1
      /\ \A n \in 1..Len(backlog') : backlog'[n] = backlog[n + 1]
  BY DEF Connected
<1>2. /\ Len(client_sock') = i + 1 /\ client_sock' \in Seq(Clients)
      /\ \A n \in 1..i : client_sock'[n] = client_sock[n]
      /\ client_sock'[i + 1] = backlog[1]
  BY <1>1 DEF Connected
<1>3. i \in Clients /\ i' \in Clients
  <2>1. i \in Clients
    BY DEF Typed
  <2>2. (i' = i + 1 /\ i + 1 < NUM_OF_CLIENTS) \/ i' = 0
    OBVIOUS
  <2> QED
    BY <2>1, <2>2 DEF Clients
<1>4. Typed'
  BY <1>3 DEF Typed
<1>5. Undisturbed'
  BY DEF Undisturbed, QuitAfter
<1>6. Connected'
  <2>1. Len(client_sock) = i /\ i \in Nat /\ i < NUM_OF_CLIENTS
    BY <1>3 DEF Connected, Clients
  <2>2. \A n \in 1..i : client_sock'[n] # client_sock'[i + 1]
    BY <1>1, <1>2, <2>1 DEF Connected
  <2>3. \A m, n \in 1..Len(client_sock') : client_sock'[m] = client_sock'[n] => m = n
    BY <1>2, <2>1, <2>2 DEF Connected
  <2>4. \A m, n \in 1..Len(backlog') : backlog'[m] = backlog'[n] => m = n
    <3> SUFFICES ASSUME NEW m \in 1..Len(backlog'), NEW n \in 1..Len(backlog'),
                        backlog'[m] = backlog'[n]
                 PROVE  m = n
      OBVIOUS
    <3>1. m + 1 \in 1..Len(backlog) /\ n + 1 \in 1..Len(backlog)
      BY <1>1 DEF Connected
    <3>2. m + 1 = n + 1
      BY <1>1, <3>1 DEF Connected
    <3> QED
      BY <3>2
  <2>5. \A m \in 1..Len(client_sock') : \A n \in 1..Len(backlog') :
          client_sock'[m] # backlog'[n]
    <3> SUFFICES ASSUME NEW m \in 1..Len(client_sock'), NEW n \in 1..Len(backlog')
                 PROVE  client_sock'[m] # backlog'[n]
      OBVIOUS
    <3>1. n + 1 \in 1..Len(backlog) /\ 1 \in 1..Len(backlog) /\ n + 1 # 1
      BY <1>1 DEF Connected
    <3>2. backlog'[n] = backlog[n + 1]
      BY <1>1
    <3>3. CASE m = i + 1
      BY <1>2, <3>1, <3>2, <3>3 DEF Connected
    <3>4. CASE m # i + 1
      BY <1>2, <2>1, <3>1, <3>2, <3>4 DEF Connected
    <3> QED
      BY <3>3, <3>4
  <2>6. \A n \in 1..Len(client_sock') : cpc'[client_sock'[n]] # "connect"
    BY <1>1, <1>2, <2>1 DEF Connected
  <2>7. \A n \in 1..Len(backlog') : cpc'[backlog'[n]] # "connect"
    BY <1>1 DEF Connected
  <2>8. \/ spc' = "accept" /\ i' = i + 1
        \/ spc' = "newRound" /\ i + 1 = NUM_OF_CLIENTS
    BY <2>1
  <2> QED
    BY <1>1, <1>2, <2>1, <2>3, <2>4, <2>5, <2>6, <2>7, <2>8 DEF Connected
<1>7. Identified'
  BY DEF Identified
<1>8. InStep'
  BY <1>3, IdleInStep DEF Clients
<1> QED
  BY <1>4, <1>5, <1>6, <1>7, <1>8

LEMMA RoundEndsKeepStep ==
  ASSUME KInv, NewRound \/ FreeCircuit
  PROVE  KInv'
<1> USE ClientsAssumption
    DEF KInv, NewRound, FreeCircuit, Goto, peerVars, clientVars, sockets, enclaveVars
<1>1. i' = 0 /\ 0 \in Clients
  BY DEF Clients
<1>2. Typed'
  BY <1>1 DEF Typed
<1>3. Undisturbed'
  BY DEF Undisturbed, QuitAfter
<1>4. Connected'
  BY DEF Connected
<1>5. Identified'
  BY <1>1 DEF Identified, Clients
<1>6. InStep'
  BY <1>1, IdleInStep
<1> QED
  BY <1>2, <1>3, <1>4, <1>5, <1>6

(* A sequence without repetitions that is as long as there are clients     *)
(* holds all of them.                                                      *)
LEMMA AllConnected ==
  ASSUME NEW s \in Seq(Clients), Len(s) = NUM_OF_CLIENTS,
         \A m, n \in 1..Len(s) : s[m] = s[n] => m = n,
         NEW c \in Clients
  PROVE  \E n \in Clients : s[n + 1] = c
<1> DEFINE f == [n \in Clients |-> s[n + 1]]
           R == {f[n] : n \in Clients}
<1>1. NUM_OF_CLIENTS \in Nat \ {0}
  BY ClientsAssumption
<1>2. \A n \in Clients : n + 1 \in 1..Len(s) /\ s[n + 1] \in Clients
  BY <1>1 DEF Clients
<1>3. f \in Bijection(Clients, R)
  <2>1. \A m, n \in Clients : f[m] = f[n] => m = n
    BY <1>1, <1>2 DEF Clients
  <2> QED
    BY <2>1 DEF Bijection, Injection, Surjection, IsInjective
<1>4. IsFiniteSet(Clients)
  BY <1>1, FS_Interval DEF Clients
<1>5. Cardinality(R) = Cardinality(Clients)
  BY <1>3, <1>4, FS_Bijection DEF ExistsBijection
<1>6. R \in SUBSET Clients
  BY <1>2
<1>7. R = Clients
  BY <1>4, <1>5, <1>6, FS_Subset
<1> QED
  BY <1>7

(* Receiving from one client makes its input, and no other, the server's.  *)
LEMMA HeldAfterInput ==
  ASSUME KInv, spc = "recvInput", NextInput, client_sock' = client_sock,
         NEW c \in Clients
  PROVE  /\ c = Sock(i) => ~Held(c)
         /\ Held(c)' <=> Held(c) \/ c = Sock(i)
<1> USE ClientsAssumption DEF KInv
<1>1. i \in Nat /\ i < NUM_OF_CLIENTS
  BY DEF Typed, Clients
<1>2. /\ client_sock \in Seq(Clients) /\ Len(client_sock) = NUM_OF_CLIENTS
      /\ \A m, n \in 1..Len(client_sock) : client_sock[m] = client_sock[n] => m = n
  BY DEF Connected
<1>3. \/ spc' = "recvInput" /\ i' = i + 1
      \/ spc' = "passInput" /\ i + 1 = NUM_OF_CLIENTS
  BY <1>1 DEF NextInput, Goto
<1>4. \A n \in 0..(i - 1) : Sock(n) # Sock(i)
  <2> SUFFICES ASSUME NEW n \in 0..(i - 1), Sock(n) = Sock(i) PROVE FALSE
    OBVIOUS
  <2>1. n + 1 \in 1..Len(client_sock) /\ i + 1 \in 1..Len(client_sock) /\ n + 1 # i + 1
    BY <1>1, <1>2
  <2> QED
    BY <1>2, <2>1 DEF Sock
<1>5. c = Sock(i) => ~Held(c)
  BY <1>4 DEF Held
<1>6. ASSUME c = Sock(i) PROVE Held(c)'
  <2>1. CASE spc' = "recvInput" /\ i' = i + 1
    <3>1. i \in 0..(i' - 1) /\ client_sock'[i + 1] = c
      BY <1>1, <1>6, <2>1 DEF Sock
    <3> QED
      BY <2>1, <3>1 DEF Held, Sock
  <2>2. CASE spc' = "passInput"
    BY <2>2 DEF Held
  <2> QED
    BY <1>3, <2>1, <2>2
<1>7. ASSUME c # Sock(i) PROVE Held(c)' <=> Held(c)
  <2>1. CASE spc' = "recvInput" /\ i' = i + 1
    <3>1. \A n \in 0..(i' - 1) : n \in 0..(i - 1) \/ n = i
      BY <1>1, <2>1
    <3>2. \A n \in 0..(i - 1) : n \in 0..(i' - 1)
      BY <1>1, <2>1
    <3> QED
      BY <1>7, <2>1, <3>1, <3>2 DEF Held, Sock
  <2>2. CASE spc' = "passInput" /\ i + 1 = NUM_OF_CLIENTS
    <3>1. PICK n \in Clients : client_sock[n + 1] = c
      BY <1>2, AllConnected
    <3>2. n \in 0..(i - 1)
      BY <1>1, <1>7, <2>2, <3>1 DEF Clients, Sock
    <3> QED
      BY <2>2, <3>1, <3>2 DEF Held, Sock
  <2> QED
    BY <1>3, <2>1, <2>2
<1> QED
  BY <1>5, <1>6, <1>7

LEMMA MineAfterInput ==
  ASSUME KInv, spc = "recvInput", NextInput, client_sock' = client_sock,
         NEW c \in Clients
  PROVE  /\ c = Sock(i) => Mine(c) = 0 /\ Mine(c)' = 1
         /\ c # Sock(i) => Mine(c)' = Mine(c)
<1>1. spc' # "writeOutput"
  BY DEF NextInput, Goto
<1> QED
  BY <1>1, HeldAfterInput DEF Mine

LEMMA RecvInputKeepsStep ==
  ASSUME KInv, RecvInput
  PROVE  KInv'
<1> USE ClientsAssumption, PeersAssumption DEF KInv, RecvInput, peerVars, clientVars, enclaveVars
<1>0. i \in Clients /\ Sock(i) \in Clients
  BY SockIsClient
<1>1. PICK c \in Clients : c = Sock(i)
  BY <1>0
<1> DEFINE msg == Head(up[c])
<1>2. /\ up[c] \in Seq(InputOf(c)) /\ up[c] # <<>>
      /\ up' = [up EXCEPT ![c] = Tail(@)]
      /\ UNCHANGED <<down, open, serving, rstS, rstP>>
  BY <1>1 DEF Typed, ServerGets
<1>3. msg.id = c /\ msg.m \in Encrypted
  <2>1. msg \in InputOf(c)
    BY <1>2
  <2> QED
    BY <2>1 DEF InputOf
<1>4. /\ up'[c] \in Seq(InputOf(c)) /\ Len(up'[c]) = Len(up[c]) - 1
      /\ DOMAIN up' = Clients
      /\ \A d \in Clients : d # c => up'[d] = up[d]
  BY <1>1, <1>2 DEF Typed
<1>5. /\ sock_client_map' = [sock_client_map EXCEPT ![i] = c]
      /\ enclave_message' = [enclave_message EXCEPT ![c] = msg.m]
      /\ read' = TRUE /\ NextInput
  BY <1>1, <1>3
<1>6. /\ i \in Nat /\ i' \in Clients
      /\ \/ spc' = "recvInput" /\ i' = i + 1
         \/ spc' = "passInput" /\ i + 1 = NUM_OF_CLIENTS /\ i' = 0
  BY <1>0, <1>5 DEF NextInput, Goto, Clients
<1>7. Typed'
  <2>1. enclave_message' \in [Clients -> Encrypted]
    BY <1>3, <1>5 DEF Typed
  <2>2. sock_client_map' \in [Clients -> Clients \cup {Unknown}]
    BY <1>5 DEF Typed
  <2>3. \A d \in Clients : up'[d] \in Seq(InputOf(d))
    BY <1>4 DEF Typed
  <2> QED
    BY <1>2, <1>4, <1>6, <2>1, <2>2, <2>3 DEF Typed
<1>8. Undisturbed'
  BY <1>2 DEF Undisturbed, QuitAfter
<1>9. Connected'
  BY <1>6 DEF Connected
<1>10. Identified'
  <2>1. \A n \in Clients : n < i => sock_client_map'[n] = client_sock'[n + 1]
    <3> SUFFICES ASSUME NEW n \in Clients, n < i
                 PROVE  sock_client_map'[n] = client_sock'[n + 1]
      OBVIOUS
    <3>1. sock_client_map[n] = client_sock[n + 1]
      BY DEF Identified
    <3>2. n # i
      BY <1>6 DEF Clients
    <3> QED
      BY <1>5, <3>1, <3>2 DEF Typed
  <2>2. sock_client_map'[i] = client_sock'[i + 1]
    BY <1>0, <1>1, <1>5 DEF Typed, Sock
  <2>3. \A n \in Clients : (spc' = "recvInput" /\ n < i') \/ spc' = "passInput"
                             => n < i \/ n = i
    BY <1>6 DEF Clients
  <2> QED
    BY <1>5, <1>6, <2>1, <2>2, <2>3 DEF Identified
<1>11. InStep'
  <2> SUFFICES ASSUME NEW d \in Clients PROVE Diff(d)' = Diff(d)
    BY DEF InStep
  <2>1. com_key' = com_key /\ com_to_client_key' = com_to_client_key /\ down' = down
    BY <1>2
  <2>2. /\ d = c => Mine(d) = 0 /\ Mine(d)' = 1
        /\ d # c => Mine(d)' = Mine(d)
    BY <1>1, <1>5, MineAfterInput
  <2>3. CASE d = c
    <3>1. com_key'[d] = com_key[d] + 0 /\ com_to_client_key'[d] = com_to_client_key[d] + 0
      BY <2>1, Numbers
    <3>2. Len(up'[d]) = Len(up[d]) + (-1) /\ Len(down'[d]) = Len(down[d]) + 0
      BY <1>4, <2>1, <2>3, Numbers
    <3>3. Mine(d)' = Mine(d) + 1
      BY <2>2, <2>3
    <3>4. Adds(d, 0, 0, -1, 0, 1)
      BY <3>1, <3>2, <3>3 DEF Adds
    <3> QED
      BY <3>4, DiffKept
  <2>4. CASE d # c
    BY <1>4, <2>1, <2>2, <2>4 DEF Diff
  <2> QED
    BY <2>3, <2>4
<1> QED
  BY <1>7, <1>8, <1>9, <1>10, <1>11

LEMMA PassInputKeepsStep ==
  ASSUME KInv, PassInput
  PROVE  KInv'
<1> USE ClientsAssumption DEF KInv, PassInput, Goto, peerVars, clientVars, sockets
<1> DEFINE v == [c \in Clients |-> Decrypt(com_to_client_key[c], enclave_message[c])]
<1>1. /\ com_to_client_key' = [c \in Clients |-> com_to_client_key[c] + 1]
      /\ output' = IF Junk \in {v[c] : c \in Clients} THEN Junk ELSE v
      /\ UNCHANGED enclave
  BY DEF Identified, Undisturbed, passInput, EcallFails
<1>2. output' \in [Clients -> Nat \cup {Junk}] \cup {Junk}
  <2>1. \A c \in Clients : v[c] \in Nat \cup {Junk}
    BY DEF Typed, Encrypted, Decrypt
  <2>2. v \in [Clients -> Nat \cup {Junk}]
    BY <2>1
  <2> QED
    BY <1>1, <2>2
<1>3. Typed'
  <2>1. com_to_client_key' \in [Clients -> Int]
    BY <1>1 DEF Typed
  <2>2. i' \in Clients
    BY DEF Clients
  <2> QED
    BY <1>2, <2>1, <2>2 DEF Typed
<1>4. Undisturbed'
  BY <1>1 DEF Undisturbed, QuitAfter
<1>5. Connected'
  BY DEF Connected
<1>6. Identified'
  BY DEF Identified
<1>7. InStep'
  <2> SUFFICES ASSUME NEW d \in Clients PROVE Diff(d)' = Diff(d)
    BY DEF InStep
  <2>1. Mine(d) = 1 /\ Mine(d)' = 0
    BY DEF Mine, Held
  <2>2. com_key'[d] = com_key[d] + 0 /\ com_to_client_key'[d] = com_to_client_key[d] + 1
    BY <1>1, Numbers
  <2>3. Len(up'[d]) = Len(up[d]) + 0 /\ Len(down'[d]) = Len(down[d]) + 0
    BY Numbers
  <2>4. Adds(d, 0, 1, 0, 0, -1)
    BY <2>1, <2>2, <2>3 DEF Adds
  <2> QED
    BY <2>4, DiffKept
<1> QED
  BY <1>3, <1>4, <1>5, <1>6, <1>7

LEMMA GetOutputKeepsStep ==
  ASSUME KInv, GetOutput
  PROVE  KInv'
<1> USE ClientsAssumption DEF KInv, GetOutput, Goto, peerVars, clientVars, sockets
<1>0. i \in Clients /\ Sock(i) \in Clients
  BY SockIsClient
<1>1. PICK c \in Clients : c = Sock(i)
  BY <1>0
<1>2. Indices(sock_client_map[i]) = {c}
  BY <1>0, <1>1, UnknownAssumption DEF Identified, Indices, Sock
<1>3. /\ com_to_client_key' = [com_to_client_key EXCEPT ![c] = @ + 1]
      /\ output_message' = OutputMessage(c, output_message)
      /\ UNCHANGED <<enclave, output>> /\ enclave = "running"
  BY <1>2 DEF Undisturbed, getOutputFromEnclave, EcallFails
<1>4. output_message' \in Output
  <2>1. output_message' = Encrypt(com_to_client_key[c], output)
    BY <1>3 DEF OutputMessage
  <2> QED
    BY <2>1 DEF Typed, Encrypt, Output
<1>5. Typed'
  BY <1>3, <1>4 DEF Typed
<1>6. Undisturbed'
  BY <1>3 DEF Undisturbed, QuitAfter
<1>7. Connected'
  BY DEF Connected
<1>8. Identified'
  BY DEF Identified
<1>9. InStep'
  <2> SUFFICES ASSUME NEW d \in Clients PROVE Diff(d)' = Diff(d)
    BY DEF InStep
  <2>1. ~Held(d) /\ ~Held(d)'
    BY DEF Held
  <2>2. CASE d = c
    <3>1. Mine(d) = 0 /\ Mine(d)' = -1
      BY <1>1, <2>1, <2>2 DEF Mine, Sock
    <3>2. com_key'[d] = com_key[d] + 0 /\ com_to_client_key'[d] = com_to_client_key[d] + 1
      BY <1>3, <2>2, Numbers DEF Typed
    <3>3. Len(up'[d]) = Len(up[d]) + 0 /\ Len(down'[d]) = Len(down[d]) + 0
      BY Numbers
    <3>4. Adds(d, 0, 1, 0, 0, -1)
      BY <3>1, <3>2, <3>3 DEF Adds
    <3> QED
      BY <3>4, DiffKept
  <2>3. CASE d # c
    <3>1. Mine(d)' = Mine(d)
      BY <1>1, <2>1, <2>3 DEF Mine, Sock
    <3> QED
      BY <1>3, <2>3, <3>1 DEF Diff, Typed
  <2> QED
    BY <2>2, <2>3
<1> QED
  BY <1>5, <1>6, <1>7, <1>8, <1>9

LEMMA WriteOutputKeepsStep ==
  ASSUME KInv, WriteOutput, open[Sock(i)]
  PROVE  KInv'
<1> USE ClientsAssumption, PeersAssumption
    DEF KInv, WriteOutput, Goto, peerVars, clientVars, enclaveVars
<1>0. i \in Clients /\ Sock(i) \in Clients
  BY SockIsClient
<1>1. PICK c \in Clients : c = Sock(i)
  BY <1>0
<1>2. /\ down' = [down EXCEPT ![c] = Append(@, output_message)]
      /\ UNCHANGED <<up, open, serving, rstS, rstP>>
  BY <1>1 DEF Undisturbed, ServerSends
<1>3. /\ down'[c] \in Seq(Output) /\ Len(down'[c]) = Len(down[c]) + 1
      /\ DOMAIN down' = Clients
      /\ \A d \in Clients : d # c => down'[d] = down[d]
  BY <1>2 DEF Typed
<1>4. i' \in Clients /\ spc' \in {"getOutput", "freeCircuit"}
  BY <1>0 DEF Clients
<1>5. Typed'
  <2>1. \A d \in Clients : down'[d] \in Seq(Output)
    BY <1>3 DEF Typed
  <2> QED
    BY <1>2, <1>3, <1>4, <2>1 DEF Typed
<1>6. Undisturbed'
  BY <1>2 DEF Undisturbed, QuitAfter
<1>7. Connected'
  BY <1>4 DEF Connected
<1>8. Identified'
  BY <1>4 DEF Identified
<1>9. InStep'
  <2> SUFFICES ASSUME NEW d \in Clients PROVE Diff(d)' = Diff(d)
    BY DEF InStep
  <2>1. ~Held(d) /\ ~Held(d)' /\ Mine(d)' = 0
    BY <1>4 DEF Held, Mine
  <2>2. CASE d = c
    <3>1. Mine(d) = -1
      BY <1>1, <2>1, <2>2 DEF Mine
    <3>2. com_key'[d] = com_key[d] + 0 /\ com_to_client_key'[d] = com_to_client_key[d] + 0
      BY Numbers
    <3>3. Len(up'[d]) = Len(up[d]) + 0 /\ Len(down'[d]) = Len(down[d]) + 1
      BY <1>2, <1>3, <2>2, Numbers
    <3>4. Adds(d, 0, 0, 0, 1, 1)
      BY <2>1, <3>1, <3>2, <3>3 DEF Adds
    <3> QED
      BY <3>4, DiffKept
  <2>3. CASE d # c
    <3>1. Mine(d) = 0
      BY <1>1, <2>1, <2>3 DEF Mine
    <3> QED
      BY <1>2, <1>3, <2>1, <2>3, <3>1 DEF Diff
  <2> QED
    BY <2>2, <2>3
<1> QED
  BY <1>5, <1>6, <1>7, <1>8, <1>9

(* When nobody leaves, the server misses nobody. *)
LEMMA NobodyMissed ==
  ASSUME Staying, KInv
  PROVE  ~RecvNoInput /\ \A c \in Clients : ~Leave(c)
<1>0. ASSUME NEW p \in Peers PROVE crounds[p] # QuitAfter(p)
  <2>1. crounds[p] <= Rounds /\ crounds[p] \in Int
    BY PeersAssumption, RoundsAssumption DEF KInv, Typed
  <2>2. QuitAfter(p) > Rounds /\ QuitAfter(p) \in Nat
    BY PeersAssumption, QuitNumber DEF KInv, Undisturbed, Staying, QuitAfter
  <2> QED
    BY <2>1, <2>2, RoundsAssumption
<1>1. ASSUME NEW p \in Peers PROVE open[p] /\ rstP[p] = "none"
  BY <1>0 DEF KInv, Undisturbed
<1>2. ASSUME spc = "recvInput" PROVE open[Sock(i)] /\ rstS[Sock(i)] = "none"
  BY <1>1, <1>2, SockIsClient, PeersAssumption DEF KInv, Undisturbed
<1> QED
  BY <1>0, <1>1, <1>2, PeersAssumption DEF RecvNoInput, ServerRecvFails, Leave, PeerRecvFails

-----------------------------------------------------------------------------
(* The rounds.  Until the server misses one, case 1 gives every client the *)
(* result of each round on the inputs that all clients sent in that round, *)
(* whatever the number of clients and of rounds and the order in which     *)
(* they connect and send. *)

(* What client c sends in round n, and what the circuit yields.            *)
Input(c, n) == IF BadInput(c, n) THEN Junk ELSE n
Genuine(n) == IF \E d \in Clients : BadInput(d, n) THEN Junk ELSE AllOf(n)

Sent(c) == Encrypt(com_key[c] - 1, Input(c, crounds[c]))

(* Has the enclave a result that the server has yet to send to c?          *)
Due(c) ==
  /\ spc \in {"getOutput", "writeOutput"}
  /\ \E n \in Clients : n >= i /\ Sock(n) = c

(* Where the message of client c is, when r rounds have had all inputs.    *)
Idle(c, r) ==
  /\ cpc[c] \in {"connect", "send", "ended"}
  /\ up[c] = <<>> /\ down[c] = <<>> /\ ~Held(c) /\ ~Due(c)
  /\ crounds[c] = r /\ Len(results[c]) = r

OnItsWay(c, r) ==
  /\ up[c] = <<[id |-> c, m |-> Sent(c)]>> /\ down[c] = <<>> /\ ~Held(c) /\ ~Due(c)
  /\ crounds[c] = r + 1

AtServer(c, r) ==
  /\ up[c] = <<>> /\ down[c] = <<>> /\ Held(c) /\ ~Due(c)
  /\ enclave_message[c] = Sent(c)
  /\ crounds[c] = IF spc = "recvInput" THEN r + 1 ELSE r

Evaluating(c, r) ==
  /\ up[c] = <<>> /\ down[c] = <<>> /\ ~Held(c) /\ Due(c)
  /\ crounds[c] = r

Answered(c, r) ==
  /\ up[c] = <<>> /\ down[c] = <<Encrypt(com_key[c], Genuine(r))>> /\ ~Held(c) /\ ~Due(c)
  /\ crounds[c] = r

Waiting(c, r) ==
  /\ cpc[c] = "recv" /\ crounds[c] = Len(results[c]) + 1
  /\ OnItsWay(c, r) \/ AtServer(c, r) \/ Evaluating(c, r) \/ Answered(c, r)

ResultsRight == \A c \in Clients : \A n \in DOMAIN results[c] : results[c][n] = Genuine(n)

(* What the server has is the result of this round. *)
OutputRight(r) ==
  /\ spc \in {"getOutput", "writeOutput"} => output = Genuine(r)
  /\ spc = "writeOutput" => output_message = Encrypt(com_key[Sock(i)], Genuine(r))

InRound(r) == (\A c \in Clients : Idle(c, r) \/ Waiting(c, r)) /\ OutputRight(r)

(* Before the enclave has heard of all clients, and after a crash, it has  *)
(* given no result.                                                        *)
Fresh ==
  enclave = "crashed" \/ (\E n \in Clients : sock_client_map[n] = Unknown)
    => output = Junk /\ output_message.v = Junk

(* An input that the enclave has had does not decrypt again. *)
Spent ==
  \A c \in Clients : ~Held(c) => enclave_message[c].key < com_to_client_key[c]

RInv ==
  /\ KInv
  /\ Fresh
  /\ Spent
  /\ results \in [Clients -> Seq([Clients -> Nat \cup {Junk}] \cup {Junk})]
  /\ ResultsRight
  /\ \E r \in Nat : InRound(r)

(* A step that moves nothing of client c.                                  *)
Still(c) ==
  /\ cpc'[c] = cpc[c] /\ up'[c] = up[c] /\ down'[c] = down[c]
  /\ com_key'[c] = com_key[c] /\ crounds'[c] = crounds[c] /\ results'[c] = results[c]
  /\ enclave_message'[c] = enclave_message[c] /\ scenario' = scenario

LEMMA StaysInRound ==
  ASSUME NEW c, NEW r, Still(c), Idle(c, r) \/ Waiting(c, r),
         Held(c)' <=> Held(c), Due(c)' <=> Due(c),
         Held(c) => (spc' = "recvInput" <=> spc = "recvInput")
  PROVE  (Idle(c, r) \/ Waiting(c, r))'
<1>1. Sent(c)' = Sent(c) /\ Genuine(r)' = Genuine(r)
  BY DEF Still, Sent, Input, Genuine, BadInput
<1>2. CASE Idle(c, r)
  BY <1>2 DEF Still, Idle
<1>3. CASE Waiting(c, r)
  <2>1. cpc'[c] = "recv" /\ crounds'[c] = Len(results'[c]) + 1
    BY <1>3 DEF Still, Waiting
  <2>2. CASE OnItsWay(c, r)
    BY <1>1, <2>1, <2>2 DEF Still, OnItsWay, Waiting
  <2>3. CASE AtServer(c, r)
    BY <1>1, <2>1, <2>3 DEF Still, AtServer, Waiting
  <2>4. CASE Evaluating(c, r)
    BY <1>1, <2>1, <2>4 DEF Still, Evaluating, Waiting
  <2>5. CASE Answered(c, r)
    BY <1>1, <2>1, <2>5 DEF Still, Answered, Waiting
  <2> QED
    BY <1>3, <2>2, <2>3, <2>4, <2>5 DEF Waiting
<1> QED
  BY <1>2, <1>3

LEMMA RInitially == Init => RInv
<1> SUFFICES ASSUME Init PROVE RInv
  OBVIOUS
<1> USE PeersAssumption DEF Init, DataOwnerInit, SocketsInit
<1>1. KInv
  BY KInitially
<1>2. \A c \in Clients : Idle(c, 0)
  BY DEF Idle, Held, Due
<1>3. InRound(0)
  BY <1>2 DEF InRound, OutputRight
<1>4. results \in [Clients -> Seq([Clients -> Nat \cup {Junk}] \cup {Junk})] /\ ResultsRight
  BY DEF ResultsRight
<1>5. Fresh
  BY DEF Fresh, EnclaveInit, Nothing
<1>6. Spent
  BY ClientsAssumption DEF Spent, EnclaveInit, Nothing, Clients
<1> QED
  BY <1>1, <1>3, <1>4, <1>5, <1>6 DEF RInv

(* The connections of the clients are those of the server. *)
LEMMA SockBijective ==
  ASSUME KInv, spc \notin {"start", "accept"}
  PROVE  /\ i \in Nat /\ i < NUM_OF_CLIENTS /\ NUM_OF_CLIENTS \in Nat
         /\ \A c \in Clients : \E n \in Clients : Sock(n) = c
         /\ \A m, n \in Clients : Sock(m) = Sock(n) => m = n
<1> USE ClientsAssumption DEF KInv
<1>1. i \in Nat /\ i < NUM_OF_CLIENTS /\ NUM_OF_CLIENTS \in Nat
  BY DEF Typed, Clients
<1>2. /\ client_sock \in Seq(Clients) /\ Len(client_sock) = NUM_OF_CLIENTS
      /\ \A m, n \in 1..Len(client_sock) : client_sock[m] = client_sock[n] => m = n
  BY DEF Connected
<1>3. \A c \in Clients : \E n \in Clients : Sock(n) = c
  BY <1>2, AllConnected DEF Sock
<1>4. ASSUME NEW m \in Clients, NEW n \in Clients, Sock(m) = Sock(n) PROVE m = n
  <2>1. m + 1 \in 1..Len(client_sock) /\ n + 1 \in 1..Len(client_sock)
    BY <1>2 DEF Clients
  <2>2. m + 1 = n + 1
    BY <1>2, <1>4, <2>1 DEF Sock
  <2> QED
    BY <2>2 DEF Clients
<1> QED
  BY <1>1, <1>3, <1>4

LEMMA ResultsKept ==
  ASSUME RInv, UNCHANGED <<results, scenario>>
  PROVE  /\ results' \in [Clients -> Seq([Clients -> Nat \cup {Junk}] \cup {Junk})]
         /\ ResultsRight'
BY DEF RInv, ResultsRight, Genuine, BadInput

(* A step of the server that takes and sends no message.                   *)
LEMMA QuietKeeps ==
  ASSUME NEW r \in Nat, InRound(r), OutputRight(r)',
         UNCHANGED <<scenario, clientVars, up, down, enclave_message>>,
         \A c \in Clients : (Held(c)' <=> Held(c)) /\ (Due(c)' <=> Due(c)),
         spc = "recvInput" <=> spc' = "recvInput"
  PROVE  InRound(r)'
<1> SUFFICES ASSUME NEW c \in Clients PROVE (Idle(c, r) \/ Waiting(c, r))'
  BY DEF InRound
<1>1. Still(c)
  BY DEF Still, clientVars
<1> QED
  BY <1>1, StaysInRound DEF InRound

(* Outside the service of a round, the server has nothing of anybody.      *)
LEMMA RestKeeps ==
  ASSUME NEW r \in Nat, KInv, InRound(r), Start \/ Accept \/ NewRound \/ FreeCircuit
  PROVE  InRound(r)'
<1>1. /\ spc \in {"start", "accept", "newRound", "freeCircuit"}
      /\ spc' \in {"accept", "newRound", "recvInput"}
      /\ spc' = "recvInput" => i' = 0
      /\ UNCHANGED <<scenario, clientVars, up, down, enclave_message>>
  BY DEF Start, Accept, NewRound, FreeCircuit, Goto, peerVars, clientVars, sockets
<1>2. OutputRight(r)'
  BY <1>1 DEF OutputRight
<1>3. \A c \in Clients : ~Held(c) /\ ~Due(c) /\ ~Due(c)'
  BY <1>1 DEF Held, Due
<1>4. ASSUME NEW c \in Clients PROVE ~Held(c)'
  <2>1. CASE spc' = "recvInput"
    <3>1. \A n \in 0..(i' - 1) : FALSE
      BY <1>1, <2>1
    <3> QED
      BY <2>1, <3>1 DEF Held
  <2>2. CASE spc' # "recvInput"
    BY <1>1, <2>2 DEF Held
  <2> QED
    BY <2>1, <2>2
<1> SUFFICES ASSUME NEW c \in Clients PROVE (Idle(c, r) \/ Waiting(c, r))'
  BY <1>2 DEF InRound
<1>5. Still(c)
  BY <1>1 DEF Still, clientVars
<1> QED
  BY <1>3, <1>4, <1>5, StaysInRound DEF InRound

(* The clients. *)

LEMMA ConnectInRound ==
  ASSUME NEW r \in Nat, KInv, InRound(r), NEW c \in Clients, Connect(c),
         UNCHANGED <<serverVars, enclaveVars>>
  PROVE  InRound(r)'
<1>1. /\ cpc[c] = "connect" /\ cpc' = [cpc EXCEPT ![c] = "send"]
      /\ UNCHANGED <<scenario, com_key, crounds, results, up, down>>
  BY DEF Connect, sockets
<1>2. /\ UNCHANGED <<spc, i, client_sock, enclave_message, output, output_message>>
  BY DEF serverVars, enclaveVars
<1>3. OutputRight(r)'
  BY <1>1, <1>2 DEF InRound, OutputRight, Genuine, BadInput, Sock
<1>4. \A d \in Clients : (Held(d)' <=> Held(d)) /\ (Due(d)' <=> Due(d))
  BY <1>2 DEF Held, Due, Sock
<1> SUFFICES ASSUME NEW d \in Clients PROVE (Idle(d, r) \/ Waiting(d, r))'
  BY <1>3 DEF InRound
<1>5. CASE d = c
  <2>1. Idle(d, r)
    BY <1>1, <1>5 DEF InRound, Waiting
  <2> QED
    BY <1>1, <1>4, <1>5, <2>1 DEF Idle, KInv, Typed
<1>6. CASE d # c
  <2>1. Still(d)
    BY <1>1, <1>2, <1>6 DEF Still, KInv, Typed
  <2> QED
    BY <1>2, <1>4, <2>1, StaysInRound DEF InRound
<1> QED
  BY <1>5, <1>6

(* The result that is being sent is not for a client that goes on. *)
LEMMA OutputStays ==
  ASSUME NEW r \in Nat, KInv, InRound(r), NEW c \in Clients, ~Due(c),
         UNCHANGED <<scenario, spc, i, client_sock, output, output_message>>,
         \A d \in Clients : d # c => com_key'[d] = com_key[d]
  PROVE  OutputRight(r)'
<1>1. Genuine(r)' = Genuine(r)
  BY DEF Genuine, BadInput
<1>2. CASE spc = "writeOutput"
  <2>1. i \in Clients /\ Sock(i) \in Clients /\ i >= i
    BY <1>2, SockIsClient, SockBijective
  <2>2. Sock(i) # c
    BY <1>2, <2>1 DEF Due
  <2>3. com_key'[client_sock[i + 1]] = com_key[client_sock[i + 1]]
    BY <2>1, <2>2 DEF Sock
  <2> QED
    BY <1>1, <1>2, <2>3 DEF InRound, OutputRight, Sock
<1>3. CASE spc # "writeOutput"
  BY <1>1, <1>3 DEF InRound, OutputRight
<1> QED
  BY <1>2, <1>3

LEMMA SendInputInRound ==
  ASSUME NEW r \in Nat, KInv, InRound(r), NEW c \in Clients, SendInput(c),
         UNCHANGED <<serverVars, enclaveVars>>
  PROVE  InRound(r)'
<1> DEFINE msg == [id |-> c, m |-> Encrypt(com_key[c], Input(c, crounds[c] + 1))]
<1>1. /\ cpc[c] = "send" /\ cpc' = [cpc EXCEPT ![c] = "recv"]
      /\ com_key' = [com_key EXCEPT ![c] = @ + 1]
      /\ crounds' = [crounds EXCEPT ![c] = @ + 1]
      /\ UNCHANGED <<scenario, results>>
  BY DEF SendInput
<1>2. up' = [up EXCEPT ![c] = Append(@, msg)] /\ UNCHANGED down
  BY PeersAssumption DEF SendInput, PeerSends, KInv, Undisturbed, Input
<1>3. UNCHANGED <<spc, i, client_sock, enclave_message, output, output_message>>
  BY DEF serverVars, enclaveVars
<1>4. \A d \in Clients : (Held(d)' <=> Held(d)) /\ (Due(d)' <=> Due(d))
  BY <1>3 DEF Held, Due, Sock
<1>5. Idle(c, r)
  BY <1>1 DEF InRound, Waiting
<1>6. OutputRight(r)'
  BY <1>1, <1>3, <1>5, OutputStays DEF Idle, KInv, Typed
<1> SUFFICES ASSUME NEW d \in Clients PROVE (Idle(d, r) \/ Waiting(d, r))'
  BY <1>6 DEF InRound
<1>7. CASE d = c
  <2>1. up'[c] = <<msg>>
    BY <1>2, <1>5 DEF Idle, KInv, Typed
  <2>2. /\ crounds'[c] = r + 1 /\ com_key'[c] - 1 = com_key[c]
        /\ crounds[c] + 1 = r + 1 /\ com_key[c] \in Int
    BY <1>1, <1>5 DEF Idle, KInv, Typed
  <2>3. msg = [id |-> c, m |-> Sent(c)']
    BY <1>1, <2>2 DEF Sent, Input, BadInput
  <2>4. OnItsWay(c, r)'
    BY <1>2, <1>4, <1>5, <2>1, <2>2, <2>3 DEF OnItsWay, Idle
  <2>5. cpc'[c] = "recv" /\ crounds'[c] = Len(results'[c]) + 1
    BY <1>1, <1>5, <2>2 DEF Idle, KInv, Typed
  <2> QED
    BY <1>7, <2>4, <2>5 DEF Waiting
<1>8. CASE d # c
  <2>1. Still(d)
    BY <1>1, <1>2, <1>3, <1>8 DEF Still, KInv, Typed
  <2> QED
    BY <1>3, <1>4, <2>1, StaysInRound DEF InRound
<1> QED
  BY <1>7, <1>8

LEMMA RecvResultInRound ==
  ASSUME NEW r \in Nat, RInv, InRound(r), NEW c \in Clients, RecvResult(c),
         UNCHANGED <<serverVars, enclaveVars>>
  PROVE  /\ InRound(r)'
         /\ results' \in [Clients -> Seq([Clients -> Nat \cup {Junk}] \cup {Junk})]
         /\ ResultsRight'
<1> USE DEF RInv
<1>1. /\ cpc[c] = "recv" /\ cpc' = [cpc EXCEPT ![c] = "send"]
      /\ com_key' = [com_key EXCEPT ![c] = @ + 1]
      /\ UNCHANGED <<scenario, crounds>>
  BY DEF RecvResult
<1>2. /\ down[c] # <<>> /\ down' = [down EXCEPT ![c] = Tail(@)] /\ UNCHANGED up
      /\ results' = [results EXCEPT ![c] = Append(@, Decrypt(com_key[c], Head(down[c])))]
  BY PeersAssumption DEF RecvResult, PeerGets, PeerRecvEnds, KInv, Undisturbed
<1>3. UNCHANGED <<spc, i, client_sock, enclave_message, output, output_message>>
  BY DEF serverVars, enclaveVars
<1>4. \A d \in Clients : (Held(d)' <=> Held(d)) /\ (Due(d)' <=> Due(d))
  BY <1>3 DEF Held, Due, Sock
<1>5. Answered(c, r) /\ crounds[c] = Len(results[c]) + 1
  BY <1>1, <1>2 DEF InRound, Idle, Waiting, OnItsWay, AtServer, Evaluating
<1>6. OutputRight(r)'
  BY <1>1, <1>3, <1>5, OutputStays DEF Answered, KInv, Typed
<1>7. results' = [results EXCEPT ![c] = Append(@, Genuine(r))] /\ down'[c] = <<>>
  <2>1. down[c] = <<Encrypt(com_key[c], Genuine(r))>> /\ DOMAIN down = Clients
    BY <1>5 DEF Answered, KInv, Typed
  <2>2. Head(down[c]) = Encrypt(com_key[c], Genuine(r)) /\ Tail(down[c]) = <<>>
    BY <2>1
  <2>3. Decrypt(com_key[c], Head(down[c])) = Genuine(r)
    BY <2>2 DEF Encrypt, Decrypt
  <2> QED
    BY <1>2, <2>1, <2>2, <2>3
<1>8. Genuine(r) \in [Clients -> Nat \cup {Junk}] \cup {Junk}
  BY DEF Genuine, AllOf
<1>9. /\ results[c] \in Seq([Clients -> Nat \cup {Junk}] \cup {Junk})
      /\ Len(results[c]) + 1 = r /\ Len(results[c]) \in Nat
  BY <1>5 DEF Answered
<1>10. /\ results'[c] \in Seq([Clients -> Nat \cup {Junk}] \cup {Junk})
       /\ DOMAIN results'[c] = 1..r /\ Len(results'[c]) = r
       /\ results'[c][r] = Genuine(r)
       /\ \A n \in 1..(r - 1) : results'[c][n] = results[c][n]
       /\ DOMAIN results[c] = 1..(r - 1)
  BY <1>7, <1>8, <1>9
<1>11. \A n : Genuine(n)' = Genuine(n)
  BY <1>1 DEF Genuine, BadInput
<1>12. results' \in [Clients -> Seq([Clients -> Nat \cup {Junk}] \cup {Junk})]
  BY <1>7, <1>10
<1>13. ResultsRight'
  <2> SUFFICES ASSUME NEW d \in Clients, NEW n \in DOMAIN results'[d]
               PROVE  results'[d][n] = Genuine(n)
    BY <1>11 DEF ResultsRight
  <2>1. CASE d # c
    BY <1>7, <2>1 DEF ResultsRight
  <2>2. CASE d = c /\ n = r
    BY <1>10, <2>2
  <2>3. CASE d = c /\ n # r
    <3>1. n \in 1..(r - 1)
      BY <1>10, <2>3
    <3> QED
      BY <1>10, <2>3, <3>1 DEF ResultsRight
  <2> QED
    BY <2>1, <2>2, <2>3
<1>14. ASSUME NEW d \in Clients PROVE (Idle(d, r) \/ Waiting(d, r))'
  <2>1. CASE d = c
    <3>1. cpc'[c] = "send"
      BY <1>1 DEF KInv, Typed
    <3> QED
      BY <1>1, <1>2, <1>4, <1>5, <1>7, <1>10, <2>1, <3>1 DEF Idle, Answered
  <2>2. CASE d # c
    <3>1. Still(d)
      BY <1>1, <1>2, <1>3, <2>2 DEF Still, KInv, Typed
    <3> QED
      BY <1>3, <1>4, <3>1, StaysInRound DEF InRound
  <2> QED
    BY <2>1, <2>2
<1> QED
  BY <1>6, <1>12, <1>13, <1>14 DEF InRound

(* A client leaves between two rounds, with nothing under way. *)
LEMMA LeaveInRound ==
  ASSUME NEW r \in Nat, KInv, InRound(r), NEW c \in Clients, Leave(c),
         UNCHANGED <<serverVars, enclaveVars>>
  PROVE  KInv' /\ InRound(r)'
<1>1. /\ cpc[c] = "send" /\ cpc' = [cpc EXCEPT ![c] = "ended"]
      /\ UNCHANGED <<scenario, com_key, crounds, results, up>>
  BY PeersAssumption DEF Leave, PeerRecvFails, PeerCloses, KInv, Undisturbed
<1>2. Idle(c, r)
  BY <1>1 DEF InRound, Waiting
<1>3. \A d \in Clients : down'[d] = down[d]
  BY <1>2 DEF Leave, PeerCloses, Idle, KInv, Typed
<1>4. KInv'
  BY <1>2, LeaveKeeps DEF Idle
<1>5. UNCHANGED <<spc, i, client_sock, enclave_message, output, output_message>>
  BY DEF serverVars, enclaveVars
<1>6. OutputRight(r)'
  BY <1>1, <1>5 DEF InRound, OutputRight, Genuine, BadInput, Sock
<1>7. \A d \in Clients : (Held(d)' <=> Held(d)) /\ (Due(d)' <=> Due(d))
  BY <1>5 DEF Held, Due, Sock
<1>8. ASSUME NEW d \in Clients PROVE (Idle(d, r) \/ Waiting(d, r))'
  <2>1. CASE d = c
    BY <1>1, <1>2, <1>3, <1>7, <2>1 DEF Idle, KInv, Typed
  <2>2. CASE d # c
    <3>1. Still(d)
      BY <1>1, <1>3, <1>5, <2>2 DEF Still, KInv, Typed
    <3> QED
      BY <1>5, <1>7, <3>1, StaysInRound DEF InRound
  <2> QED
    BY <2>1, <2>2
<1> QED
  BY <1>4, <1>6, <1>8 DEF InRound

(* The server.  The last input completes the round. *)

LEMMA RecvInputInRound ==
  ASSUME NEW r \in Nat, KInv, InRound(r), RecvInput
  PROVE  \/ spc' = "recvInput" /\ InRound(r)'
         \/ spc' = "passInput" /\ InRound(r + 1)'
<1> USE PeersAssumption
<1>0. i \in Clients /\ Sock(i) \in Clients /\ spc = "recvInput"
  BY SockIsClient DEF RecvInput
<1>1. PICK c \in Clients : c = Sock(i)
  BY <1>0
<1>2. /\ up[c] # <<>> /\ up' = [up EXCEPT ![c] = Tail(@)] /\ UNCHANGED down
      /\ enclave_message' = [enclave_message EXCEPT ![Head(up[c]).id] = Head(up[c]).m]
      /\ UNCHANGED <<cpc, com_key, crounds, results, scenario, client_sock>>
      /\ NextInput
  BY <1>1 DEF RecvInput, ServerGets, peerVars, clientVars
<1>3. OnItsWay(c, r) /\ cpc[c] = "recv" /\ crounds[c] = Len(results[c]) + 1
  BY <1>2 DEF InRound, Idle, Waiting, AtServer, Evaluating, Answered
<1>4. up'[c] = <<>> /\ enclave_message' = [enclave_message EXCEPT ![c] = Sent(c)]
  <2>1. up[c] = <<[id |-> c, m |-> Sent(c)]>> /\ DOMAIN up = Clients
    BY <1>3 DEF OnItsWay, KInv, Typed
  <2>2. Head(up[c]) = [id |-> c, m |-> Sent(c)] /\ Tail(up[c]) = <<>>
    BY <2>1
  <2>3. Head(up[c]).id = c /\ Head(up[c]).m = Sent(c)
    BY <2>2
  <2>4. enclave_message' = [enclave_message EXCEPT ![c] = Sent(c)]
    BY <1>2, <2>3
  <2> QED
    BY <1>2, <2>1, <2>2, <2>4
<1>5. \A d \in Clients : Held(d)' <=> Held(d) \/ d = c
  BY <1>0, <1>1, <1>2, HeldAfterInput
<1>6. spc' \in {"recvInput", "passInput"}
  BY <1>2 DEF NextInput, Goto
<1>7. \A d \in Clients : ~Due(d) /\ ~Due(d)'
  BY <1>0, <1>6 DEF Due
<1>8. \A d \in Clients : d # c => Still(d)
  BY <1>2, <1>4 DEF Still, KInv, Typed
<1>9. Sent(c)' = Sent(c) /\ enclave_message'[c] = Sent(c)
  BY <1>2, <1>4 DEF Sent, Input, BadInput, KInv, Typed
<1>10. \A q : OutputRight(q)'
  BY <1>6 DEF OutputRight
<1>11. /\ up'[c] = <<>> /\ down'[c] = <<>> /\ Held(c)' /\ ~Due(c)'
       /\ enclave_message'[c] = Sent(c)'
       /\ crounds'[c] = r + 1 /\ cpc'[c] = "recv" /\ crounds'[c] = Len(results'[c]) + 1
  BY <1>2, <1>3, <1>4, <1>5, <1>7, <1>9 DEF OnItsWay
<1>12. CASE spc' = "recvInput"
  <2>1. ASSUME NEW d \in Clients PROVE (Idle(d, r) \/ Waiting(d, r))'
    <3>1. CASE d = c
      BY <1>11, <1>12, <3>1 DEF Waiting, AtServer
    <3>2. CASE d # c
      BY <1>0, <1>5, <1>7, <1>8, <1>12, <3>2, StaysInRound DEF InRound
    <3> QED
      BY <3>1, <3>2
  <2> QED
    BY <1>10, <1>12, <2>1 DEF InRound
<1>13. CASE spc' = "passInput"
  <2>1. ASSUME NEW d \in Clients PROVE (Idle(d, r + 1) \/ Waiting(d, r + 1))'
    <3>1. CASE d = c
      BY <1>11, <1>13, <3>1 DEF Waiting, AtServer
    <3>2. CASE d # c
      <4>1. Held(d) /\ Held(d)'
        BY <1>5, <1>13, <3>2 DEF Held
      <4>2. AtServer(d, r) /\ cpc[d] = "recv" /\ crounds[d] = Len(results[d]) + 1
        BY <4>1 DEF InRound, Idle, Waiting, OnItsWay, Evaluating, Answered
      <4>3. Still(d) /\ Sent(d)' = Sent(d)
        BY <1>2, <1>8, <3>2 DEF Sent, Input, BadInput
      <4> QED
        BY <1>0, <1>7, <1>13, <4>1, <4>2, <4>3 DEF Still, Waiting, AtServer
    <3> QED
      BY <3>1, <3>2
  <2> QED
    BY <1>10, <1>13, <2>1 DEF InRound
<1> QED
  BY <1>6, <1>12, <1>13

(* The counters of the two ends when the server has an input of a client.  *)
LEMMA HeldKey ==
  ASSUME KInv, NEW r \in Nat, NEW c \in Clients, AtServer(c, r), spc = "passInput"
  PROVE  com_key[c] - 1 = com_to_client_key[c]
<1>1. PICK x \in Int : x = com_key[c] BY Numbers DEF KInv
<1>2. PICK y \in Int : y = com_to_client_key[c] BY Numbers DEF KInv
<1>3. Len(up[c]) = 0 /\ Len(down[c]) = 0 /\ Mine(c) = 1
  BY DEF AtServer, Mine
<1>4. x - y - 0 + 0 - 1 = 0
  BY <1>1, <1>2, <1>3 DEF KInv, InStep, Diff
<1> QED
  BY <1>1, <1>2, <1>4

(* Every input is there, and each decrypts. *)
LEMMA PassInputInRound ==
  ASSUME NEW r \in Nat, KInv, InRound(r), PassInput
  PROVE  InRound(r)'
<1> DEFINE v == [c \in Clients |-> Decrypt(com_to_client_key[c], enclave_message[c])]
<1>1. /\ spc = "passInput" /\ spc' = "getOutput" /\ i' = 0
      /\ output' = IF Junk \in {v[c] : c \in Clients} THEN Junk ELSE v
      /\ UNCHANGED <<scenario, cpc, com_key, crounds, results, up, down, client_sock,
                     enclave_message>>
  BY DEF PassInput, Goto, KInv, Identified, Undisturbed, passInput, EcallFails,
         peerVars, clientVars, sockets
<1>2. \A c \in Clients : AtServer(c, r) /\ Waiting(c, r)
  BY <1>1 DEF Held, InRound, Idle, Waiting, OnItsWay, Evaluating, Answered
<1>3. ASSUME NEW c \in Clients PROVE v[c] = Input(c, r)
  <2>1. enclave_message[c] = Encrypt(com_key[c] - 1, Input(c, r))
    BY <1>1, <1>2 DEF AtServer, Sent
  <2>2. com_key[c] - 1 = com_to_client_key[c]
    BY <1>1, <1>2, HeldKey
  <2> QED
    BY <2>1, <2>2 DEF Encrypt, Decrypt
<1>4. output' = Genuine(r)
  <2>1. CASE \E d \in Clients : BadInput(d, r)
    <3>1. Junk \in {v[c] : c \in Clients}
      BY <1>3, <2>1 DEF Input
    <3> QED
      BY <1>1, <2>1, <3>1 DEF Genuine
  <2>2. CASE ~\E d \in Clients : BadInput(d, r)
    <3>1. \A c \in Clients : v[c] = r
      BY <1>3, <2>2 DEF Input
    <3>2. v = AllOf(r)
      BY <3>1 DEF AllOf
    <3>3. Junk \notin {v[c] : c \in Clients}
      BY <3>1, JunkAssumption
    <3> QED
      BY <1>1, <2>2, <3>2, <3>3 DEF Genuine
  <2> QED
    BY <2>1, <2>2
<1>5. OutputRight(r)'
  BY <1>1, <1>4 DEF OutputRight, Genuine, BadInput
<1>6. ASSUME NEW c \in Clients PROVE Waiting(c, r)'
  <2>1. PICK n \in Clients : Sock(n) = c
    BY <1>1, SockBijective
  <2>2. n >= i' /\ client_sock'[n + 1] = c
    BY <1>1, <2>1, ClientsAssumption DEF Clients, Sock
  <2>3. Due(c)' /\ ~Held(c)'
    BY <1>1, <2>2 DEF Due, Held, Sock
  <2>4. crounds[c] = r
    BY <1>1, <1>2 DEF AtServer
  <2>5. Evaluating(c, r)'
    BY <1>1, <1>2, <2>3, <2>4 DEF Evaluating, AtServer
  <2> QED
    BY <1>1, <1>2, <2>5 DEF Waiting
<1> QED
  BY <1>5, <1>6 DEF InRound

LEMMA GetOutputInRound ==
  ASSUME NEW r \in Nat, KInv, InRound(r), GetOutput
  PROVE  InRound(r)'
<1>0. i \in Clients /\ Sock(i) \in Clients /\ spc = "getOutput" /\ spc' = "writeOutput"
  BY SockIsClient DEF GetOutput, Goto
<1>1. PICK c \in Clients : c = Sock(i)
  BY <1>0
<1>2. /\ i' = i
      /\ UNCHANGED <<scenario, clientVars, up, down, client_sock, enclave_message>>
  BY DEF GetOutput, Goto, peerVars, sockets
<1>3. \A d \in Clients : (Held(d)' <=> Held(d)) /\ (Due(d)' <=> Due(d))
  BY <1>0, <1>2 DEF Held, Due, Sock
<1>4. Indices(sock_client_map[i]) = {c}
  BY <1>0, <1>1, UnknownAssumption DEF KInv, Identified, Indices, Sock
<1>5. output' = output /\ output_message' = Encrypt(com_to_client_key[c], output)
  BY <1>4 DEF GetOutput, KInv, Undisturbed, getOutputFromEnclave, EcallFails, OutputMessage
<1>6. com_to_client_key[c] = com_key[c]
  <2>1. Due(c) /\ ~Held(c)
    BY <1>0, <1>1, SockBijective DEF Due, Held
  <2>2. up[c] = <<>> /\ down[c] = <<>>
    BY <2>1 DEF InRound, Idle, Waiting, OnItsWay, AtServer, Evaluating, Answered
  <2>3. PICK x \in Int : x = com_key[c] BY Numbers DEF KInv
  <2>4. PICK y \in Int : y = com_to_client_key[c] BY Numbers DEF KInv
  <2>5. Len(up[c]) = 0 /\ Len(down[c]) = 0 /\ Mine(c) = 0
    BY <1>0, <2>1, <2>2 DEF Mine
  <2>6. x - y - 0 + 0 - 0 = 0
    BY <2>3, <2>4, <2>5 DEF KInv, InStep, Diff
  <2>7. x = y
    BY <2>6
  <2> QED
    BY <2>3, <2>4, <2>7
<1>7. OutputRight(r)'
  <2>1. output' = Genuine(r) /\ Genuine(r)' = Genuine(r)
    BY <1>0, <1>2, <1>5 DEF InRound, OutputRight, Genuine, BadInput
  <2>2. output_message' = Encrypt(com_key'[client_sock'[i' + 1]], Genuine(r))
    BY <1>1, <1>2, <1>5, <1>6, <2>1 DEF Sock, clientVars
  <2> QED
    BY <2>1, <2>2 DEF OutputRight, Sock
<1> QED
  BY <1>0, <1>2, <1>3, <1>7, QuietKeeps

(* Who is sent a result waits for it. *)
LEMMA ReceiverStays ==
  ASSUME NEW r \in Nat, KInv, InRound(r), spc = "writeOutput"
  PROVE  open[Sock(i)] /\ Due(Sock(i))
<1>1. i \in Clients /\ Sock(i) \in Clients
  BY SockIsClient
<1>2. Due(Sock(i))
  BY <1>1, SockBijective DEF Due
<1>3. cpc[Sock(i)] = "recv"
  BY <1>1, <1>2 DEF InRound, Idle, Waiting
<1> QED
  BY <1>1, <1>2, <1>3, PeersAssumption DEF KInv, Undisturbed

LEMMA WriteOutputInRound ==
  ASSUME NEW r \in Nat, KInv, InRound(r), WriteOutput
  PROVE  InRound(r)'
<1>0. i \in Clients /\ Sock(i) \in Clients /\ spc = "writeOutput"
  BY SockIsClient DEF WriteOutput
<1>1. PICK c \in Clients : c = Sock(i)
  BY <1>0
<1>2. /\ down' = [down EXCEPT ![c] = Append(@, output_message)] /\ UNCHANGED up
      /\ UNCHANGED <<scenario, cpc, com_key, crounds, results, client_sock, enclave_message,
                     output>>
  BY <1>0, <1>1, ReceiverStays DEF WriteOutput, ServerSends, peerVars, clientVars, enclaveVars
<1>3. \/ spc' = "getOutput" /\ i' = i + 1
      \/ spc' = "freeCircuit" /\ i + 1 >= NUM_OF_CLIENTS
  BY <1>0, ClientsAssumption DEF WriteOutput, Goto, Clients
<1>4. \A d \in Clients : ~Held(d) /\ ~Held(d)'
  BY <1>0, <1>3 DEF Held
<1>5. ASSUME NEW d \in Clients PROVE Due(d)' <=> Due(d) /\ d # c
  <2>1. ASSUME NEW n \in Clients, n >= i, Sock(n) = d, d # c
        PROVE  i + 1 < NUM_OF_CLIENTS /\ n >= i + 1
    BY <1>0, <1>1, <2>1, ClientsAssumption DEF Clients
  <2>2. ASSUME NEW n \in Clients, n >= i + 1
        PROVE  n >= i /\ Sock(n) # c
    <3>1. n >= i /\ n # i
      BY <1>0, <2>2, ClientsAssumption DEF Clients
    <3> QED
      BY <1>0, <1>1, <3>1, SockBijective
  <2>3. CASE spc' = "getOutput" /\ i' = i + 1
    BY <1>0, <1>2, <2>1, <2>2, <2>3 DEF Due, Sock
  <2>4. CASE spc' = "freeCircuit" /\ i + 1 >= NUM_OF_CLIENTS
    <3>1. ~Due(d)'
      BY <2>4 DEF Due
    <3>2. ~(i + 1 < NUM_OF_CLIENTS)
      BY <1>0, <2>4, ClientsAssumption DEF Clients
    <3> QED
      BY <2>1, <3>1, <3>2 DEF Due
  <2> QED
    BY <1>3, <2>3, <2>4
<1>6. OutputRight(r)'
  BY <1>0, <1>2, <1>3 DEF InRound, OutputRight, Genuine, BadInput
<1> SUFFICES ASSUME NEW d \in Clients PROVE (Idle(d, r) \/ Waiting(d, r))'
  BY <1>6 DEF InRound
<1>7. CASE d = c
  <2>1. Due(c)
    BY <1>0, <1>1, SockBijective DEF Due
  <2>2. Evaluating(c, r) /\ cpc[c] = "recv" /\ crounds[c] = Len(results[c]) + 1
    BY <2>1 DEF InRound, Idle, Waiting, OnItsWay, AtServer, Answered
  <2>3. output_message = Encrypt(com_key[c], Genuine(r)) /\ Genuine(r)' = Genuine(r)
    BY <1>0, <1>1, <1>2 DEF InRound, OutputRight, Genuine, BadInput
  <2>4. down'[c] = <<Encrypt(com_key[c], Genuine(r))>>
    <3>1. down[c] = <<>> /\ DOMAIN down = Clients
      BY <2>2 DEF Evaluating, KInv, Typed
    <3>2. Append(down[c], output_message) = <<output_message>>
      BY <3>1
    <3> QED
      BY <1>2, <2>3, <3>1, <3>2
  <2>5. Answered(c, r)'
    BY <1>2, <1>4, <1>5, <2>2, <2>3, <2>4 DEF Evaluating, Answered
  <2> QED
    BY <1>2, <1>7, <2>2, <2>5 DEF Waiting
<1>8. CASE d # c
  <2>1. Still(d)
    BY <1>2, <1>8 DEF Still, KInv, Typed
  <2> QED
    BY <1>4, <1>5, <1>8, <2>1, StaysInRound DEF InRound
<1> QED
  BY <1>7, <1>8

(* The last input of a round completes it; no other step does.             *)
Completes == spc # "passInput" /\ spc' = "passInput"

LEMMA StepInRound ==
  ASSUME RInv, [Next]_vars, ~RecvNoInput, NEW r \in Nat, InRound(r)
  PROVE  \/ ~Completes /\ InRound(r)'
         \/ Completes /\ RecvInput /\ InRound(r + 1)'
<1>1. KInv
  BY DEF RInv
<1>2. CASE UNCHANGED vars
  <2>1. /\ UNCHANGED <<scenario, clientVars, up, down, enclave_message>>
        /\ UNCHANGED <<spc, i, client_sock, output, output_message, com_key>>
    BY <1>2 DEF vars, peerVars, clientVars, serverVars, enclaveVars, sockets
  <2>2. \A c \in Clients : (Held(c)' <=> Held(c)) /\ (Due(c)' <=> Due(c))
    BY <2>1 DEF Held, Due, Sock
  <2>3. OutputRight(r)'
    BY <2>1 DEF InRound, OutputRight, Genuine, BadInput, Sock
  <2> QED
    BY <2>1, <2>2, <2>3, QuietKeeps DEF Completes
<1>3. CASE \E c \in Clients : Client(c)
  <2>1. PICK c \in Clients : Client(c)
    BY <1>3
  <2>2. Connect(c) \/ SendInput(c) \/ RecvResult(c) \/ Leave(c)
    BY <1>1, <2>1, NoReset DEF Client, DataOwner
  <2>3. InRound(r)'
    BY <1>1, <2>1, <2>2, ConnectInRound, SendInputInRound, RecvResultInRound, LeaveInRound
    DEF Client
  <2> QED
    BY <2>1, <2>3 DEF Client, serverVars, Completes
<1>4. CASE Server
  <2>1. CASE RecvInput
    <3>1. spc # "passInput"
      BY <2>1 DEF RecvInput
    <3> QED
      BY <1>1, <2>1, <3>1, RecvInputInRound DEF Completes
  <2>2. CASE ~RecvInput
    <3>1. InRound(r)'
      BY <1>1, <1>4, <2>2, RestKeeps, PassInputInRound, GetOutputInRound, WriteOutputInRound,
         NoReset DEF Server
    <3>2. spc' # "passInput"
      BY <1>1, <1>4, <2>2, NoReset
         DEF Server, Start, Accept, NewRound, PassInput, GetOutput, WriteOutput, FreeCircuit, Goto
    <3> QED
      BY <3>1, <3>2 DEF Completes
  <2> QED
    BY <2>1, <2>2
<1>5. CASE Network
  BY <1>1, <1>5, NoReset DEF Network
<1> QED
  BY <1>2, <1>3, <1>4, <1>5 DEF Next

LEMMA KInductive ==
  ASSUME KInv, [Next]_vars, ~RecvNoInput, NEW r \in Nat, InRound(r)
  PROVE  KInv'
<1>1. CASE \E c \in Clients : Client(c)
  BY <1>1, ConnectKeeps, SendInputKeeps, RecvResultKeeps, LeaveInRound, NoReset
  DEF Client, DataOwner
<1>2. CASE Network
  BY <1>2, NoReset DEF Network
<1>3. CASE Server
  <2>1. CASE WriteOutput
    BY <2>1, WriteOutputKeepsStep, ReceiverStays DEF WriteOutput
  <2>2. CASE ~WriteOutput
    BY <1>3, <2>2, StartKeepsStep, AcceptKeepsStep, RoundEndsKeepStep, RecvInputKeepsStep,
       PassInputKeepsStep, GetOutputKeepsStep, NoReset DEF Server
  <2> QED
    BY <2>1, <2>2
<1>4. CASE UNCHANGED vars
  BY <1>4 DEF vars, peerVars, clientVars, serverVars, enclaveVars, sockets, KInv, Typed,
     Undisturbed, Connected, Identified, InStep, Diff, Mine, Held, Sock, QuitAfter
<1> QED
  BY <1>1, <1>2, <1>3, <1>4 DEF Next

(* A number that is no client's is used only before there is a result.     *)
LEMMA ResultStands ==
  ASSUME Fresh, Typed, GetOutput
  PROVE  output' = output
<1>1. PICK index \in Indices(sock_client_map[i]) : getOutputFromEnclave(index)
  BY DEF GetOutput
<1>2. index \in Clients => output' = output
  BY <1>1 DEF getOutputFromEnclave, EcallFails, enclaveVars
<1>3. ASSUME index \notin Clients PROVE output' = output
  <2>1. output' \in {output, Junk}
    BY <1>1 DEF getOutputFromEnclave, EcallFails, enclaveVars
  <2>2. sock_client_map[i] = Unknown /\ i \in Clients
    BY <1>1, <1>3 DEF Indices, Typed
  <2> QED
    BY <2>1, <2>2 DEF Fresh
<1> QED
  BY <1>2, <1>3

(* The enclave crashes only on a client that it never heard of.            *)
LEMMA FreshKept ==
  ASSUME Fresh, [Next]_vars, Typed,
         RecvInput => Head(up[Sock(i)]).id \in Clients,
         PassInput => \/ output' \in {output, Junk}
                      \/ \A n \in Clients : sock_client_map[n] # Unknown
  PROVE  Fresh'
<1>1. CASE PassInput
  <2>1. UNCHANGED <<sock_client_map, output_message, enclave>>
    BY <1>1 DEF PassInput, passInput, EcallFails, enclaveVars
  <2>2. enclave = "crashed" => output' = output
    BY <1>1 DEF PassInput, passInput, EcallFails, enclaveVars
  <2> QED
    BY <1>1, <2>1, <2>2 DEF Fresh
<1>2. CASE GetOutput
  <2>1. PICK index \in Indices(sock_client_map[i]) :
          getOutputFromEnclave(index) /\ output_message' = OutputMessage(index, output_message)
    BY <1>2 DEF GetOutput
  <2>2. UNCHANGED sock_client_map /\ output' = output
    BY <1>2, ResultStands DEF GetOutput
  <2>3. SUFFICES ASSUME enclave' = "crashed" \/ \E n \in Clients : sock_client_map[n] = Unknown
                 PROVE  output = Junk /\ output_message'.v = Junk
    BY <2>2 DEF Fresh
  <2>4. enclave = "crashed" \/ \E n \in Clients : sock_client_map[n] = Unknown
    <3>1. CASE index \in Clients
      BY <2>1, <2>3, <3>1 DEF getOutputFromEnclave, EcallFails, enclaveVars
    <3>2. CASE index \notin Clients
      BY <2>1, <3>2 DEF Indices, Typed
    <3> QED
      BY <3>1, <3>2
  <2>5. output = Junk /\ output_message.v = Junk
    BY <2>4 DEF Fresh
  <2> QED
    BY <2>1, <2>5 DEF OutputMessage, Encrypt, Nothing
<1>3. CASE RecvInput
  <2>1. PICK c \in Clients : sock_client_map' = [sock_client_map EXCEPT ![i] = c]
    BY <1>3 DEF RecvInput
  <2>2. \A n \in Clients : sock_client_map'[n] = Unknown => sock_client_map[n] = Unknown
    BY <2>1, UnknownAssumption DEF Typed
  <2> QED
    BY <1>3, <2>2 DEF RecvInput, enclaveVars, Fresh
<1>4. CASE Server /\ ~PassInput /\ ~GetOutput /\ ~RecvInput
  <2>1. UNCHANGED <<sock_client_map, output_message, enclave, output>>
    BY <1>4 DEF Server, Start, Accept, NewRound, RecvNoInput, WriteOutput, FreeCircuit,
       ServerKilled, passCircuit, enclaveVars
  <2> QED
    BY <2>1 DEF Fresh
<1>5. CASE Network \/ UNCHANGED vars \/ \E c \in Clients : Client(c)
  BY <1>5 DEF Network, Client, vars, serverVars, enclaveVars, Fresh
<1> QED
  BY <1>1, <1>2, <1>3, <1>4, <1>5 DEF Next

LEMMA SpentKept ==
  ASSUME RInv, [Next]_vars, ~RecvNoInput, NEW r \in Nat, InRound(r)
  PROVE  Spent'
<1> SUFFICES ASSUME NEW c \in Clients, ~Held(c)'
             PROVE  enclave_message'[c].key < com_to_client_key'[c]
  BY DEF Spent
<1> USE DEF RInv, KInv
<1>0. com_to_client_key[c] \in Int /\ enclave_message[c].key \in Int
  BY DEF Typed, Encrypted
<1>1. CASE RecvInput
  <2>1. Sock(i) \in Clients /\ up[Sock(i)] # <<>> /\ spc = "recvInput"
    BY <1>1, SockIsClient DEF RecvInput, ServerGets
  <2>2. Head(up[Sock(i)]) \in InputOf(Sock(i))
    <3>1. up[Sock(i)] \in Seq(InputOf(Sock(i)))
      BY <2>1 DEF Typed
    <3> QED
      BY <2>1, <3>1
  <2>3. ~Held(c) /\ c # Sock(i)
    BY <1>1, <2>1, HeldAfterInput DEF RecvInput
  <2>4. enclave_message'[c] = enclave_message[c] /\ com_to_client_key' = com_to_client_key
    BY <1>1, <2>2, <2>3 DEF RecvInput, InputOf, Typed, enclaveVars
  <2> QED
    BY <2>3, <2>4 DEF Spent
<1>2. CASE PassInput
  <2>1. /\ com_to_client_key'[c] = com_to_client_key[c] + 1
        /\ enclave_message' = enclave_message
    BY <1>2 DEF PassInput, Identified, Undisturbed, passInput, EcallFails
  <2>2. AtServer(c, r)
    BY <1>2 DEF PassInput, Held, InRound, Idle, Waiting, OnItsWay, Evaluating, Answered
  <2>3. enclave_message[c].key = com_key[c] - 1
    BY <2>2 DEF AtServer, Sent, Encrypt
  <2>4. com_key[c] - 1 = com_to_client_key[c]
    BY <1>2, <2>2, HeldKey DEF PassInput
  <2> QED
    BY <1>0, <2>1, <2>3, <2>4
<1>3. CASE GetOutput
  <2>1. ~Held(c) /\ enclave_message' = enclave_message
    BY <1>3 DEF GetOutput, Held
  <2>2. \/ com_to_client_key'[c] = com_to_client_key[c]
        \/ com_to_client_key'[c] = com_to_client_key[c] + 1
    BY <1>3 DEF GetOutput, getOutputFromEnclave, EcallFails, enclaveVars, Typed
  <2> QED
    BY <1>0, <2>1, <2>2 DEF Spent
<1>4. CASE Start \/ Accept \/ NewRound \/ WriteOutput \/ FreeCircuit
  <2>1. ~Held(c)
    BY <1>4 DEF Start, Accept, NewRound, WriteOutput, FreeCircuit, Held
  <2>2. UNCHANGED <<enclave_message, com_to_client_key>>
    BY <1>4 DEF Start, Accept, NewRound, WriteOutput, FreeCircuit, passCircuit, enclaveVars
  <2> QED
    BY <2>1, <2>2 DEF Spent
<1>5. CASE Network \/ UNCHANGED vars \/ \E d \in Clients : Client(d)
  BY <1>5 DEF Network, Client, vars, serverVars, enclaveVars, Spent, Held, Sock
<1> QED
  BY <1>1, <1>2, <1>3, <1>4, <1>5, NoReset DEF Next, Server

LEMMA RInductive ==
  ASSUME RInv, [Next]_vars, ~RecvNoInput
  PROVE  RInv'
<1>1. PICK r \in Nat : InRound(r)
  BY DEF RInv
<1>2. KInv /\ KInv'
  BY <1>1, KInductive DEF RInv
<1>3. \E q \in Nat : InRound(q)'
  <2>1. InRound(r)' \/ InRound(r + 1)'
    BY <1>1, StepInRound
  <2> QED
    BY <2>1
<1>6. Fresh'
  <2>1. RecvInput => Head(up[Sock(i)]).id \in Clients
    <3> SUFFICES ASSUME RecvInput PROVE Head(up[Sock(i)]).id \in Clients
      OBVIOUS
    <3>1. Sock(i) \in Clients /\ up[Sock(i)] # <<>>
      BY <1>2, SockIsClient DEF RecvInput, ServerGets
    <3>2. up[Sock(i)] \in Seq(InputOf(Sock(i)))
      BY <1>2, <3>1 DEF KInv, Typed
    <3>3. Head(up[Sock(i)]) \in InputOf(Sock(i))
      BY <3>1, <3>2
    <3> QED
      BY <3>1, <3>3 DEF InputOf
  <2>2. PassInput => \A n \in Clients : sock_client_map[n] # Unknown
    <3> SUFFICES ASSUME PassInput, NEW n \in Clients PROVE sock_client_map[n] # Unknown
      OBVIOUS
    <3>1. sock_client_map[n] = client_sock[n + 1] /\ Len(client_sock) = NUM_OF_CLIENTS
      BY <1>2 DEF PassInput, KInv, Identified, Connected
    <3>2. client_sock \in Seq(Clients) /\ n + 1 \in 1..Len(client_sock)
      BY <1>2, <3>1, ClientsAssumption DEF KInv, Connected, Clients
    <3> QED
      BY <3>1, <3>2, UnknownAssumption
  <2> QED
    BY <1>2, <2>1, <2>2, FreshKept DEF RInv, KInv
<1>7. Spent'
  BY <1>1, SpentKept
<1>4. CASE \E c \in Clients : Client(c) /\ RecvResult(c)
  BY <1>1, <1>2, <1>3, <1>4, <1>6, <1>7, RecvResultInRound DEF RInv, Client
<1>5. CASE ~\E c \in Clients : Client(c) /\ RecvResult(c)
  <2>1. UNCHANGED <<results, scenario>>
    <3>1. CASE \E c \in Clients : Client(c)
      BY <1>2, <1>5, <3>1, NoReset DEF Client, DataOwner, Connect, SendInput, Leave
    <3>2. CASE Server
      BY <3>2 DEF Server, Start, Accept, NewRound, RecvInput, RecvNoInput, PassInput, GetOutput,
         WriteOutput, FreeCircuit, ServerKilled, peerVars, clientVars
    <3>3. CASE Network \/ UNCHANGED vars
      BY <3>3 DEF Network, vars, peerVars, clientVars
    <3> QED
      BY <3>1, <3>2, <3>3 DEF Next
  <2> QED
    BY <1>2, <1>3, <1>6, <1>7, <2>1, ResultsKept DEF RInv
<1> QED
  BY <1>4, <1>5

(* While nobody leaves, every message is in one place at a time in each    *)
(* round, and the server evaluates when it has one from every client (the  *)
(* service loop of server.c).                                              *)
THEOREM RInvHolds ==
  ASSUME Staying
  PROVE  Spec => []RInv
<1>1. RInv /\ [Next]_vars => RInv'
  BY RInductive, NobodyMissed DEF RInv
<1> QED
  BY RInitially, <1>1, PTL DEF Spec

(* While nobody leaves, the counters of the two ends of a connection       *)
(* differ by exactly the messages under way, whatever the number of        *)
(* clients and of rounds, the order in which they connect and send, and    *)
(* the inputs that are not binary (com_key of client.c, com_to_client_key  *)
(* of Enclave.cpp).                                                        *)
THEOREM KeysInLockstep ==
  ASSUME Staying
  PROVE  Spec => []KeyLockstep
<1>1. RInv => KeyLockstep
  BY DiffIsLockstep DEF RInv, KInv, InStep
<1> QED
  BY RInvHolds, <1>1, PTL

-----------------------------------------------------------------------------
(* After the server has missed a client.  Round q was the last that all    *)
(* took part in; no result of a later one is readable.                     *)

NobodyOpen == \A c \in Clients : ~open[c]

(* Client p left after round q, and its last input is never read again.    *)
Missed(p, q) ==
  /\ QuitAfter(p) = q /\ \A d \in Clients : q <= QuitAfter(d)
  /\ ~open[p] /\ cpc[p] = "ended" /\ up[p] = <<>>
  /\ enclave_message[p].key < com_to_client_key[p]

(* Only a client that has gone resets its connection. *)
Resets ==
  /\ scenario \in Scenarios
  /\ open \in [Peers -> BOOLEAN] /\ DOMAIN rstS = Peers
  /\ \A c \in Clients : rstS[c] # "none" => ~open[c]

(* The server serves the connections it has.  What it sends is meaningless *)
(* unless nobody is left to receive it, as it is when no input came.       *)
Attached ==
  /\ client_sock \in Seq(Clients) /\ Len(client_sock) = NUM_OF_CLIENTS
  /\ \A m, n \in 1..Len(client_sock) : client_sock[m] = client_sock[n] => m = n

Serving ==
  /\ spc \in {"newRound", "recvInput", "passInput", "getOutput", "writeOutput",
              "freeCircuit", "killed"}
  /\ spc = "recvInput" /\ read # TRUE => \A n \in 0..(i - 1) : ~open[Sock(n)]
  /\ spc = "passInput" /\ read # TRUE => NobodyOpen
  /\ spc \in {"getOutput", "writeOutput"} => output = Junk \/ NobodyOpen
  /\ spc = "writeOutput" => output_message.v = Junk \/ NobodyOpen

(* A client has all results up to round q, or the last of them is the      *)
(* first message on its connection.                                        *)
JunkFrom(c, n) == \A m \in n..Len(down[c]) : down[c][m].v = Junk

Got(c, q) == q <= Len(results[c]) /\ JunkFrom(c, 1)

Short(c, q) ==
  /\ cpc[c] = "recv" /\ Len(results[c]) + 1 = q
  /\ Len(down[c]) > 0 /\ down[c][1] = Encrypt(com_key[c], Genuine(q))
  /\ JunkFrom(c, 2)

Late(q) ==
  /\ Typed /\ Fresh /\ Resets /\ Attached /\ Serving
  /\ results \in [Clients -> Seq([Clients -> Nat \cup {Junk}] \cup {Junk})]
  /\ GenuineIffComplete
  /\ \E p \in Clients : Missed(p, q)
  /\ \A c \in Clients : Got(c, q) \/ Short(c, q)

(* The step that misses a client. *)

(* Nobody has a result of a round that it did not take part in. *)
LEMMA RightSoFar ==
  ASSUME RInv, NEW r \in Nat, InRound(r)
  PROVE  GenuineIffComplete /\ \A d \in Clients : r <= QuitAfter(d)
<1> USE DEF RInv, KInv
<1>1. ASSUME NEW d \in Clients PROVE r <= crounds[d] /\ Len(results[d]) <= r
  <2>1. Len(results[d]) \in Nat
    OBVIOUS
  <2>2. CASE Idle(d, r)
    BY <2>1, <2>2 DEF Idle
  <2>3. CASE Waiting(d, r)
    <3>1. crounds[d] = r \/ crounds[d] = r + 1
      BY <2>3 DEF Waiting, OnItsWay, AtServer, Evaluating, Answered
    <3> QED
      BY <2>1, <2>3, <3>1 DEF Waiting
  <2> QED
    BY <2>2, <2>3 DEF InRound
<1>2. ASSUME NEW d \in Clients PROVE r <= QuitAfter(d)
  <2>1. crounds[d] <= QuitAfter(d) /\ crounds[d] \in Int /\ QuitAfter(d) \in Nat
    BY PeersAssumption, RoundsAssumption, QuitNumber DEF Undisturbed, Typed
  <2> QED
    BY <1>1, <2>1
<1>3. ASSUME NEW c \in Clients, NEW n \in DOMAIN results[c]
      PROVE  results[c][n] = IF Complete(n) THEN AllOf(n) ELSE Junk
  <2>1. n \in 1..Len(results[c]) /\ Len(results[c]) \in Nat
    OBVIOUS
  <2>2. \A d \in Clients : n <= QuitAfter(d)
    <3> SUFFICES ASSUME NEW d \in Clients PROVE n <= QuitAfter(d)
      OBVIOUS
    <3>1. QuitAfter(d) \in Nat
      BY QuitNumber DEF Undisturbed
    <3> QED
      BY <1>1, <1>2, <2>1, <3>1
  <2>3. results[c][n] = Genuine(n)
    BY DEF ResultsRight
  <2> QED
    BY <2>2, <2>3, PeersAssumption DEF Genuine, Complete
<1> QED
  BY <1>2, <1>3 DEF GenuineIffComplete

LEMMA SocksAll ==
  ASSUME Attached, Typed
  PROVE  /\ i \in Nat /\ i < NUM_OF_CLIENTS /\ NUM_OF_CLIENTS \in Nat
         /\ Sock(i) \in Clients
         /\ \A c \in Clients : \E n \in Clients : Sock(n) = c
<1>1. i \in Nat /\ i < NUM_OF_CLIENTS /\ NUM_OF_CLIENTS \in Nat
  BY ClientsAssumption DEF Typed, Clients
<1>2. Sock(i) \in Clients
  <2>1. i + 1 \in 1..Len(client_sock)
    BY <1>1 DEF Attached
  <2> QED
    BY <2>1 DEF Attached, Sock
<1> QED
  BY <1>1, <1>2, AllConnected DEF Attached, Sock

(* A client that the server has not heard of in this round has gone.       *)
LEMMA MissingOne ==
  ASSUME Attached, Typed, RecvNoInput, ~open[Sock(i)],
         spc = "recvInput" /\ read # TRUE => \A n \in 0..(i - 1) : ~open[Sock(n)]
  PROVE  /\ spc' \in {"recvInput", "passInput"} /\ i' \in Clients
         /\ spc' = "recvInput" /\ read' # TRUE => \A n \in 0..(i' - 1) : ~open'[Sock(n)']
         /\ spc' = "passInput" /\ read' # TRUE => NobodyOpen'
<1>1. i \in Nat /\ i < NUM_OF_CLIENTS /\ NUM_OF_CLIENTS \in Nat
  BY SocksAll
<1>2. spc = "recvInput" /\ UNCHANGED <<read, open, client_sock>>
  BY DEF RecvNoInput, sockets
<1>3. \/ spc' = "recvInput" /\ i' = i + 1 /\ i + 1 < NUM_OF_CLIENTS
      \/ spc' = "passInput" /\ i' = 0 /\ i + 1 = NUM_OF_CLIENTS
  BY <1>1 DEF RecvNoInput, NextInput, Goto
<1>4. i' \in Clients
  BY <1>1, <1>3 DEF Clients
<1>5. read # TRUE => \A n \in 0..i : ~open[Sock(n)]
  <2> SUFFICES ASSUME read # TRUE, NEW n \in 0..i PROVE ~open[Sock(n)]
    OBVIOUS
  <2>1. n = i \/ n \in 0..(i - 1)
    BY <1>1
  <2> QED
    BY <1>2, <2>1
<1>6. CASE spc' = "recvInput" /\ i' = i + 1
  <2>1. i' - 1 = i
    BY <1>1, <1>6
  <2> QED
    BY <1>2, <1>4, <1>5, <1>6, <2>1 DEF Sock
<1>7. CASE spc' = "passInput" /\ i + 1 = NUM_OF_CLIENTS
  <2>1. Clients = 0..i
    BY <1>1, <1>7 DEF Clients
  <2>2. read # TRUE => \A c \in Clients : ~open[c]
    BY <1>5, <2>1, SocksAll
  <2> QED
    BY <1>2, <1>4, <1>7, <2>2 DEF NobodyOpen
<1> QED
  BY <1>3, <1>6, <1>7

LEMMA BecomesLate ==
  ASSUME RInv, RecvNoInput, NEW r \in Nat, InRound(r)
  PROVE  Late(r)'
<1> USE PeersAssumption DEF RInv, KInv
<1>0. /\ spc = "recvInput" /\ NextInput
      /\ UNCHANGED <<peerVars, backlog, client_sock, sock_client_map, read, enclave_message,
                     output_message, C, heap, enclaveVars, sockets>>
  BY DEF RecvNoInput
<1>1. Attached
  BY <1>0 DEF Connected, Attached
<1>2. PICK p \in Clients : p = Sock(i)
  BY <1>0, SockIsClient
<1>3. up[p] = <<>> /\ ~open[p] /\ cpc[p] = "ended" /\ crounds[p] = QuitAfter(p)
  BY <1>2 DEF RecvNoInput, ServerRecvFails, Undisturbed
<1>4. Idle(p, r)
  BY <1>3 DEF InRound, Waiting
<1>5. Missed(p, r)
  BY <1>3, <1>4, RightSoFar DEF Missed, Idle, Spent
<1>6. /\ spc' \in {"recvInput", "passInput"} /\ i' \in Clients
      /\ spc' = "recvInput" /\ read' # TRUE => \A n \in 0..(i' - 1) : ~open'[Sock(n)']
      /\ spc' = "passInput" /\ read' # TRUE => NobodyOpen'
  <2>1. read # TRUE => i = 0
    <3>1. i \in Nat
      BY <1>0, SockBijective
    <3>2. i > 0 => read = TRUE
      BY <1>0, Zenon DEF Identified
    <3>3. i > 0 \/ i = 0
      BY <3>1
    <3> QED
      BY <3>2, <3>3, Zenon
  <2>2. read # TRUE => \A n \in 0..(i - 1) : ~open[Sock(n)]
    BY <2>1
  <2> QED
    BY <1>1, <1>2, <1>3, <2>2, MissingOne
<1>7. Typed'
  BY <1>0, <1>6 DEF Typed, peerVars, clientVars, enclaveVars, sockets
<1>8. Fresh'
  BY <1>0 DEF Fresh, enclaveVars
<1>9. Resets'
  BY <1>0 DEF Undisturbed, Resets, peerVars, sockets
<1>10. Attached' /\ Serving'
  BY <1>0, <1>1, <1>6 DEF Attached, Serving
<1>11. GenuineIffComplete' /\ results' = results
  <2>1. GenuineIffComplete
    BY RightSoFar
  <2> QED
    BY <1>0, <2>1
    DEF peerVars, clientVars, GenuineIffComplete, Complete, QuitAfter, BadInput
<1>12. Missed(p, r)'
  BY <1>0, <1>5 DEF Missed, peerVars, clientVars, enclaveVars, sockets, QuitAfter
<1>13. ASSUME NEW c \in Clients PROVE (Got(c, r) \/ Short(c, r))'
  <2>1. UNCHANGED <<cpc, com_key, crounds, results, scenario, down>>
    BY <1>0 DEF peerVars, clientVars, sockets
  <2>2. Len(results[c]) \in Nat
    OBVIOUS
  <2>3. CASE down[c] = <<>>
    <3>1. r <= Len(results[c])
      <4>1. CASE Idle(c, r)
        BY <2>2, <4>1 DEF Idle
      <4>2. CASE Waiting(c, r)
        <5>1. OnItsWay(c, r) \/ AtServer(c, r)
          BY <1>0, <2>3, <4>2 DEF Waiting, Evaluating, Answered, Due
        <5>2. crounds[c] = r + 1 /\ crounds[c] = Len(results[c]) + 1
          BY <1>0, <4>2, <5>1 DEF Waiting, OnItsWay, AtServer
        <5> QED
          BY <2>2, <5>2
      <4> QED
        BY <4>1, <4>2 DEF InRound
    <3> QED
      BY <2>1, <2>3, <3>1 DEF Got, JunkFrom
  <2>4. CASE down[c] # <<>>
    <3>1. Waiting(c, r) /\ Answered(c, r)
      BY <2>4 DEF InRound, Idle, Waiting, OnItsWay, AtServer, Evaluating
    <3>2. /\ down[c] = <<Encrypt(com_key[c], Genuine(r))>>
          /\ cpc[c] = "recv" /\ r = Len(results[c]) + 1
      BY <3>1 DEF Waiting, Answered
    <3>3. Len(down[c]) = 1 /\ down[c][1] = Encrypt(com_key[c], Genuine(r))
      BY <3>2
    <3>4. Genuine(r)' = Genuine(r)
      BY <2>1 DEF Genuine, BadInput
    <3> QED
      BY <2>1, <3>2, <3>3, <3>4 DEF Short, JunkFrom
  <2> QED
    BY <2>3, <2>4
<1> QED
  BY <1>7, <1>8, <1>9, <1>10, <1>11, <1>12, <1>13 DEF Late

(* The clients, from then on. *)

LEMMA PartKept ==
  ASSUME NEW q, NEW c, Got(c, q) \/ Short(c, q), scenario' = scenario,
         cpc'[c] = cpc[c], com_key'[c] = com_key[c],
         results'[c] = results[c], down'[c] = down[c]
  PROVE  (Got(c, q) \/ Short(c, q))'
BY DEF Got, Short, JunkFrom, Genuine, BadInput

LEMMA ContainedKept ==
  ASSUME NEW q, Late(q), UNCHANGED <<results, scenario>>
  PROVE  /\ results' \in [Clients -> Seq([Clients -> Nat \cup {Junk}] \cup {Junk})]
         /\ GenuineIffComplete'
BY DEF Late, GenuineIffComplete, Complete, QuitAfter, BadInput

(* What a step of client c has to leave as it is. *)
LEMMA LateAfterClient ==
  ASSUME NEW q \in Nat, Late(q), NEW c \in Clients, cpc[c] # "ended",
         UNCHANGED <<scenario, serverVars, enclaveVars>>,
         Typed', Resets', \A d \in Clients : open'[d] => open[d],
         \A d \in Clients : d # c =>
           /\ cpc'[d] = cpc[d] /\ com_key'[d] = com_key[d] /\ up'[d] = up[d]
           /\ results'[d] = results[d] /\ down'[d] = down[d],
         results' \in [Clients -> Seq([Clients -> Nat \cup {Junk}] \cup {Junk})],
         GenuineIffComplete', (Got(c, q) \/ Short(c, q))'
  PROVE  Late(q)'
<1> USE DEF Late
<1>1. UNCHANGED <<spc, i, client_sock, sock_client_map, read, enclave_message, output_message,
                  enclave, com_to_client_key, output>>
  BY DEF serverVars, enclaveVars
<1>2. Fresh' /\ Attached'
  BY <1>1 DEF Fresh, Attached
<1>3. Serving'
  <2>1. NobodyOpen => NobodyOpen'
    BY DEF NobodyOpen
  <2>2. ASSUME spc = "recvInput", read # TRUE, NEW n \in 0..(i - 1) PROVE ~open'[Sock(n)]
    <3>1. i \in Nat /\ i < NUM_OF_CLIENTS /\ NUM_OF_CLIENTS \in Nat
      BY SocksAll
    <3>2. n + 1 \in 1..Len(client_sock)
      BY <3>1 DEF Attached
    <3>3. Sock(n) \in Clients
      BY <3>2 DEF Attached, Sock
    <3> QED
      BY <2>2, <3>3 DEF Serving
  <2> QED
    BY <1>1, <2>1, <2>2 DEF Serving, Sock
<1>4. PICK p \in Clients : Missed(p, q)
  OBVIOUS
<1>5. Missed(p, q)'
  <2>1. p # c
    BY <1>4 DEF Missed
  <2> QED
    BY <1>1, <1>4, <2>1, PeersAssumption DEF Missed, Resets, QuitAfter
<1>6. \A d \in Clients : (Got(d, q) \/ Short(d, q))'
  <2> SUFFICES ASSUME NEW d \in Clients, d # c PROVE (Got(d, q) \/ Short(d, q))'
    OBVIOUS
  <2> QED
    BY PartKept
<1> QED
  BY <1>2, <1>3, <1>5, <1>6

LEMMA TypedAfterClient ==
  ASSUME Typed, UNCHANGED <<serverVars, enclaveVars>>,
         com_key' \in [Clients -> Int], crounds' \in [Clients -> 0..Rounds],
         DOMAIN cpc' = Clients, DOMAIN up' = Clients, DOMAIN down' = Clients,
         \A d \in Clients : up'[d] \in Seq(InputOf(d)) /\ down'[d] \in Seq(Output)
  PROVE  Typed'
BY DEF Typed, serverVars, enclaveVars

LEMMA ConnectLate ==
  ASSUME NEW q \in Nat, Late(q), NEW c \in Clients, Connect(c),
         UNCHANGED <<serverVars, enclaveVars>>
  PROVE  Late(q)'
<1>1. /\ cpc[c] = "connect" /\ cpc' = [cpc EXCEPT ![c] = "send"]
      /\ UNCHANGED <<scenario, com_key, crounds, results, sockets>>
  BY DEF Connect
<1>2. Typed' /\ Resets'
  BY <1>1 DEF Late, Typed, Resets, sockets, serverVars, enclaveVars
<1>3. Got(c, q)'
  BY <1>1 DEF Late, Got, Short, JunkFrom, sockets
<1> QED
  BY <1>1, <1>2, <1>3, ContainedKept, LateAfterClient DEF Late, Typed, sockets

LEMMA SendInputLate ==
  ASSUME NEW q \in Nat, Late(q), NEW c \in Clients, SendInput(c),
         UNCHANGED <<serverVars, enclaveVars>>
  PROVE  Late(q)'
<1> USE PeersAssumption
<1> DEFINE input == IF BadInput(c, crounds[c] + 1) THEN Junk ELSE crounds[c] + 1
           msg == [id |-> c, m |-> Encrypt(com_key[c], input)]
<1>1. /\ cpc[c] = "send" /\ cpc' = [cpc EXCEPT ![c] = "recv"]
      /\ com_key' = [com_key EXCEPT ![c] = @ + 1]
      /\ crounds' = [crounds EXCEPT ![c] = @ + 1] /\ crounds[c] < Rounds
      /\ UNCHANGED <<scenario, results>>
  BY DEF SendInput
<1>2. /\ up' = [up EXCEPT ![c] = Append(@, msg)] \/ up' = up
      /\ UNCHANGED <<down, open, rstS>>
  BY DEF SendInput, PeerSends
<1>3. msg \in InputOf(c)
  <2>1. input \in Nat \cup {Junk}
    BY DEF Late, Typed
  <2> QED
    BY <2>1 DEF Late, Typed, InputOf, Encrypted, Encrypt
<1>4. /\ up'[c] \in Seq(InputOf(c)) /\ DOMAIN up' = Clients
      /\ \A d \in Clients : d # c => up'[d] = up[d]
  <2>1. PICK m \in InputOf(c) : up' = [up EXCEPT ![c] = Append(@, m)] \/ up' = up
    BY <1>2, <1>3
  <2>2. up[c] \in Seq(InputOf(c)) /\ DOMAIN up = Clients
    BY DEF Late, Typed
  <2>3. Append(up[c], m) \in Seq(InputOf(c))
    BY <2>2
  <2> QED
    BY <2>1, <2>2, <2>3
<1>5. Typed'
  <2>0. Typed
    BY DEF Late
  <2>1. crounds' \in [Clients -> 0..Rounds]
    <3>1. crounds \in [Clients -> 0..Rounds]
      BY <2>0 DEF Typed
    <3>2. crounds[c] + 1 \in 0..Rounds
      BY <1>1, <3>1, RoundsAssumption
    <3> QED
      BY <1>1, <3>1, <3>2
  <2>2. com_key' \in [Clients -> Int] /\ DOMAIN cpc' = Clients
    BY <1>1, <2>0 DEF Typed
  <2>3. \A d \in Clients : up'[d] \in Seq(InputOf(d))
    <3>1. \A d \in Clients : up[d] \in Seq(InputOf(d))
      BY DEF Late, Typed
    <3> QED
      BY <1>4, <3>1, Zenon
  <2>4. DOMAIN down' = Clients /\ \A d \in Clients : down'[d] \in Seq(Output)
    BY <1>2, <2>0 DEF Typed
  <2>5. DOMAIN up' = Clients
    BY <1>4
  <2> QED
    BY <2>0, <2>1, <2>2, <2>3, <2>4, <2>5, TypedAfterClient
<1>6. Resets'
  BY <1>1, <1>2 DEF Late, Resets
<1>7. Got(c, q)'
  BY <1>1, <1>2 DEF Late, Got, Short, JunkFrom
<1> QED
  BY <1>1, <1>2, <1>4, <1>5, <1>6, <1>7, ContainedKept, LateAfterClient DEF Late, Typed

(* What a client reads is the result of round q, or meaningless.           *)
LEMMA RecvResultLate ==
  ASSUME NEW q \in Nat, Late(q), NEW c \in Clients, RecvResult(c),
         UNCHANGED <<serverVars, enclaveVars>>
  PROVE  Late(q)'
<1> USE PeersAssumption DEF Late
<1> DEFINE L == Len(results[c])
           Kept(n) == IF Complete(n) THEN AllOf(n) ELSE Junk
<1>1. /\ cpc[c] = "recv" /\ cpc' = [cpc EXCEPT ![c] = "send"]
      /\ com_key' = [com_key EXCEPT ![c] = @ + 1]
      /\ UNCHANGED <<scenario, crounds, up, open, rstS>>
  BY DEF RecvResult, PeerGets, sockets
<1>2. /\ results[c] \in Seq([Clients -> Nat \cup {Junk}] \cup {Junk})
      /\ L \in Nat /\ DOMAIN results[c] = 1..L
      /\ down[c] \in Seq(Output)
  BY DEF Typed
<1>3. PICK p \in Clients : Missed(p, q)
  OBVIOUS
<1>4. PICK v : /\ results' = [results EXCEPT ![c] = Append(@, v)]
               /\ v = Kept(L + 1) /\ q <= L + 1
               /\ \A d \in Clients : d # c => down'[d] = down[d]
               /\ down'[c] \in Seq(Output) /\ DOMAIN down' = Clients
               /\ JunkFrom(c, 1)'
  <2>1. ASSUME Got(c, q) PROVE Kept(L + 1) = Junk /\ q <= L + 1
    <3>1. ~(L + 1 <= QuitAfter(p)) /\ q <= L + 1
      BY <1>2, <1>3, <2>1 DEF Got, Missed
    <3> QED
      BY <3>1 DEF Complete
  <2>2. ASSUME Short(c, q) PROVE Kept(L + 1) = Genuine(q) /\ q <= L + 1
    <3>1. L + 1 = q /\ \A d \in Clients : q <= QuitAfter(d)
      BY <1>2, <1>3, <2>2 DEF Short, Missed
    <3> QED
      BY <3>1 DEF Complete, Genuine
  <2>3. CASE PeerGets(c)
    <3> DEFINE w == Decrypt(com_key[c], Head(down[c]))
    <3>1. /\ down[c] # <<>> /\ down' = [down EXCEPT ![c] = Tail(@)]
          /\ results' = [results EXCEPT ![c] = Append(@, w)]
      BY <2>3 DEF RecvResult, PeerGets, PeerRecvEnds
    <3>2. /\ Len(down[c]) \in Nat /\ Len(down[c]) > 0 /\ Head(down[c]) = down[c][1]
          /\ down'[c] \in Seq(Output) /\ Len(down'[c]) = Len(down[c]) - 1
          /\ \A n \in 1..Len(down'[c]) : down'[c][n] = down[c][n + 1]
      <4>1. PICK s \in Seq(Output) : s = down[c] /\ s # <<>>
        BY <1>2, <3>1
      <4>2. /\ Len(s) \in Nat /\ Len(s) > 0 /\ Head(s) = s[1]
            /\ Tail(s) \in Seq(Output) /\ Len(Tail(s)) = Len(s) - 1
            /\ \A n \in 1..Len(Tail(s)) : Tail(s)[n] = s[n + 1]
        BY <4>1
      <4>3. down'[c] = Tail(s)
        BY <3>1, <4>1 DEF Typed
      <4> QED
        BY <4>1, <4>2, <4>3
    <3>3. JunkFrom(c, 1)'
      <4>1. JunkFrom(c, 2)
        BY <3>2 DEF Got, Short, JunkFrom
      <4>2. ASSUME NEW n \in 1..Len(down'[c]) PROVE down'[c][n].v = Junk
        <5>1. n + 1 \in 2..Len(down[c])
          BY <3>2
        <5> QED
          BY <3>2, <4>1, <5>1 DEF JunkFrom
      <4> QED
        BY <4>2 DEF JunkFrom
    <3>4. w = Kept(L + 1) /\ q <= L + 1
      <4>1. CASE Got(c, q)
        <5>1. Head(down[c]).v = Junk
          BY <3>2, <4>1 DEF Got, JunkFrom
        <5> QED
          BY <2>1, <4>1, <5>1 DEF Decrypt
      <4>2. CASE Short(c, q)
        <5>1. w = Genuine(q)
          BY <3>2, <4>2 DEF Short, Encrypt, Decrypt
        <5> QED
          BY <2>2, <4>2, <5>1
      <4> QED
        BY <4>1, <4>2
    <3> QED
      BY <3>1, <3>2, <3>3, <3>4 DEF Typed
  <2>4. CASE ~PeerGets(c)
    <3>1. /\ down[c] = <<>> /\ results' = [results EXCEPT ![c] = Append(@, Junk)]
          /\ down' = down
      BY <2>4 DEF RecvResult, PeerRecvEnds, sockets
    <3>2. Got(c, q)
      BY <3>1 DEF Short
    <3> QED
      BY <1>2, <2>1, <3>1, <3>2 DEF Got, JunkFrom, Typed
  <2> QED
    BY <2>3, <2>4
<1>5. v \in [Clients -> Nat \cup {Junk}] \cup {Junk}
  <2>1. AllOf(L + 1) \in [Clients -> Nat]
    BY <1>2 DEF AllOf
  <2> QED
    BY <1>4, <2>1
<1>6. /\ results'[c] \in Seq([Clients -> Nat \cup {Junk}] \cup {Junk})
      /\ DOMAIN results'[c] = 1..(L + 1) /\ Len(results'[c]) = L + 1
      /\ results'[c][L + 1] = v
      /\ \A n \in 1..L : results'[c][n] = results[c][n]
  BY <1>2, <1>4, <1>5
<1>7. results' \in [Clients -> Seq([Clients -> Nat \cup {Junk}] \cup {Junk})]
  BY <1>4, <1>6
<1>8. GenuineIffComplete'
  <2>1. \A n : Complete(n)' <=> Complete(n)
    BY <1>1 DEF Complete, QuitAfter, BadInput
  <2> SUFFICES ASSUME NEW d \in Clients, NEW n \in DOMAIN results'[d]
               PROVE  results'[d][n] = Kept(n)
    BY <2>1 DEF GenuineIffComplete, AllOf
  <2>2. CASE d # c
    BY <1>4, <2>2 DEF GenuineIffComplete
  <2>3. CASE d = c /\ n = L + 1
    BY <1>4, <1>6, <2>3
  <2>4. CASE d = c /\ n # L + 1
    <3>1. n \in 1..L
      BY <1>2, <1>6, <2>4
    <3> QED
      BY <1>2, <1>6, <2>4, <3>1 DEF GenuineIffComplete
  <2> QED
    BY <2>2, <2>3, <2>4
<1>9. Typed'
  <2>1. \A d \in Clients : down'[d] \in Seq(Output)
    <3>1. \A d \in Clients : down[d] \in Seq(Output)
      BY DEF Typed
    <3> QED
      BY <1>4, <3>1, Zenon
  <2>2. com_key' \in [Clients -> Int] /\ DOMAIN cpc' = Clients
    <3>1. com_key \in [Clients -> Int] /\ DOMAIN cpc = Clients
      BY DEF Typed
    <3>2. com_key[c] + 1 \in Int
      BY <3>1
    <3> QED
      BY <1>1, <3>1, <3>2
  <2>3. DOMAIN down' = Clients
    BY <1>4
  <2>4. UNCHANGED <<crounds, up>>
    BY <1>1
  <2>5. /\ crounds' \in [Clients -> 0..Rounds] /\ DOMAIN up' = Clients
        /\ \A d \in Clients : up'[d] \in Seq(InputOf(d))
    BY <2>4 DEF Typed
  <2> QED
    BY <2>1, <2>2, <2>3, <2>5, TypedAfterClient
<1>10. Resets'
  BY <1>1 DEF Resets
<1>11. Got(c, q)'
  BY <1>4, <1>6 DEF Got
<1> QED
  BY <1>1, <1>4, <1>7, <1>8, <1>9, <1>10, <1>11, LateAfterClient DEF Typed

(* A client that goes has nothing more to read. *)
LEMMA EndLate ==
  ASSUME NEW q \in Nat, Late(q), NEW c \in Clients, Leave(c) \/ ClientBrokenPipe(c),
         UNCHANGED <<serverVars, enclaveVars>>
  PROVE  Late(q)'
<1> USE PeersAssumption DEF Late
<1>1. /\ cpc[c] \in {"send", "recv"} /\ (cpc[c] = "recv" => down[c] = <<>>)
      /\ \E pc : cpc' = [cpc EXCEPT ![c] = pc]
      /\ PeerCloses(c) /\ UNCHANGED <<scenario, com_key, crounds, results>>
  BY DEF Leave, ClientBrokenPipe, PeerRecvFails
<1>2. /\ open' = [open EXCEPT ![c] = FALSE] /\ down' = [down EXCEPT ![c] = <<>>]
      /\ \E x : rstS' = [rstS EXCEPT ![c] = x]
      /\ up' = up
  BY <1>1 DEF PeerCloses
<1>3. Resets'
  BY <1>1, <1>2 DEF Resets
<1>4. Typed'
  <2>1. DOMAIN cpc' = Clients /\ DOMAIN down' = Clients
    BY <1>1, <1>2 DEF Typed
  <2>2. \A d \in Clients : down'[d] \in Seq(Output)
    BY <1>2 DEF Typed
  <2> QED
    BY <1>1, <1>2, <2>1, <2>2 DEF Typed, serverVars, enclaveVars
<1>5. Got(c, q)
  BY <1>1 DEF Short
<1>6. Got(c, q)'
  <2>1. down'[c] = <<>>
    BY <1>2 DEF Typed
  <2> QED
    BY <1>1, <1>5, <2>1 DEF Got, JunkFrom
<1>7. \A d \in Clients : open'[d] => open[d]
  BY <1>2 DEF Resets
<1> QED
  BY <1>1, <1>2, <1>3, <1>4, <1>6, <1>7, ContainedKept, LateAfterClient DEF Typed

(* The server, from then on. *)

LEMMA LateAfterServer ==
  ASSUME NEW q \in Nat, Late(q), [Next]_vars, UNCHANGED <<peerVars, client_sock, open>>,
         NEW p \in Clients, Missed(p, q), up'[p] = up[p],
         enclave_message'[p] = enclave_message[p],
         com_to_client_key'[p] \in {com_to_client_key[p], com_to_client_key[p] + 1},
         Typed', Fresh', Resets', Serving',
         \A c \in Clients : (Got(c, q) \/ Short(c, q))'
  PROVE  Late(q)'
<1>1. Attached'
  BY DEF Late, Attached
<1>2. Missed(p, q)'
  <2>1. com_to_client_key[p] \in Int /\ enclave_message[p].key \in Int
    BY DEF Late, Typed, Encrypted
  <2>2. enclave_message'[p].key < com_to_client_key'[p]
    BY <2>1 DEF Missed
  <2> QED
    BY <2>2 DEF Missed, QuitAfter, peerVars, clientVars
<1> QED
  BY <1>1, <1>2, ContainedKept DEF Late, peerVars, clientVars

LEMMA PartsKept ==
  ASSUME NEW q, Late(q), UNCHANGED <<peerVars, down>>
  PROVE  \A c \in Clients : (Got(c, q) \/ Short(c, q))'
<1> SUFFICES ASSUME NEW c \in Clients PROVE (Got(c, q) \/ Short(c, q))'
  OBVIOUS
<1> QED
  BY PartKept DEF Late, peerVars, clientVars

LEMMA TypedAfterServer ==
  ASSUME Typed, UNCHANGED peerVars, DOMAIN up' = Clients, DOMAIN down' = Clients,
         \A d \in Clients : up'[d] \in Seq(InputOf(d)) /\ down'[d] \in Seq(Output),
         com_to_client_key' \in [Clients -> Int], i' \in Clients,
         enclave_message' \in [Clients -> Encrypted], output_message' \in Output,
         output' \in [Clients -> Nat \cup {Junk}] \cup {Junk},
         sock_client_map' \in [Clients -> Clients \cup {Unknown}]
  PROVE  Typed'
BY DEF Typed, peerVars, clientVars

(* The parts of the state that only inputs and ECALLs change. *)
LEMMA PlaceLate ==
  ASSUME NEW q \in Nat, Late(q), Server,
         NewRound \/ RecvNoInput \/ FreeCircuit
  PROVE  Late(q)'
<1> USE DEF Late
<1>1. /\ UNCHANGED <<peerVars, client_sock, sock_client_map, enclave_message, output_message,
                     enclaveVars, sockets>>
  BY DEF NewRound, RecvNoInput, FreeCircuit
<1>2. 0 \in Clients
  BY ClientsAssumption DEF Clients
<1>3. Serving' /\ i' \in Clients
  <2>1. CASE NewRound
    <3>1. spc' = "recvInput" /\ i' = 0
      BY <2>1 DEF NewRound, Goto
    <3>2. \A n \in 0..(i' - 1) : FALSE
      BY <3>1
    <3> QED
      BY <1>2, <3>1, <3>2 DEF Serving
  <2>2. CASE RecvNoInput
    <3>1. spc = "recvInput" /\ ~open[Sock(i)]
      BY <2>2, SocksAll DEF RecvNoInput, ServerRecvFails, Resets
    <3>2. spc = "recvInput" /\ read # TRUE => \A n \in 0..(i - 1) : ~open[Sock(n)]
      BY DEF Serving
    <3> QED
      BY <2>2, <3>1, <3>2, MissingOne DEF Serving
  <2>3. CASE FreeCircuit
    BY <1>2, <2>3 DEF FreeCircuit, Goto, Serving
  <2> QED
    BY <2>1, <2>2, <2>3
<1>4. Typed'
  BY <1>1, <1>3 DEF Typed, peerVars, clientVars, enclaveVars, sockets
<1>5. Fresh' /\ Resets'
  BY <1>1 DEF Fresh, Resets, peerVars, enclaveVars, sockets
<1>6. \A c \in Clients : (Got(c, q) \/ Short(c, q))'
  BY <1>1, PartsKept DEF sockets
<1>7. PICK p \in Clients : Missed(p, q)
  OBVIOUS
<1>8. [Next]_vars
  BY DEF Next
<1> QED
  BY <1>1, <1>3, <1>4, <1>5, <1>6, <1>7, <1>8, LateAfterServer DEF enclaveVars, sockets

(* The input of the client that has left is not replaced. *)
LEMMA RecvInputLate ==
  ASSUME NEW q \in Nat, Late(q), Server, RecvInput
  PROVE  Late(q)'
<1> USE DEF Late
<1>1. /\ UNCHANGED <<peerVars, client_sock, output_message, enclaveVars, down, open, rstS>>
      /\ read' = TRUE /\ NextInput
  BY DEF RecvInput, ServerGets
<1>2. PICK c \in Clients : c = Sock(i)
  BY SocksAll
<1>3. PICK s \in Seq(InputOf(c)) : s = up[c] /\ s # <<>>
  BY <1>2 DEF RecvInput, ServerGets, Typed
<1>4. /\ Head(s).id = c /\ Head(s).m \in Encrypted
      /\ Tail(s) \in Seq(InputOf(c))
  <2>1. Head(s) \in InputOf(c)
    BY <1>3
  <2> QED
    BY <1>3, <2>1 DEF InputOf
<1>5. /\ up' = [up EXCEPT ![c] = Tail(s)]
      /\ sock_client_map' = [sock_client_map EXCEPT ![i] = c]
      /\ enclave_message' = [enclave_message EXCEPT ![c] = Head(s).m]
  BY <1>2, <1>3, <1>4 DEF RecvInput, ServerGets
<1>6. i' \in Clients /\ spc' \in {"recvInput", "passInput"}
  <2>1. i \in Nat /\ i < NUM_OF_CLIENTS /\ NUM_OF_CLIENTS \in Nat
    BY SocksAll
  <2> QED
    BY <1>1, <2>1 DEF NextInput, Goto, Clients
<1>7. Serving'
  BY <1>1, <1>6 DEF Serving
<1>8. Typed'
  <2>1. DOMAIN up' = Clients /\ \A d \in Clients : up'[d] \in Seq(InputOf(d))
    <3>1. DOMAIN up = Clients /\ \A d \in Clients : up[d] \in Seq(InputOf(d))
      BY DEF Typed
    <3> QED
      BY <1>4, <1>5, <3>1
  <2>2. enclave_message' \in [Clients -> Encrypted]
    BY <1>4, <1>5 DEF Typed
  <2>3. sock_client_map' \in [Clients -> Clients \cup {Unknown}]
    BY <1>5 DEF Typed
  <2>4. /\ DOMAIN down' = Clients /\ \A d \in Clients : down'[d] \in Seq(Output)
        /\ com_to_client_key' \in [Clients -> Int] /\ output_message' \in Output
        /\ output' \in [Clients -> Nat \cup {Junk}] \cup {Junk}
    BY <1>1 DEF Typed, enclaveVars
  <2> QED
    BY <1>1, <1>6, <2>1, <2>2, <2>3, <2>4, TypedAfterServer
<1>9. [Next]_vars
  BY DEF Next
<1>10. Fresh'
  <2>1. Head(up[Sock(i)]).id \in Clients
    BY <1>2, <1>3, <1>4
  <2>2. ~PassInput
    BY DEF RecvInput, PassInput
  <2> QED
    BY <1>9, <2>1, <2>2, FreshKept
<1>11. Resets'
  BY <1>1 DEF Resets, peerVars
<1>12. PICK p \in Clients : Missed(p, q)
  OBVIOUS
<1>13. up'[p] = up[p] /\ enclave_message'[p] = enclave_message[p]
  <2>1. p # c
    BY <1>3, <1>12 DEF Missed
  <2> QED
    BY <1>5, <2>1 DEF Typed
<1>14. \A d \in Clients : (Got(d, q) \/ Short(d, q))'
  BY <1>1, PartsKept
<1> QED
  BY <1>1, <1>7, <1>8, <1>9, <1>10, <1>11, <1>12, <1>13, <1>14, LateAfterServer DEF enclaveVars

(* The input that the client left does not decrypt, so the result of the   *)
(* round is meaningless, or there is no round, since no input came.        *)
LEMMA PassInputLate ==
  ASSUME NEW q \in Nat, Late(q), Server, PassInput
  PROVE  Late(q)'
<1> USE DEF Late
<1> DEFINE v == [c \in Clients |-> Decrypt(com_to_client_key[c], enclave_message[c])]
<1>1. /\ spc = "passInput" /\ spc' = "getOutput" /\ i' = 0
      /\ UNCHANGED <<peerVars, client_sock, sock_client_map, read, enclave_message,
                     output_message, sockets>>
  BY DEF PassInput, Goto
<1>2. PICK p \in Clients : Missed(p, q)
  OBVIOUS
<1>3. \/ /\ enclave = "running" /\ enclave' = enclave
         /\ com_to_client_key' = [c \in Clients |-> com_to_client_key[c] + 1]
         /\ output' = IF Junk \in {v[c] : c \in Clients} THEN Junk ELSE v
      \/ enclave = "crashed" /\ UNCHANGED enclaveVars
      \/ read # TRUE /\ UNCHANGED enclaveVars
  BY DEF PassInput, passInput, EcallFails
<1>4. v[p] = Junk
  <2>1. enclave_message[p].key < com_to_client_key[p]
    BY <1>2 DEF Missed
  <2>2. enclave_message[p].key \in Int /\ com_to_client_key[p] \in Int
    BY DEF Typed, Encrypted
  <2>3. enclave_message[p].key # com_to_client_key[p]
    BY <2>1, <2>2
  <2> QED
    BY <2>3 DEF Decrypt
<1>5. output' \in {output, Junk} /\ (output' = Junk \/ NobodyOpen)
  <2>1. ASSUME enclave = "crashed", UNCHANGED enclaveVars PROVE output' = Junk
    BY <2>1 DEF Fresh, enclaveVars
  <2>2. ASSUME read # TRUE PROVE NobodyOpen
    BY <1>1, <2>2 DEF Serving
  <2>3. ASSUME output' = IF Junk \in {v[c] : c \in Clients} THEN Junk ELSE v
        PROVE  output' = Junk
    <3>1. Junk \in {v[c] : c \in Clients}
      BY <1>4
    <3> QED
      BY <2>3, <3>1
  <2> QED
    BY <1>3, <2>1, <2>2, <2>3 DEF enclaveVars
<1>6. /\ com_to_client_key' \in [Clients -> Int]
      /\ com_to_client_key'[p] \in {com_to_client_key[p], com_to_client_key[p] + 1}
  <2>1. com_to_client_key \in [Clients -> Int] /\ com_to_client_key[p] \in Int
    BY DEF Typed
  <2>2. \/ com_to_client_key' = [c \in Clients |-> com_to_client_key[c] + 1]
        \/ UNCHANGED com_to_client_key
    BY <1>3 DEF enclaveVars
  <2> HIDE DEF Late
  <2>3. CASE com_to_client_key' = [c \in Clients |-> com_to_client_key[c] + 1]
    BY <2>1, <2>3
  <2>4. CASE UNCHANGED com_to_client_key
    BY <2>1, <2>4
  <2> QED
    BY <2>2, <2>3, <2>4
<1>7. Typed'
  <2>1. i' \in Clients
    BY <1>1, ClientsAssumption DEF Clients
  <2>2. output' \in [Clients -> Nat \cup {Junk}] \cup {Junk}
    BY <1>5 DEF Typed
  <2>3. /\ DOMAIN up' = Clients /\ DOMAIN down' = Clients
        /\ \A d \in Clients : up'[d] \in Seq(InputOf(d)) /\ down'[d] \in Seq(Output)
        /\ enclave_message' \in [Clients -> Encrypted] /\ output_message' \in Output
        /\ sock_client_map' \in [Clients -> Clients \cup {Unknown}]
    BY <1>1 DEF Typed, sockets
  <2> QED
    BY <1>1, <1>6, <2>1, <2>2, <2>3, TypedAfterServer
<1>8. [Next]_vars
  BY DEF Next
<1>9. Fresh'
  <2>1. ~RecvInput
    BY DEF RecvInput, PassInput
  <2> QED
    BY <1>5, <1>8, <2>1, FreshKept
<1>10. Resets'
  BY <1>1 DEF Resets, peerVars, sockets
<1>11. Serving'
  BY <1>1, <1>5 DEF Serving, NobodyOpen, sockets
<1>12. \A d \in Clients : (Got(d, q) \/ Short(d, q))'
  BY <1>1, PartsKept DEF sockets
<1> QED
  BY <1>1, <1>2, <1>6, <1>7, <1>8, <1>9, <1>10, <1>11, <1>12, LateAfterServer DEF sockets

LEMMA GetOutputLate ==
  ASSUME NEW q \in Nat, Late(q), Server, GetOutput
  PROVE  Late(q)'
<1> USE DEF Late
<1>1. PICK index \in Indices(sock_client_map[i]) :
        getOutputFromEnclave(index) /\ output_message' = OutputMessage(index, output_message)
  BY DEF GetOutput
<1>2. /\ spc = "getOutput" /\ spc' = "writeOutput" /\ i' = i /\ output' = output
      /\ UNCHANGED <<peerVars, client_sock, sock_client_map, read, enclave_message, sockets>>
  BY ResultStands DEF GetOutput, Goto
<1>3. PICK p \in Clients : Missed(p, q)
  OBVIOUS
<1>4. /\ com_to_client_key' \in [Clients -> Int]
      /\ com_to_client_key'[p] \in {com_to_client_key[p], com_to_client_key[p] + 1}
  <2>1. com_to_client_key \in [Clients -> Int]
    BY DEF Typed
  <2> QED
    BY <1>1, <2>1 DEF getOutputFromEnclave, EcallFails, enclaveVars
<1>5. [Next]_vars
  BY DEF Next
<1>6. Fresh'
  <2>1. ~RecvInput /\ ~PassInput
    BY DEF RecvInput, PassInput, GetOutput
  <2> QED
    BY <1>5, <2>1, FreshKept
<1>7. output_message' \in Output
  <2>1. output_message \in Output /\ Nothing \in Output
    BY DEF Typed, Nothing, Output
  <2>2. ASSUME index \in Clients PROVE Encrypt(com_to_client_key[index], output) \in Output
    <3>1. com_to_client_key[index] \in Int
      BY <2>2 DEF Typed
    <3>2. output \in [Clients -> Nat \cup {Junk}] \cup {Junk}
      BY DEF Typed
    <3> QED
      BY <3>1, <3>2 DEF Encrypt, Output
  <2> QED
    BY <1>1, <2>1, <2>2 DEF OutputMessage
<1>8. output_message'.v = Junk \/ NobodyOpen
  <2>1. output = Junk \/ NobodyOpen
    BY <1>2 DEF Serving
  <2>2. CASE enclave' = "crashed"
    BY <1>6, <2>2 DEF Fresh
  <2>3. CASE enclave' # "crashed"
    BY <1>1, <2>1, <2>3 DEF OutputMessage, Encrypt, Nothing
  <2> QED
    BY <2>2, <2>3
<1>9. Typed'
  <2>1. /\ DOMAIN up' = Clients /\ DOMAIN down' = Clients /\ i' \in Clients
        /\ \A d \in Clients : up'[d] \in Seq(InputOf(d)) /\ down'[d] \in Seq(Output)
        /\ enclave_message' \in [Clients -> Encrypted]
        /\ sock_client_map' \in [Clients -> Clients \cup {Unknown}]
        /\ output' \in [Clients -> Nat \cup {Junk}] \cup {Junk}
    BY <1>2 DEF Typed, sockets
  <2> QED
    BY <1>2, <1>4, <1>7, <2>1, TypedAfterServer
<1>10. Resets'
  BY <1>2 DEF Resets, peerVars, sockets
<1>11. Serving'
  BY <1>2, <1>8 DEF Serving, NobodyOpen, sockets
<1>12. \A d \in Clients : (Got(d, q) \/ Short(d, q))'
  BY <1>2, PartsKept DEF sockets
<1> QED
  BY <1>2, <1>3, <1>4, <1>5, <1>6, <1>9, <1>10, <1>11, <1>12, LateAfterServer DEF sockets

(* Whoever is there to receive it is sent a meaningless result.            *)
LEMMA WriteOutputLate ==
  ASSUME NEW q \in Nat, Late(q), Server, WriteOutput
  PROVE  Late(q)'
<1> USE PeersAssumption DEF Late
<1>0. PICK c \in Clients : c = Sock(i)
  BY SocksAll
<1>1. /\ spc = "writeOutput"
      /\ UNCHANGED <<peerVars, client_sock, sock_client_map, read, enclave_message,
                     output_message, enclaveVars, up, open>>
  BY DEF WriteOutput, ServerSends
<1>2. \/ /\ open[c] /\ down' = [down EXCEPT ![c] = Append(@, output_message)]
         /\ rstS' = rstS
      \/ /\ ~open[c] /\ down' = down /\ \E x : rstS' = [rstS EXCEPT ![c] = x]
  BY <1>0 DEF WriteOutput, ServerSends
<1>3. /\ i' \in Clients /\ spc' \in {"getOutput", "freeCircuit"}
  <2>1. i \in Nat /\ i < NUM_OF_CLIENTS /\ NUM_OF_CLIENTS \in Nat
    BY SocksAll
  <2> QED
    BY <2>1 DEF WriteOutput, Goto, Clients
<1>4. output_message \in Output /\ (open[c] => output_message.v = Junk)
  BY <1>1 DEF Typed, Serving, NobodyOpen
<1>5. /\ down[c] \in Seq(Output) /\ DOMAIN down = Clients
      /\ \A d \in Clients : down[d] \in Seq(Output)
  BY DEF Typed
<1>6. PICK s : /\ s = down[c] /\ s \in Seq(Output) /\ Len(s) \in Nat
               /\ Append(s, output_message) \in Seq(Output)
               /\ Len(Append(s, output_message)) = Len(s) + 1
               /\ Append(s, output_message)[Len(s) + 1] = output_message
               /\ \A n \in 1..Len(s) : Append(s, output_message)[n] = s[n]
  BY <1>4, <1>5
<1>7. /\ DOMAIN down' = Clients
      /\ \A d \in Clients : d # c => down'[d] = down[d]
      /\ \/ down'[c] = s
         \/ down'[c] = Append(s, output_message) /\ output_message.v = Junk
  BY <1>2, <1>4, <1>5, <1>6
<1>8. Typed'
  <2>1. \A d \in Clients : down'[d] \in Seq(Output)
    BY <1>5, <1>6, <1>7
  <2>2. /\ DOMAIN up' = Clients /\ \A d \in Clients : up'[d] \in Seq(InputOf(d))
        /\ enclave_message' \in [Clients -> Encrypted]
        /\ com_to_client_key' \in [Clients -> Int] /\ output_message' \in Output
        /\ sock_client_map' \in [Clients -> Clients \cup {Unknown}]
        /\ output' \in [Clients -> Nat \cup {Junk}] \cup {Junk}
    BY <1>1 DEF Typed, enclaveVars
  <2> QED
    BY <1>1, <1>3, <1>7, <2>1, <2>2, TypedAfterServer
<1>9. Fresh'
  BY <1>1 DEF Fresh, enclaveVars
<1>10. Resets'
  BY <1>1, <1>2 DEF Resets, peerVars
<1>11. Serving'
  BY <1>1, <1>3 DEF Serving, NobodyOpen, enclaveVars
<1>12. ASSUME NEW d \in Clients PROVE (Got(d, q) \/ Short(d, q))'
  <2>1. UNCHANGED <<scenario, cpc, com_key, results>>
    BY <1>1 DEF peerVars, clientVars
  <2>2. CASE d # c
    BY <1>7, <2>1, <2>2, PartKept
  <2>3. CASE d = c /\ down'[c] = s
    BY <1>6, <2>1, <2>3, PartKept
  <2>4. CASE d = c /\ down'[c] = Append(s, output_message) /\ output_message.v = Junk
    <3>1. ASSUME NEW k \in {1, 2}, JunkFrom(c, k) PROVE JunkFrom(c, k)'
      <4> SUFFICES ASSUME NEW m \in k..Len(down'[c]) PROVE down'[c][m].v = Junk
        BY DEF JunkFrom
      <4> HIDE DEF Late
      <4>1. Len(down'[c]) = Len(s) + 1 /\ Len(s) \in Nat /\ k \in 1..2
        BY <1>6, <2>4
      <4>2. m = Len(s) + 1 \/ (m \in k..Len(s) /\ m \in 1..Len(s))
        BY <4>1
      <4>3. CASE m = Len(s) + 1
        BY <1>6, <2>4, <4>3
      <4>4. CASE m \in k..Len(s) /\ m \in 1..Len(s)
        <5>1. s[m].v = Junk
          BY <1>6, <3>1, <4>4 DEF JunkFrom
        <5> QED
          BY <1>6, <2>4, <4>4, <5>1
      <4> QED
        BY <4>2, <4>3, <4>4
    <3>2. CASE Got(c, q)
      BY <2>1, <2>4, <3>1, <3>2 DEF Got
    <3>3. CASE Short(c, q)
      <4>1. Len(down'[c]) > 0 /\ down'[c][1] = down[c][1]
        BY <1>6, <2>4, <3>3 DEF Short
      <4>2. Genuine(q)' = Genuine(q)
        BY <2>1 DEF Genuine, BadInput
      <4> QED
        BY <2>1, <2>4, <3>1, <3>3, <4>1, <4>2 DEF Short
    <3> QED
      BY <2>4, <3>2, <3>3
  <2> QED
    BY <1>7, <2>2, <2>3, <2>4
<1>13. PICK p \in Clients : Missed(p, q)
  OBVIOUS
<1>14. [Next]_vars
  BY DEF Next
<1> QED
  BY <1>1, <1>8, <1>9, <1>10, <1>11, <1>12, <1>13, <1>14, LateAfterServer DEF enclaveVars

LEMMA ServerKilledLate ==
  ASSUME NEW q \in Nat, Late(q), Server, ServerKilled
  PROVE  Late(q)'
<1> USE PeersAssumption DEF Late
<1>1. /\ spc' = "killed" /\ i' = 0
      /\ UNCHANGED <<peerVars, client_sock, sock_client_map, enclave_message, output_message,
                     enclaveVars, down, open, rstS>>
      /\ up' = [c \in Peers |-> <<>>]
  BY DEF ServerKilled, ServerEnds, Goto
<1>2. Typed'
  <2>1. i' \in Clients
    BY <1>1, ClientsAssumption DEF Clients
  <2>2. DOMAIN up' = Clients /\ \A d \in Clients : up'[d] \in Seq(InputOf(d))
    BY <1>1
  <2>3. /\ DOMAIN down' = Clients /\ \A d \in Clients : down'[d] \in Seq(Output)
        /\ enclave_message' \in [Clients -> Encrypted]
        /\ com_to_client_key' \in [Clients -> Int] /\ output_message' \in Output
        /\ sock_client_map' \in [Clients -> Clients \cup {Unknown}]
        /\ output' \in [Clients -> Nat \cup {Junk}] \cup {Junk}
    BY <1>1 DEF Typed, enclaveVars
  <2> QED
    BY <1>1, <2>1, <2>2, <2>3, TypedAfterServer
<1>3. Fresh' /\ Resets' /\ Serving'
  BY <1>1 DEF Fresh, Resets, Serving, peerVars, enclaveVars
<1>4. PICK p \in Clients : Missed(p, q)
  OBVIOUS
<1>5. up'[p] = up[p]
  BY <1>1, <1>4 DEF Missed
<1>6. \A d \in Clients : (Got(d, q) \/ Short(d, q))'
  BY <1>1, PartsKept
<1>7. [Next]_vars
  BY DEF Next
<1> QED
  BY <1>1, <1>2, <1>3, <1>4, <1>5, <1>6, <1>7, LateAfterServer DEF enclaveVars

LEMMA LateStays ==
  ASSUME NEW q \in Nat, Late(q), [Next]_vars
  PROVE  Late(q)'
<1>1. CASE \E c \in Clients : Client(c)
  BY <1>1, ConnectLate, SendInputLate, RecvResultLate, EndLate DEF Client, DataOwner
<1>2. CASE Server
  <2>1. ~Start /\ ~Accept
    BY DEF Late, Serving, Start, Accept
  <2> QED
    BY <1>2, <2>1, PlaceLate, RecvInputLate, PassInputLate, GetOutputLate, WriteOutputLate,
       ServerKilledLate DEF Server
<1>3. CASE Network
  <2>1. /\ UNCHANGED <<peerVars, serverVars, backlog, enclaveVars, up, down, open>>
    BY <1>3 DEF Network, ResetArrives
  <2>2. Resets'
    BY <1>3, <2>1, PeersAssumption DEF Late, Resets, Network, ResetArrives, peerVars
  <2>3. Typed' /\ Fresh' /\ Attached' /\ Serving'
    BY <2>1 DEF Late, Typed, Fresh, Attached, Serving, NobodyOpen, Sock, peerVars, clientVars,
       serverVars, enclaveVars
  <2>4. PICK p \in Clients : Missed(p, q)
    BY DEF Late
  <2>5. \A d \in Clients : (Got(d, q) \/ Short(d, q))'
    BY <2>1, PartsKept
  <2> QED
    BY <2>1, <2>2, <2>3, <2>4, <2>5, LateAfterServer DEF serverVars, enclaveVars
<1>4. CASE UNCHANGED vars
  <2>1. UNCHANGED <<peerVars, serverVars, backlog, enclaveVars, sockets>>
    BY <1>4 DEF vars
  <2>2. Typed' /\ Fresh' /\ Attached' /\ Serving' /\ Resets'
    BY <2>1 DEF Late, Typed, Fresh, Attached, Serving, Resets, NobodyOpen, Sock, peerVars,
       clientVars, serverVars, enclaveVars, sockets
  <2>3. PICK p \in Clients : Missed(p, q)
    BY DEF Late
  <2>4. \A d \in Clients : (Got(d, q) \/ Short(d, q))'
    BY <2>1, PartsKept DEF sockets
  <2> QED
    BY <2>1, <2>2, <2>3, <2>4, LateAfterServer DEF serverVars, enclaveVars, sockets
<1> QED
  BY <1>1, <1>2, <1>3, <1>4 DEF Next

(* Whoever leaves, and whatever inputs are not binary, a client has the    *)
(* result of exactly the rounds that all took part in with binary inputs:  *)
(* a bad input spoils no other round, and what a client left behind is     *)
(* not evaluated as if it were new (passInput of Enclave.cpp, whose        *)
(* counters are incremented all the same, and the service loop of server.c, *)
(* which keeps the place of a client that sends nothing).                  *)
THEOREM BadInputsAreContained == Spec => []GenuineIffComplete
<1> DEFINE I == RInv \/ \E q \in Nat : Late(q)
<1>1. Init => I
  BY RInitially
<1>2. I /\ [Next]_vars => I'
  <2> SUFFICES ASSUME I, [Next]_vars PROVE I'
    OBVIOUS
  <2>1. CASE RInv /\ ~RecvNoInput
    BY <2>1, RInductive
  <2>2. CASE RInv /\ RecvNoInput
    <3>1. PICK r \in Nat : InRound(r)
      BY <2>2 DEF RInv
    <3> QED
      BY <2>2, <3>1, BecomesLate
  <2>3. CASE \E q \in Nat : Late(q)
    BY <2>3, LateStays
  <2> QED
    BY <2>1, <2>2, <2>3
<1>3. I => GenuineIffComplete
  BY RightSoFar DEF RInv, Late
<1> QED
  BY <1>1, <1>2, <1>3, PTL DEF Spec

AllBinary == \A s \in Scenarios : s.badInputs = {}

(* When all inputs are binary, every client has, for every round that it   *)
(* has a result of, the result on the inputs of that round.                *)
THEOREM RoundsKeepTogether ==
  ASSUME Staying, AllBinary
  PROVE  Spec => []RoundIntegrity
<1>1. RInv => RoundIntegrity
  BY DEF AllBinary, RInv, KInv, Undisturbed, ResultsRight, Genuine, BadInput, RoundIntegrity
<1> QED
  BY RInvHolds, <1>1, PTL

-----------------------------------------------------------------------------
(* Case 1 does what private function evaluation promises. *)

(* The result of round n, or of no round yet.                              *)
ResultOf(n) == IF n = 0 THEN Junk ELSE AllOf(n)

(* The enclave's result is the one of the last round that was passed to it. *)
Outcome(r) == output = ResultOf(IF spc = "passInput" THEN r - 1 ELSE r)

PInv == RInv /\ \E r \in Nat : InRound(r) /\ Outcome(r)

LEMMA AllOfDiffer == ASSUME NEW n \in Nat PROVE AllOf(n) # Junk /\ AllOf(n)[0] = n
<1>1. AllOf(n) \in [Clients -> Nat] /\ 0 \in Clients
  BY ClientsAssumption DEF AllOf, Clients
<1> QED
  BY <1>1, ResultsAssumption DEF AllOf

LEMMA PassedRound ==
  ASSUME RInv, NEW r \in Nat, InRound(r), spc = "passInput"
  PROVE  r # 0 /\ \A c \in Clients : crounds[c] = r
<1>1. \A c \in Clients : Waiting(c, r) /\ AtServer(c, r)
  BY DEF Held, RInv, InRound, Idle, Waiting, OnItsWay, Evaluating, Answered
<1>2. 0 \in Clients
  BY ClientsAssumption DEF Clients
<1>3. crounds[0] = r /\ r = Len(results[0]) + 1 /\ Len(results[0]) \in Nat
  BY <1>1, <1>2 DEF Waiting, AtServer, RInv
<1> QED
  BY <1>1, <1>3 DEF AtServer

LEMMA EvaluatedIs ==
  ASSUME RInv, NEW r \in Nat, InRound(r), Outcome(r)
  PROVE  /\ Evaluated = IF spc = "passInput" THEN r - 1 ELSE r
         /\ Supplied = r
<1> DEFINE n == IF spc = "passInput" THEN r - 1 ELSE r
<1>1. n \in Nat
  BY PassedRound
<1>2. Evaluated = n
  BY <1>1, AllOfDiffer DEF Outcome, ResultOf, Evaluated
<1> QED
  BY <1>2 DEF Supplied

LEMMA BinaryResults ==
  ASSUME AllBinary, RInv, NEW n
  PROVE  Genuine(n) = AllOf(n)
BY DEF AllBinary, RInv, KInv, Undisturbed, Genuine, BadInput

LEMMA PInitially == Init => PInv
<1> SUFFICES ASSUME Init PROVE PInv
  OBVIOUS
<1>1. RInv
  BY RInitially
<1>2. \A c \in Clients : Idle(c, 0)
  BY PeersAssumption DEF Init, DataOwnerInit, SocketsInit, Idle, Held, Due
<1>3. InRound(0) /\ Outcome(0)
  BY <1>2 DEF Init, EnclaveInit, InRound, OutputRight, Outcome, ResultOf
<1> QED
  BY <1>1, <1>3 DEF PInv

(* Only passInput changes the result, and no other step leaves its place.  *)
LEMMA OutcomeKept ==
  ASSUME AllBinary, RInv, RInv', [Next]_vars, NEW r \in Nat, InRound(r), InRound(r)',
         ~Completes, Outcome(r)
  PROVE  Outcome(r)'
<1>1. CASE PassInput
  <2>1. spc = "passInput" /\ spc' = "getOutput" /\ UNCHANGED scenario
    BY <1>1 DEF PassInput, Goto, peerVars
  <2>2. output' = Genuine(r) /\ r # 0
    <3>1. output' = Genuine(r)'
      BY <2>1 DEF InRound, OutputRight
    <3> QED
      BY <2>1, <3>1, PassedRound DEF Genuine, BadInput
  <2> QED
    BY <2>1, <2>2, BinaryResults DEF Outcome, ResultOf, AllOf
<1>2. CASE ~PassInput
  <2>1. output' = output
    <3>1. CASE \E c \in Clients : Client(c)
      BY <3>1 DEF Client, enclaveVars
    <3>2. CASE Server
      <4>1. GetOutput => output' = output
        BY ResultStands DEF RInv, KInv
      <4> QED
        BY <1>2, <3>2, <4>1
           DEF Server, Start, Accept, NewRound, RecvInput, RecvNoInput, WriteOutput,
               FreeCircuit, ServerKilled, passCircuit, enclaveVars
    <3>3. CASE Network \/ UNCHANGED vars
      BY <3>3 DEF Network, vars, enclaveVars
    <3> QED
      BY <3>1, <3>2, <3>3 DEF Next
  <2>2. spc = "passInput" => spc' = "passInput"
    <3>1. CASE Server
      BY <1>2, <3>1
         DEF Server, Start, Accept, NewRound, RecvInput, RecvNoInput, GetOutput, WriteOutput,
             FreeCircuit, ServerKilled
    <3>2. CASE ~Server
      BY <3>2 DEF Next, Client, Network, vars, serverVars
    <3> QED
      BY <3>1, <3>2
  <2> QED
    BY <2>1, <2>2 DEF Completes, Outcome, ResultOf, AllOf
<1> QED
  BY <1>1, <1>2

LEMMA PInductive ==
  ASSUME Staying, AllBinary, PInv, [Next]_vars
  PROVE  PInv'
<1>1. PICK r \in Nat : InRound(r) /\ Outcome(r)
  BY DEF PInv
<1>2. RInv /\ RInv' /\ ~RecvNoInput
  BY RInductive, NobodyMissed DEF PInv, RInv
<1>3. CASE ~Completes /\ InRound(r)'
  BY <1>1, <1>2, <1>3, OutcomeKept DEF PInv
<1>4. CASE Completes /\ RecvInput /\ InRound(r + 1)'
  <2>1. output' = output /\ spc' = "passInput" /\ spc # "passInput"
    BY <1>4 DEF Completes, RecvInput, enclaveVars
  <2>2. Outcome(r + 1)'
    BY <1>1, <2>1 DEF Outcome, ResultOf, AllOf
  <2> QED
    BY <1>2, <1>4, <2>2 DEF PInv
<1> QED
  BY <1>1, <1>2, <1>3, <1>4, StepInRound

LEMMA AnswersAre ==
  ASSUME RInv, NEW c \in Clients
  PROVE  Len(Answers[c]) = Len(results[c])
<1>1. Len(results[c]) \in Nat /\ DOMAIN results[c] = 1..Len(results[c])
  BY DEF RInv
<1>2. DOMAIN Answers[c] = 1..Len(results[c])
  BY <1>1 DEF Answers
<1> QED
  BY <1>1, <1>2

LEMMA SendInputSubmits ==
  ASSUME RInv, NEW r \in Nat, InRound(r), NEW c \in Clients, SendInput(c),
         UNCHANGED <<serverVars, enclaveVars>>
  PROVE  Promise!Submit(c)
<1>1. Idle(c, r)
  BY DEF InRound, Waiting, SendInput
<1>2. crounds[c] = Len(Answers[c])
  BY <1>1, AnswersAre DEF Idle
<1>3. UNCHANGED <<Supplied, Evaluated, Answers>>
  BY DEF SendInput, serverVars, enclaveVars, Supplied, Evaluated, Answers
<1> QED
  BY <1>2, <1>3 DEF Promise!Submit, SendInput

(* The last input of a round makes the circuit count as supplied for it.   *)
LEMMA RecvInputSupplies ==
  ASSUME RInv, NEW r \in Nat, InRound(r), Outcome(r), RecvInput, Completes, InRound(r + 1)', RInv'
  PROVE  Promise!Supply
<1>1. /\ spc = "recvInput" /\ spc' = "passInput"
      /\ UNCHANGED <<crounds, results, output>>
  BY DEF RecvInput, Completes, peerVars, clientVars, enclaveVars
<1>2. Evaluated = r /\ Supplied = r
  BY <1>1, EvaluatedIs
<1>3. Evaluated' = Evaluated /\ Supplied' = Evaluated' + 1
  BY <1>1 DEF Evaluated, Supplied
<1>4. r < Rounds
  <2>1. \A c \in Clients : crounds'[c] = r + 1
    <3>1. \A c \in Clients : Waiting(c, r + 1)' /\ AtServer(c, r + 1)'
      <4>1. \A c \in Clients : Held(c)'
        BY <1>1 DEF Held
      <4> QED
        BY <4>1 DEF InRound, Idle, Waiting, OnItsWay, Evaluating, Answered
    <3> QED
      BY <1>1, <3>1 DEF AtServer
  <2>2. 0 \in Clients
    BY ClientsAssumption DEF Clients
  <2>3. crounds[0] \in 0..Rounds /\ crounds[0] = r + 1
    BY <1>1, <2>1, <2>2 DEF RInv, KInv, Typed
  <2> QED
    BY <2>3, RoundsAssumption
<1> QED
  BY <1>1, <1>2, <1>3, <1>4 DEF Promise!Supply, Answers

LEMMA PassInputEvaluates ==
  ASSUME RInv, NEW r \in Nat, InRound(r), Outcome(r), PassInput, RInv', InRound(r)', Outcome(r)'
  PROVE  Promise!Evaluate
<1>1. spc = "passInput" /\ spc' = "getOutput" /\ UNCHANGED <<crounds, results>>
  BY DEF PassInput, Goto, peerVars, clientVars
<1>2. Evaluated = r - 1 /\ Supplied = r
  BY <1>1, EvaluatedIs
<1>3. Evaluated' = r
  <2>1. output' = ResultOf(r)
    BY <1>1 DEF Outcome, ResultOf, AllOf
  <2> QED
    BY <2>1, AllOfDiffer DEF Evaluated, ResultOf
<1>4. Supplied' = r
  BY <1>1, <1>3 DEF Supplied
<1>5. \A c \in Clients : crounds[c] = r
  BY <1>1, PassedRound
<1> QED
  BY <1>1, <1>2, <1>3, <1>4, <1>5 DEF Promise!Evaluate, Answers

LEMMA RecvResultAnswers ==
  ASSUME AllBinary, RInv, NEW r \in Nat, InRound(r), Outcome(r),
         NEW c \in Clients, RecvResult(c), UNCHANGED <<serverVars, enclaveVars>>
  PROVE  Promise!Answer(c)
<1>1. /\ cpc[c] = "recv" /\ down[c] # <<>> /\ UNCHANGED crounds
      /\ results' = [results EXCEPT ![c] = Append(@, Decrypt(com_key[c], Head(down[c])))]
  BY PeersAssumption DEF RecvResult, PeerGets, PeerRecvEnds, RInv, KInv, Undisturbed
<1>2. Answered(c, r) /\ crounds[c] = Len(results[c]) + 1
  BY <1>1 DEF InRound, Idle, Waiting, OnItsWay, AtServer, Evaluating
<1>3. Decrypt(com_key[c], Head(down[c])) = AllOf(r)
  BY <1>2, BinaryResults DEF Answered, Encrypt, Decrypt
<1>4. Evaluated = r
  <2>1. spc # "passInput"
    BY <1>2 DEF Answered, Held
  <2> QED
    BY <2>1, EvaluatedIs
<1>5. Len(results[c]) \in Nat /\ Len(results[c]) + 1 = r /\ Len(Answers[c]) < Evaluated
  <2>1. Len(results[c]) \in Nat /\ Len(results[c]) + 1 = r
    BY <1>2 DEF Answered, RInv
  <2>2. Len(Answers[c]) = r - 1
    BY <2>1, AnswersAre
  <2> QED
    BY <1>4, <2>1, <2>2
<1>6. Answers' = [Answers EXCEPT ![c] = Append(@, Promise!Result(r))]
  <2>1. results'[c] = Append(results[c], AllOf(r)) /\ \A d \in Clients : d # c => results'[d] = results[d]
    BY <1>1, <1>3 DEF RInv
  <2>2. /\ DOMAIN results[c] = 1..(r - 1) /\ DOMAIN results'[c] = 1..r
        /\ results'[c][r] = AllOf(r)
        /\ \A n \in 1..(r - 1) : results'[c][n] = results[c][n]
    BY <1>5, <2>1 DEF RInv
  <2>3. /\ Answers[c] = [n \in 1..(r - 1) |-> [program |-> n, inputs |-> results[c][n]]]
        /\ Answers'[c] = [n \in 1..r |-> [program |-> n, inputs |-> results'[c][n]]]
    BY <2>2 DEF Answers
  <2>4. Promise!Result(r) = [program |-> r, inputs |-> AllOf(r)]
    BY DEF Promise!Result, AllOf
  <2>5. Answers'[c] = Append(Answers[c], Promise!Result(r))
    <3>1. Len(Answers[c]) = r - 1
      BY <1>5, AnswersAre
    <3>2. Append(Answers[c], Promise!Result(r)) =
            [n \in 1..r |-> IF n = r THEN Promise!Result(r) ELSE Answers[c][n]]
      BY <1>5, <3>1, <2>3
    <3>3. \A n \in 1..r : [program |-> n, inputs |-> results'[c][n]] =
                            IF n = r THEN Promise!Result(r) ELSE Answers[c][n]
      BY <1>5, <2>2, <2>3, <2>4
    <3> QED
      BY <2>3, <3>2, <3>3
  <2>6. \A d \in Clients : d # c => Answers'[d] = Answers[d]
    BY <2>1 DEF Answers
  <2> QED
    BY <2>5, <2>6 DEF Answers
<1>7. UNCHANGED <<Supplied, Evaluated>>
  BY DEF serverVars, enclaveVars, Supplied, Evaluated
<1> QED
  BY <1>1, <1>4, <1>5, <1>6, <1>7 DEF Promise!Answer

LEMMA StepsPromised ==
  ASSUME Staying, AllBinary, PInv, PInv', [Next]_vars
  PROVE  [Promise!Next]_(Promise!vars)
<1>1. PICK r \in Nat : InRound(r) /\ Outcome(r)
  BY DEF PInv
<1>2. RInv /\ RInv' /\ KInv /\ ~RecvNoInput
  BY NobodyMissed DEF PInv, RInv
<1>3. CASE Completes
  <2>1. RecvInput /\ InRound(r + 1)'
    BY <1>1, <1>2, <1>3, StepInRound
  <2> QED
    BY <1>1, <1>2, <1>3, <2>1, RecvInputSupplies DEF Promise!Next
<1>4. CASE ~Completes
  <2>1. InRound(r)' /\ Outcome(r)'
    BY <1>1, <1>2, <1>4, StepInRound, OutcomeKept
  <2>2. ASSUME NEW c \in Clients, Client(c) PROVE [Promise!Next]_(Promise!vars)
    <3>1. UNCHANGED <<serverVars, enclaveVars>>
      BY <2>2 DEF Client
    <3>2. CASE Connect(c)
      BY <3>1, <3>2
         DEF Connect, serverVars, enclaveVars, Promise!vars, Supplied, Evaluated, Answers
    <3>3. CASE SendInput(c)
      BY <1>1, <1>2, <3>1, <3>3, SendInputSubmits DEF Promise!Next
    <3>4. CASE RecvResult(c)
      BY <1>1, <1>2, <3>1, <3>4, RecvResultAnswers DEF Promise!Next
    <3> QED
      BY <1>2, <2>2, <3>2, <3>3, <3>4, NobodyMissed, NoReset DEF Client, DataOwner
  <2>3. CASE PassInput
    BY <1>1, <1>2, <2>1, <2>3, PassInputEvaluates DEF Promise!Next
  <2>4. CASE Server /\ ~PassInput
    <3>1. UNCHANGED <<crounds, results, output>>
      <4>1. GetOutput => output' = output
        BY <1>2, ResultStands DEF RInv, KInv
      <4> QED
        BY <2>4, <4>1
           DEF Server, Start, Accept, NewRound, RecvInput, RecvNoInput, GetOutput, WriteOutput,
               FreeCircuit, ServerKilled, passCircuit, enclaveVars, peerVars, clientVars
    <3>2. spc # "passInput" /\ spc' # "passInput"
      BY <1>4, <2>4
         DEF Completes, Server, Start, Accept, NewRound, RecvInput, RecvNoInput, GetOutput,
             WriteOutput, FreeCircuit, ServerKilled
    <3> QED
      BY <3>1, <3>2 DEF Promise!vars, Supplied, Evaluated, Answers
  <2>5. CASE Network \/ UNCHANGED vars
    BY <2>5
       DEF Network, vars, peerVars, clientVars, serverVars, enclaveVars, Promise!vars, Supplied,
           Evaluated, Answers
  <2> QED
    BY <2>2, <2>3, <2>4, <2>5 DEF Next
<1> QED
  BY <1>3, <1>4

(* While nobody leaves and all inputs are binary, case 1 implements the    *)
(* promise: the circuit is evaluated once a round on inputs that all were  *)
(* sent in that round, and every client is answered before it sends again  *)
(* (client.c, server.c and Enclave.cpp of case 1).                         *)
THEOREM Promised ==
  ASSUME Staying, AllBinary
  PROVE  Spec => PromiseSpec
<1>1. Init => Promise!Init
  <2> SUFFICES ASSUME Init PROVE Promise!Init
    OBVIOUS
  <2>1. results = [c \in Clients |-> <<>>] /\ crounds = [c \in Clients |-> 0]
    BY DEF Init, DataOwnerInit
  <2>2. Answers = [c \in Clients |-> <<>>]
    BY <2>1 DEF Answers
  <2> QED
    BY <2>1, <2>2 DEF Init, EnclaveInit, Promise!Init, Evaluated, Supplied
<1>2. PInv /\ [Next]_vars => PInv'
  BY PInductive
<1>3. PInv /\ PInv' /\ [Next]_vars => [Promise!Next]_(Promise!vars)
  BY StepsPromised
<1> QED
  BY <1>1, <1>2, <1>3, PInitially, PTL DEF Spec, PromiseSpec, Promise!Spec

-----------------------------------------------------------------------------
(* Types.  They are kept by every step by itself, whatever the peers do.   *)

(* What the messages may be, to the round.                                 *)
RoundInput(c) == [id : {c}, m : [key : Int, v : 1..Rounds \cup {Junk}]]
RoundResult == [key : Int, v : Results]

PeersShaped ==
  /\ com_key \in [Clients -> Nat] /\ crounds \in [Clients -> 0..Rounds]
  /\ results \in [Clients -> Seq(Results)]
  /\ cpc \in [Clients -> {"connect", "send", "recv", "ended", "killed"}]
  /\ backlog \in Seq(Clients)

ConnectionsShaped ==
  /\ DOMAIN up = Clients /\ DOMAIN down = Clients
  /\ \A c \in Clients : up[c] \in Seq(RoundInput(c)) /\ down[c] \in Seq(RoundResult)

ServerShaped ==
  /\ spc \in {"start", "accept", "newRound", "recvInput", "passInput", "getOutput",
              "writeOutput", "freeCircuit", "killed"}
  /\ i \in Clients /\ read \in BOOLEAN
  /\ C \in Blocks \cup {NoCircuit} /\ heap \subseteq Blocks
  /\ client_sock \in Seq(Clients)
  /\ Len(client_sock) = CASE spc = "start" -> 0 [] spc = "accept" -> i
                          [] OTHER -> NUM_OF_CLIENTS
  /\ sock_client_map \in [Clients -> Clients \cup {Unknown}]
  /\ enclave_message \in [Clients -> [key : Int, v : 1..Rounds \cup {Junk}]]
  /\ output_message \in RoundResult

EnclaveShaped ==
  /\ enclave \in {"running", "crashed"} /\ com_to_client_key \in [Clients -> Nat]
  /\ cur \in Blocks \cup {NoCircuit} /\ output \in Results

Shape == PeersShaped /\ ConnectionsShaped /\ ServerShaped /\ EnclaveShaped

LEMMA ShapeInitially == Init => Shape
<1> SUFFICES ASSUME Init PROVE Shape
  OBVIOUS
<1> USE PeersAssumption, ClientsAssumption, RoundsAssumption
<1>1. Clients \subseteq Nat /\ 0 \in Clients
  BY DEF Clients
<1>2. PeersShaped
  BY <1>1 DEF Init, DataOwnerInit, PeersShaped
<1>3. ConnectionsShaped
  BY DEF Init, SocketsInit, ConnectionsShaped
<1>4. Nothing \in [key : Int, v : 1..Rounds \cup {Junk}] /\ Nothing \in RoundResult
  BY DEF Nothing, RoundResult, Results
<1>5. ServerShaped
  <2>1. <<>> \in Seq(Clients) /\ Len(<<>>) = 0
    OBVIOUS
  <2>2. /\ spc = "start" /\ i \in Clients /\ read \in BOOLEAN /\ client_sock = <<>>
        /\ C \in Blocks \cup {NoCircuit} /\ heap \subseteq Blocks
        /\ sock_client_map \in [Clients -> Clients \cup {Unknown}]
    BY <1>1 DEF Init
  <2>3. /\ enclave_message \in [Clients -> [key : Int, v : 1..Rounds \cup {Junk}]]
        /\ output_message \in RoundResult
    BY <1>4 DEF Init
  <2> QED
    BY <2>1, <2>2, <2>3 DEF ServerShaped
<1>6. EnclaveShaped
  BY <1>1 DEF Init, EnclaveInit, EnclaveShaped, Results
<1> QED
  BY <1>2, <1>3, <1>5, <1>6 DEF Shape

(* What the connections carry when one end sends or receives.              *)
LEMMA ConnectionChanges ==
  ASSUME ConnectionsShaped, NEW c \in Clients
  PROVE  /\ \A m \in RoundInput(c) : up' = [up EXCEPT ![c] = Append(@, m)] /\ down' = down
              => ConnectionsShaped'
         /\ \A m \in RoundResult : down' = [down EXCEPT ![c] = Append(@, m)] /\ up' = up
              => ConnectionsShaped'
         /\ up[c] # <<>> /\ up' = [up EXCEPT ![c] = Tail(@)] /\ down' = down
              => ConnectionsShaped' /\ Head(up[c]) \in RoundInput(c)
         /\ down[c] # <<>> /\ down' = [down EXCEPT ![c] = Tail(@)] /\ up' = up
              => ConnectionsShaped' /\ Head(down[c]) \in RoundResult
         /\ down' = [down EXCEPT ![c] = <<>>] /\ up' = up => ConnectionsShaped'
         /\ up' = [p \in Peers |-> <<>>] /\ down' = down => ConnectionsShaped'
         /\ up' = up /\ down' = down => ConnectionsShaped'
<1>1. /\ DOMAIN up = Clients /\ DOMAIN down = Clients
      /\ \A d \in Clients : up[d] \in Seq(RoundInput(d)) /\ down[d] \in Seq(RoundResult)
  BY DEF ConnectionsShaped
<1>2. up[c] \in Seq(RoundInput(c)) /\ down[c] \in Seq(RoundResult)
  BY <1>1
<1>3. ASSUME NEW m \in RoundInput(c), up' = [up EXCEPT ![c] = Append(@, m)], down' = down
      PROVE  ConnectionsShaped'
  <2>1. Append(up[c], m) \in Seq(RoundInput(c))
    BY <1>2
  <2> QED
    BY <1>1, <1>3, <2>1 DEF ConnectionsShaped
<1>4. ASSUME NEW m \in RoundResult, down' = [down EXCEPT ![c] = Append(@, m)], up' = up
      PROVE  ConnectionsShaped'
  <2>1. Append(down[c], m) \in Seq(RoundResult)
    BY <1>2
  <2> QED
    BY <1>1, <1>4, <2>1 DEF ConnectionsShaped
<1>5. ASSUME up[c] # <<>>, up' = [up EXCEPT ![c] = Tail(@)], down' = down
      PROVE  ConnectionsShaped' /\ Head(up[c]) \in RoundInput(c)
  <2>1. Tail(up[c]) \in Seq(RoundInput(c)) /\ Head(up[c]) \in RoundInput(c)
    BY <1>2, <1>5
  <2> QED
    BY <1>1, <1>5, <2>1 DEF ConnectionsShaped
<1>6. ASSUME down[c] # <<>>, down' = [down EXCEPT ![c] = Tail(@)], up' = up
      PROVE  ConnectionsShaped' /\ Head(down[c]) \in RoundResult
  <2>1. Tail(down[c]) \in Seq(RoundResult) /\ Head(down[c]) \in RoundResult
    BY <1>2, <1>6
  <2> QED
    BY <1>1, <1>6, <2>1 DEF ConnectionsShaped
<1>7. ASSUME down' = [down EXCEPT ![c] = <<>>], up' = up
      PROVE  ConnectionsShaped'
  BY <1>1, <1>7 DEF ConnectionsShaped
<1>8. ASSUME up' = [p \in Peers |-> <<>>], down' = down
      PROVE  ConnectionsShaped'
  BY <1>1, <1>8, PeersAssumption DEF ConnectionsShaped
<1>9. ASSUME up' = up, down' = down
      PROVE  ConnectionsShaped'
  BY <1>1, <1>9 DEF ConnectionsShaped
<1> QED
  BY <1>3, <1>4, <1>5, <1>6, <1>7, <1>8, <1>9

LEMMA ClientKeepsShape ==
  ASSUME Shape, NEW c \in Clients, Client(c)
  PROVE  Shape'
<1> USE RoundsAssumption
<1>1. ServerShaped' /\ EnclaveShaped'
  BY DEF Shape, Client, ServerShaped, EnclaveShaped, serverVars, enclaveVars
<1>2. /\ com_key \in [Clients -> Nat] /\ crounds \in [Clients -> 0..Rounds]
      /\ results \in [Clients -> Seq(Results)] /\ results[c] \in Seq(Results)
      /\ cpc \in [Clients -> {"connect", "send", "recv", "ended", "killed"}]
      /\ backlog \in Seq(Clients) /\ com_key[c] \in Nat /\ crounds[c] \in 0..Rounds
      /\ Junk \in Results
  BY DEF Shape, PeersShaped, Results
<1>3. ConnectionsShaped
  BY DEF Shape
<1>4. CASE Connect(c)
  <2>1. Append(backlog, c) \in Seq(Clients)
    BY <1>2
  <2>2. PeersShaped'
    BY <1>2, <1>4, <2>1 DEF Connect, PeersShaped
  <2>3. ConnectionsShaped'
    BY <1>3, <1>4 DEF Connect, ConnectionsShaped, sockets
  <2> QED
    BY <1>1, <2>2, <2>3 DEF Shape
<1>5. CASE SendInput(c)
  <2>1. crounds[c] + 1 \in 1..Rounds /\ com_key[c] + 1 \in Nat
    BY <1>2, <1>5 DEF SendInput
  <2>2. PeersShaped'
    BY <1>2, <1>5, <2>1 DEF SendInput, PeersShaped
  <2>3. ASSUME NEW v \in {Junk, crounds[c] + 1}
        PROVE  [id |-> c, m |-> Encrypt(com_key[c], v)] \in RoundInput(c)
    BY <1>2, <2>1 DEF Encrypt, RoundInput
  <2>4. PICK m \in RoundInput(c) :
             up' \in {up, [up EXCEPT ![c] = Append(@, m)]} /\ down' = down
    BY <1>5, <2>3 DEF SendInput, PeerSends
  <2>5. ConnectionsShaped'
    BY <1>3, <2>4, ConnectionChanges
  <2> QED
    BY <1>1, <2>2, <2>5 DEF Shape
<1>6. CASE RecvResult(c)
  <2>1. \/ PeerGets(c) /\ results' = [results EXCEPT ![c] =
                            Append(@, Decrypt(com_key[c], Head(down[c])))]
        \/ UNCHANGED sockets /\ results' = [results EXCEPT ![c] = Append(@, Junk)]
    BY <1>6 DEF RecvResult
  <2>2. ConnectionsShaped' /\ (PeerGets(c) => Head(down[c]) \in RoundResult)
    BY <1>3, <2>1, ConnectionChanges DEF PeerGets, sockets
  <2>3. PICK v \in Results : results' = [results EXCEPT ![c] = Append(@, v)]
    BY <1>2, <2>1, <2>2 DEF Decrypt, RoundResult
  <2>4. Append(results[c], v) \in Seq(Results) /\ com_key[c] + 1 \in Nat
    BY <1>2
  <2>5. results' \in [Clients -> Seq(Results)]
    BY <1>2, <2>3, <2>4
  <2>6. PeersShaped'
    BY <1>2, <1>6, <2>4, <2>5 DEF RecvResult, PeersShaped
  <2> QED
    BY <1>1, <2>2, <2>6 DEF Shape
<1>7. CASE Leave(c) \/ ClientBrokenPipe(c)
  <2>1. PeersShaped'
    BY <1>2, <1>7 DEF Leave, ClientBrokenPipe, PeersShaped
  <2>2. ConnectionsShaped'
    BY <1>3, <1>7, ConnectionChanges DEF Leave, ClientBrokenPipe, PeerCloses
  <2> QED
    BY <1>1, <2>1, <2>2 DEF Shape
<1> QED
  BY <1>4, <1>5, <1>6, <1>7 DEF Client, DataOwner

(* The server's connections, once it has them all.                         *)
LEMMA SockShaped ==
  ASSUME ServerShaped, spc \notin {"start", "accept"}
  PROVE  Sock(i) \in Clients
<1>1. i + 1 \in 1..Len(client_sock)
  BY ClientsAssumption DEF ServerShaped, Clients
<1> QED
  BY <1>1 DEF ServerShaped, Sock

LEMMA ServerKeepsShape ==
  ASSUME Shape, Server
  PROVE  Shape'
<1> USE ClientsAssumption
<1>1. PeersShaped' \/ Accept
  BY DEF Shape, Server, Start, NewRound, RecvInput, RecvNoInput, PassInput, GetOutput,
         WriteOutput, FreeCircuit, ServerKilled, peerVars, clientVars, PeersShaped
<1>2. /\ i \in 0..(NUM_OF_CLIENTS - 1) /\ 0 \in Clients
      /\ i + 1 < NUM_OF_CLIENTS => i + 1 \in Clients
      /\ ~(i + 1 < NUM_OF_CLIENTS) => i + 1 = NUM_OF_CLIENTS
  BY DEF Shape, ServerShaped, Clients
<1>3. Start \/ Accept \/ NewRound \/ RecvInput \/ RecvNoInput \/ FreeCircuit
        \/ WriteOutput \/ ServerKilled => EnclaveShaped'
  BY DEF Shape, Start, Accept, NewRound, RecvInput, RecvNoInput, FreeCircuit, WriteOutput,
         ServerKilled, passCircuit, readBRISCircuit, EnclaveShaped, enclaveVars, ServerShaped
<1>4. UNCHANGED sockets => ConnectionsShaped'
  BY DEF Shape, ConnectionsShaped, sockets
<1>5. CASE Start
  <2>1. ServerShaped'
    BY <1>2, <1>5 DEF Shape, ServerShaped, Start, readBRISCircuit, Goto
  <2> QED
    BY <1>1, <1>3, <1>4, <1>5, <2>1 DEF Shape, Start, Accept
<1>6. CASE Accept
  <2>1. /\ backlog \in Seq(Clients) /\ client_sock \in Seq(Clients)
        /\ Len(client_sock) = i /\ backlog # <<>>
    BY <1>6 DEF Shape, ServerShaped, PeersShaped, Accept
  <2>2. /\ Head(backlog) \in Clients /\ Tail(backlog) \in Seq(Clients)
        /\ Append(client_sock, Head(backlog)) \in Seq(Clients)
        /\ Len(Append(client_sock, Head(backlog))) = i + 1
    BY <2>1
  <2>3. PeersShaped'
    BY <1>6, <2>2 DEF Shape, PeersShaped, Accept, peerVars, clientVars
  <2>4. ServerShaped'
    BY <1>2, <1>6, <2>2 DEF Shape, ServerShaped, Accept, Goto
  <2> QED
    BY <1>3, <1>4, <1>6, <2>3, <2>4 DEF Shape, Accept
<1>7. CASE NewRound
  <2>1. ServerShaped'
    BY <1>2, <1>7 DEF Shape, ServerShaped, NewRound, readBRISCircuit, Goto
  <2> QED
    BY <1>1, <1>3, <1>4, <1>7, <2>1 DEF Shape, NewRound, Accept
<1>8. CASE RecvInput
  <2>1. Sock(i) \in Clients
    BY <1>8, SockShaped DEF Shape, RecvInput
  <2>2. ConnectionsShaped' /\ Head(up[Sock(i)]) \in RoundInput(Sock(i))
    BY <1>8, <2>1, ConnectionChanges DEF Shape, RecvInput, ServerGets
  <2>3. PICK msg \in RoundInput(Sock(i)) :
             /\ sock_client_map' = [sock_client_map EXCEPT ![i] = msg.id]
             /\ enclave_message' = [enclave_message EXCEPT ![msg.id] = msg.m]
    BY <1>8, <2>2 DEF RecvInput
  <2>4. msg.id \in Clients /\ msg.m \in [key : Int, v : 1..Rounds \cup {Junk}]
    BY <2>1, <2>3 DEF RoundInput
  <2>5. /\ sock_client_map' \in [Clients -> Clients \cup {Unknown}]
        /\ enclave_message' \in [Clients -> [key : Int, v : 1..Rounds \cup {Junk}]]
    BY <2>3, <2>4 DEF Shape, ServerShaped
  <2>6. ServerShaped'
    BY <1>2, <1>8, <2>5 DEF Shape, ServerShaped, RecvInput, NextInput, Goto
  <2> QED
    BY <1>1, <1>3, <1>8, <2>2, <2>6 DEF Shape, RecvInput, Accept
<1>9. CASE RecvNoInput
  <2>1. ServerShaped'
    BY <1>2, <1>9 DEF Shape, ServerShaped, RecvNoInput, NextInput, Goto
  <2> QED
    BY <1>1, <1>3, <1>4, <1>9, <2>1 DEF Shape, RecvNoInput, Accept
<1>10. CASE PassInput
  <2>1. ServerShaped'
    BY <1>2, <1>10 DEF Shape, ServerShaped, PassInput, Goto
  <2>2. ASSUME passInput(enclave_message) PROVE EnclaveShaped'
    <3> DEFINE w == [c \in Clients |-> Decrypt(com_to_client_key[c], enclave_message[c])]
    <3>1. CASE EcallFails
      BY <3>1 DEF Shape, EnclaveShaped, EcallFails, enclaveVars
    <3>2. CASE ~EcallFails
      <4>1. /\ com_to_client_key' = [c \in Clients |-> com_to_client_key[c] + 1]
            /\ output' = IF Junk \in {w[c] : c \in Clients} THEN Junk ELSE w
            /\ UNCHANGED <<enclave, cur>>
        BY <2>2, <3>2 DEF passInput
      <4>2. ASSUME NEW c \in Clients, Junk \notin {w[d] : d \in Clients}
            PROVE  Decrypt(com_to_client_key[c], enclave_message[c]) \in 1..Rounds
        <5>1. w[c] # Junk /\ w[c] = Decrypt(com_to_client_key[c], enclave_message[c])
          BY <4>2
        <5>2. enclave_message[c] \in [key : Int, v : 1..Rounds \cup {Junk}]
          BY DEF Shape, ServerShaped
        <5> QED
          BY <5>1, <5>2 DEF Decrypt
      <4>3. output' \in Results
        BY <4>1, <4>2 DEF Results
      <4>4. com_to_client_key' \in [Clients -> Nat]
        BY <4>1 DEF Shape, EnclaveShaped
      <4> QED
        BY <4>1, <4>3, <4>4 DEF Shape, EnclaveShaped
    <3> QED
      BY <3>1, <3>2
  <2>3. EnclaveShaped'
    BY <1>10, <2>2 DEF Shape, PassInput, EnclaveShaped, enclaveVars
  <2> QED
    BY <1>1, <1>4, <1>10, <2>1, <2>3 DEF Shape, PassInput, Accept
<1>11. CASE GetOutput
  <2>1. PICK index \in Clients \cup {Unknown} :
             /\ getOutputFromEnclave(index)
             /\ output_message' = OutputMessage(index, output_message)
    BY <1>2, <1>11 DEF Shape, ServerShaped, GetOutput, Indices
  <2>2. EnclaveShaped'
    BY <2>1 DEF Shape, EnclaveShaped, Results, getOutputFromEnclave, EcallFails, enclaveVars
  <2>3. output_message' \in RoundResult
    <3>1. Nothing \in RoundResult /\ output_message \in RoundResult
      BY DEF Shape, ServerShaped, Nothing, RoundResult, Results
    <3>2. index \in Clients => Encrypt(com_to_client_key[index], output) \in RoundResult
      BY DEF Shape, EnclaveShaped, Encrypt, RoundResult
    <3> QED
      BY <2>1, <3>1, <3>2 DEF OutputMessage
  <2>4. ServerShaped'
    BY <1>2, <1>11, <2>3 DEF Shape, ServerShaped, GetOutput, Goto
  <2> QED
    BY <1>1, <1>4, <1>11, <2>2, <2>4 DEF Shape, GetOutput, Accept
<1>12. CASE WriteOutput
  <2>1. Sock(i) \in Clients /\ output_message \in RoundResult
    BY <1>12, SockShaped DEF Shape, ServerShaped, WriteOutput
  <2>2. ConnectionsShaped'
    BY <1>12, <2>1, ConnectionChanges DEF Shape, WriteOutput, ServerSends
  <2>3. ServerShaped'
    BY <1>2, <1>12 DEF Shape, ServerShaped, WriteOutput, Goto
  <2> QED
    BY <1>1, <1>3, <1>12, <2>2, <2>3 DEF Shape, WriteOutput, Accept
<1>13. CASE FreeCircuit
  <2>1. ServerShaped'
    BY <1>2, <1>13 DEF Shape, ServerShaped, FreeCircuit, Goto
  <2> QED
    BY <1>1, <1>3, <1>4, <1>13, <2>1 DEF Shape, FreeCircuit, Accept
<1>14. CASE ServerKilled
  <2>1. ServerShaped'
    BY <1>2, <1>14 DEF Shape, ServerShaped, ServerKilled, Goto
  <2>2. ConnectionsShaped'
    BY <1>2, <1>14, ConnectionChanges DEF Shape, ServerKilled, ServerEnds
  <2> QED
    BY <1>1, <1>3, <1>14, <2>1, <2>2 DEF Shape, ServerKilled, Accept
<1> QED
  BY <1>5, <1>6, <1>7, <1>8, <1>9, <1>10, <1>11, <1>12, <1>13, <1>14 DEF Server

(* Every variable has its type, whatever the peers do and if the enclave   *)
(* has crashed: a result is what the circuit yields on inputs of rounds    *)
(* that the clients have run, or meaningless (the declarations of          *)
(* client.c, server.c and Enclave.cpp).                                    *)
THEOREM TypeCorrect == Spec => []TypeOK
<1>1. Shape /\ [Next]_vars => Shape'
  <2> SUFFICES ASSUME Shape, [Next]_vars PROVE Shape'
    OBVIOUS
  <2>1. CASE Network \/ UNCHANGED vars
    <3>1. UNCHANGED <<peerVars, serverVars, backlog, enclaveVars, up, down>>
      BY <2>1 DEF Network, ResetArrives, vars, sockets
    <3> QED
      BY <3>1 DEF peerVars, clientVars, serverVars, enclaveVars, Shape, PeersShaped,
         ConnectionsShaped, ServerShaped, EnclaveShaped
  <2> QED
    BY <2>1, ClientKeepsShape, ServerKeepsShape DEF Next
<1>2. Shape => TypeOK
  <2> SUFFICES ASSUME Shape PROVE TypeOK
    OBVIOUS
  <2>1. ASSUME NEW c \in Clients
        PROVE  /\ com_key[c] \in Nat /\ crounds[c] \in 0..Rounds
               /\ \A n \in DOMAIN results[c] : results[c][n] \in Results
    <3>1. results[c] \in Seq(Results)
      BY DEF Shape, PeersShaped
    <3> QED
      BY <3>1 DEF Shape, PeersShaped
  <2>2. Len(client_sock) <= NUM_OF_CLIENTS
    BY ClientsAssumption DEF Shape, ServerShaped, Clients
  <2> QED
    BY <2>1, <2>2 DEF Shape, TypeOK, PeersShaped, ServerShaped, EnclaveShaped
<1> QED
  BY <1>1, <1>2, ShapeInitially, PTL DEF Spec
=============================================================================
