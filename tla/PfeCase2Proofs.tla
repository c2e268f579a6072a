---------------------------- MODULE PfeCase2Proofs ----------------------------
(***************************************************************************)
(* While every peer stays and every input is binary, case 2 gives each     *)
(* client the result of each round on that round's inputs and program, for *)
(* any number of rounds and pieces, whatever the order in which the peers  *)
(* connect and send; and so it implements what Pfe promises.  When peers   *)
(* leave or an input is refused, that is still so of the rounds before.    *)
(*                                                                         *)
(* The invariant goes by r, the round that the server is in: in that       *)
(* round, it says for every place of the server's loop where each message  *)
(* is, what is in it, and what every counter and pointer is.  It holds     *)
(* until the server misses a peer or reads an input that is not binary;    *)
(* from then on only what the clients have, or are about to get, of the    *)
(* rounds before matters (Late).                                           *)
(***************************************************************************)
EXTENDS PfeCase2, FiniteSetTheorems, SequenceTheorems, TLAPS

(* The enclave has room for the inputs of all clients. *)
HasRoom == NUM_OF_CLIENTS <= Room

(* Nobody leaves, all inputs are binary, and the enclave has room for them. *)
Peaceful ==
  /\ \A s \in Scenarios : s.badInputs = {} /\ \A p \in Peers : s.quitAfter[p] > Rounds
  /\ HasRoom

(* All peers take part in round n and in the rounds before it, with binary *)
(* inputs. *)
CompleteTo(n) ==
  /\ \A p \in Peers : n <= QuitAfter(p)
  /\ \A bad \in scenario.badInputs : n < bad[2]

(* Some peer leaves, or some input is not binary. *)
Faulty == scenario.badInputs # {} \/ \E p \in Peers : QuitAfter(p) <= Rounds

Values == [program : Nat, inputs : [Clients -> Nat]] \cup {Junk}

Typed ==
  /\ DOMAIN up = Peers /\ DOMAIN down = Peers /\ DOMAIN open = Peers
  /\ cpc \in [Clients -> {"connect", "send", "recv", "ended"}]
  /\ com_key \in [Clients -> Int] /\ com_to_client_key \in [Clients -> Int]
  /\ crounds \in [Clients -> 0..Rounds] /\ orounds \in 0..Rounds
  /\ results \in [Clients -> Seq(Values)]
  /\ sock_client_map \in [Clients -> Clients \cup {Unknown}]
  /\ freed \in [Clients -> Nat \cup {Junk}]

(* Nothing has gone wrong. *)
Undisturbed ==
  /\ scenario \in Scenarios /\ serving = TRUE
  /\ rstS = [p \in Peers |-> "none"] /\ rstP = [p \in Peers |-> "none"]
  /\ enclave = "running" /\ damaged = FALSE

(* A peer closes its connection when it has done its rounds, and not       *)
(* before. *)
Present ==
  /\ \A c \in Clients :
       /\ open[c] <=> cpc[c] # "ended"
       /\ crounds[c] <= QuitAfter(c)
       /\ cpc[c] = "ended" => crounds[c] = QuitAfter(c)
  /\ open[Owner] <=> opc # "ended"
  /\ orounds <= QuitAfter(Owner)
  /\ opc = "ended" => orounds = QuitAfter(Owner)

(* Every client has at most one connection, and in the end exactly one.    *)
Connected ==
  /\ client_sock \in Seq(Clients) /\ backlog \in Seq(Clients)
  /\ \A m, n \in 1..Len(client_sock) : client_sock[m] = client_sock[n] => m = n
  /\ \A m, n \in 1..Len(backlog) : backlog[m] = backlog[n] => m = n
  /\ \A m \in 1..Len(client_sock) : \A n \in 1..Len(backlog) :
       client_sock[m] # backlog[n]
  /\ \A n \in 1..Len(client_sock) : cpc[client_sock[n]] # "connect"
  /\ \A n \in 1..Len(backlog) : cpc[backlog[n]] # "connect"
  /\ Len(client_sock) = IF spc = "accept" THEN i ELSE NUM_OF_CLIENTS

(* The places of the server's loop, in their order. *)
Before == {"accept", "acceptOwner"}
Program == {"recvProgram", "ackProgram", "passProgram"}
Garbled == {"sendGProgram", "recvGAck", "recvGoutput"}
Results2 == {"getOutput", "writeOutput"}
Inputs == Before \cup {"recvInput"}
Decoded == {"sendSize", "freeEnc"} \cup Results2
Middle == Program \cup {"getGCircuit"} \cup Garbled

Placed ==
  /\ spc \in Inputs \cup Middle \cup Decoded
  /\ spc \in {"accept", "recvInput"} \cup Results2 => i \in Clients
  /\ spc \in {"recvProgram", "ackProgram", "sendGProgram", "recvGAck"} => i \in 1..Chunks

-----------------------------------------------------------------------------
(* The clients. *)

(* The place of a client's connection; has the server read the client's    *)
(* input of this round, taken its result from the enclave, and sent it?    *)
Position(c) == CHOOSE n \in Clients : Sock(n) = c

Got(c) == spc \in Middle \cup Decoded \/ (spc = "recvInput" /\ Position(c) < i)
Taken(c) ==
  \/ spc = "freeEnc"
  \/ spc = "getOutput" /\ Position(c) < i
  \/ spc = "writeOutput" /\ Position(c) <= i
Given(c) == spc = "freeEnc" \/ (spc \in Results2 /\ Position(c) < i)

(* A client that has the result of round n (and may have left), that has   *)
(* sent its input of round n, whose input was read, and whose result is on *)
(* its way. *)
Idle(c, n) ==
  /\ cpc[c] \in {"connect", "send", "ended"} /\ crounds[c] = n /\ Len(results[c]) = n
  /\ up[c] = <<>> /\ down[c] = <<>>

Awaits(c, n) == cpc[c] = "recv" /\ crounds[c] = n /\ Len(results[c]) = n - 1

Input(c, n) == IF BadInput(c, n) THEN Junk ELSE n
InputSent(c, n) == [id |-> c, m |-> Encrypt(c + 2 * n - 2, Input(c, n))]
OnItsWay(c, n) == Awaits(c, n) /\ up[c] = <<InputSent(c, n)>> /\ down[c] = <<>>
Pending(c, n) == Awaits(c, n) /\ up[c] = <<>> /\ down[c] = <<>>
Reply(c, n) == Encrypt(c + 2 * n - 1, AllOf(n))
Answering(c, n) == Awaits(c, n) /\ up[c] = <<>> /\ down[c] = <<Reply(c, n)>>

Between(c, n) == Answering(c, n) \/ Idle(c, n) \/ OnItsWay(c, n + 1)

ClientAt(c, r) ==
  IF Given(c) THEN Between(c, r) ELSE IF Got(c) THEN Pending(c, r) ELSE Between(c, r - 1)

ClientsAt(r) == \A c \in Clients : ClientAt(c, r)

ClientKeys(r) ==
  \A c \in Clients :
    /\ com_key[c] = c + crounds[c] + Len(results[c])
    /\ com_to_client_key[c] = c + 2 * (r - 1) + (IF Got(c) THEN 1 ELSE 0)
                                + (IF Taken(c) THEN 1 ELSE 0)

(* The server knows who is at the end of the connections it has read.      *)
Identified ==
  \A n \in Clients :
    spc \in Middle \cup Decoded \/ (spc = "recvInput" /\ n < i)
      => sock_client_map[n] = Sock(n)

-----------------------------------------------------------------------------
(* The program owner, in its round n. *)

Chan(u, d) == up[Owner] = u /\ down[Owner] = d
At(pc, n, k) == opc = pc /\ orounds = n /\ oi = k /\ ocom_key = 2 * n - 1
Done(pc, n) == opc = pc /\ orounds = n /\ ocom_key = 2 * n

Plain(n) == Encrypt(2 * n - 2, n)
Secret(n) == Encrypt(2 * n - 1, AllOf(n))
Pieces(m, k) == [j \in 1..k |-> Piece(m, j)]

(* Before round n, until the server has its first piece. *)
OwnerBefore(n) ==
  \/ Done("connect", n - 1) /\ Chan(<<>>, <<>>)
  \/ Done("prepare", n - 1) /\ Chan(<<>>, <<>>)
  \/ Done("ended", n - 1) /\ Chan(<<>>, <<>>)
  \/ Done("recvSize", n - 1) /\ Chan(<<>>, <<"size">>)
  \/ At("sendPiece", n, 1) /\ Chan(<<>>, <<>>)
  \/ At("recvAck", n, 1) /\ Chan(<<Piece(Plain(n), 1)>>, <<>>)

(* The server is about to read piece k. *)
OwnerSends(n, k) ==
  \/ k = 1 /\ OwnerBefore(n)
  \/ k > 1 /\ At("recvAck", n, k - 1) /\ Chan(<<>>, <<"ack">>)
  \/ k > 1 /\ At("sendPiece", n, k) /\ Chan(<<>>, <<>>)
  \/ k > 1 /\ At("recvAck", n, k) /\ Chan(<<Piece(Plain(n), k)>>, <<>>)

OwnerWaits(n, k) == At("recvAck", n, k) /\ Chan(<<>>, <<>>)

(* The owner is about to receive piece k, which may be under way (d). *)
OwnerExpects(n, k, d) ==
  At("recvPiece", n, k) /\ program = Pieces(Secret(n), k - 1) /\ Chan(<<>>, d)

OwnerReady(n, k) ==
  \/ k = 1 /\ At("recvAck", n, Chunks) /\ Chan(<<>>, <<"ack">>)
  \/ OwnerExpects(n, k, <<>>)

OwnerEvaluates(n, u) ==
  \/ /\ opc = "evaluate" /\ orounds = n /\ ocom_key = 2 * n - 1
     /\ program = Pieces(Secret(n), Chunks) /\ Chan(u, <<>>)
  \/ Done("sendGoutput", n) /\ goutput = AllOf(n) /\ Chan(u, <<>>)
  \/ Done("recvSize", n) /\ Chan(Append(u, AllOf(n)), <<>>)

(* The server is about to read that piece k has arrived. *)
OwnerGets(n, k) ==
  \/ k = 1 /\ At("recvAck", n, Chunks) /\ Chan(<<>>, <<"ack", Piece(Secret(n), 1)>>)
  \/ OwnerExpects(n, k, <<Piece(Secret(n), k)>>)
  \/ At("sendAck", n, k) /\ program = Pieces(Secret(n), k) /\ Chan(<<>>, <<>>)
  \/ /\ k < Chunks /\ At("recvPiece", n, k + 1)
     /\ program = Pieces(Secret(n), k) /\ Chan(<<"ack">>, <<>>)
  \/ k = Chunks /\ OwnerEvaluates(n, <<"ack">>)

OwnerAt(r) ==
  /\ spc \in Inputs => OwnerBefore(r)
  /\ spc = "recvProgram" => OwnerSends(r, i)
  /\ spc = "ackProgram" => OwnerWaits(r, i)
  /\ spc \in {"passProgram", "getGCircuit"} => OwnerReady(r, 1)
  /\ spc = "sendGProgram" => OwnerReady(r, i)
  /\ spc = "recvGAck" => OwnerGets(r, i)
  /\ spc = "recvGoutput" => OwnerEvaluates(r, <<>>)
  /\ spc = "sendSize" => Done("recvSize", r) /\ Chan(<<>>, <<>>)
  /\ spc \in Results2 \cup {"freeEnc"} => OwnerBefore(r + 1)

-----------------------------------------------------------------------------
(* The enclave, and the server's buffers. *)

ProgramKey(r) ==
  com_key_program = CASE spc \in Inputs \cup Program -> 2 * r - 2
                      [] spc = "getGCircuit" -> 2 * r - 1
                      [] OTHER -> 2 * r

CircuitAt(r) ==
  /\ spc \in Inputs \cup Program => C.gates # "live" /\ C.inpSizes # "live"
  /\ spc = "getGCircuit" => C = [program |-> r, gates |-> "live", inpSizes |-> "live"]
  /\ spc \in Garbled \cup Decoded =>
       C = [program |-> r, gates |-> "dangling", inpSizes |-> "live"]

InputsAt(r) ==
  /\ spc \in Before \cup Decoded \/ (spc = "recvInput" /\ i = 0) => datainput = NULL
  /\ spc = "recvInput" /\ i > 0 =>
       /\ datainput \in [Clients -> Nat \cup {Junk}]
       /\ \A c \in Clients : Got(c) => datainput[c] = r
  /\ spc \in Middle => datainput = [c \in Clients |-> r]

ResultAt(r) ==
  /\ spc \in Garbled => outGarblings = [ptr |-> "live", v |-> AllOf(r)]
  /\ spc \notin Garbled => outGarblings.ptr # "live"
  /\ spc \in Decoded => output = [ptr |-> "live", v |-> AllOf(r)]
  /\ spc \notin Decoded =>
       /\ output.ptr # "live"
       /\ output.v = IF r = 1 THEN Junk ELSE AllOf(r - 1)

EnclaveAt(r) == ProgramKey(r) /\ CircuitAt(r) /\ InputsAt(r) /\ ResultAt(r)

BuffersAt(r) ==
  /\ spc \in Inputs => buffer = <<>>
  /\ spc = "recvProgram" => buffer = Pieces(Plain(r), i - 1)
  /\ spc = "ackProgram" => buffer = Pieces(Plain(r), i)
  /\ spc = "passProgram" => buffer = Pieces(Plain(r), Chunks)
  /\ spc \in {"sendGProgram", "recvGAck"} => prog = Secret(r)
  /\ spc = "writeOutput" => reply = Reply(Sock(i), r)

-----------------------------------------------------------------------------

(* Everybody has taken part in the rounds before, and has a binary input   *)
(* in this one as far as the server has read; it goes on to the results    *)
(* with the whole of it. *)
CompleteAt(r) ==
  /\ CompleteTo(r - 1)
  /\ \A c \in Clients : Got(c) => ~BadInput(c, r)
  /\ spc \in Inputs \/ (spc = "recvProgram" /\ i = 1) \/ CompleteTo(r)

InRound(r) ==
  /\ ClientsAt(r) /\ ClientKeys(r) /\ OwnerAt(r) /\ EnclaveAt(r) /\ BuffersAt(r)
  /\ CompleteAt(r)

IInv ==
  /\ Typed /\ Undisturbed /\ Present /\ Connected /\ Placed /\ Identified
  /\ RoundIntegrity
  /\ \E r \in Nat \ {0} : InRound(r)

(* Later: round q was the last one that is complete, and every client has  *)
(* its result, or finds it first on its connection. *)
NextIsReply(c, q) ==
  Awaits(c, q) /\ down[c] # <<>> /\ Head(down[c]) = Reply(c, q)

LateAt(c, q) ==
  /\ com_key[c] = c + crounds[c] + Len(results[c])
  /\ \A n \in DOMAIN results[c] : n <= q => results[c][n] = AllOf(n)
  /\ Len(results[c]) >= q \/ NextIsReply(c, q)

Listed(s) == \E S : s \in Seq(S)

LateTyped ==
  /\ DOMAIN cpc = Clients /\ DOMAIN results = Clients /\ DOMAIN down = Peers
  /\ com_key \in [Clients -> Int] /\ crounds \in [Clients -> Nat]
  /\ \A c \in Clients : Listed(results[c]) /\ Listed(down[c])

Late ==
  /\ Faulty /\ LateTyped
  /\ \E q \in Nat : ~CompleteTo(q + 1) /\ \A c \in Clients : LateAt(c, q)

-----------------------------------------------------------------------------
(* Sequences as short as those of the connections. *)
LEMMA AppendSecond == ASSUME NEW x, NEW y PROVE Append(<<x>>, y) = <<x, y>>
<1> DEFINE s == Append(<<x>>, y)
           t == <<x, y>>
<1>1. <<x>> \in Seq({x, y}) /\ Len(<<x>>) = 1
  OBVIOUS
<1>2. s \in Seq({x, y}) /\ Len(s) = 2 /\ s[1] = x /\ s[2] = y
  BY <1>1
<1>3. t \in Seq({x, y}) /\ Len(t) = 2 /\ t[1] = x /\ t[2] = y
  OBVIOUS
<1>4. \A n \in 1..Len(s) : s[n] = t[n]
  BY <1>2, <1>3
<1> QED
  BY <1>2, <1>3, <1>4, SeqEqual

LEMMA Short ==
  ASSUME NEW x, NEW y
  PROVE  /\ Append(<<>>, x) = <<x>> /\ Append(<<x>>, y) = <<x, y>>
         /\ Head(<<x>>) = x /\ Tail(<<x>>) = <<>> /\ <<x>> # <<>>
         /\ Head(<<x, y>>) = x /\ Tail(<<x, y>>) = <<y>> /\ <<x, y>> # <<>>
<1>1. Append(<<>>, x) = <<x>> /\ Head(<<x>>) = x /\ Tail(<<x>>) = <<>> /\ <<x>> # <<>>
  OBVIOUS
<1>2. Head(<<x, y>>) = x /\ Tail(<<x, y>>) = <<y>> /\ <<x, y>> # <<>>
  OBVIOUS
<1> QED
  BY <1>1, <1>2, AppendSecond

(* A sequence without repetitions that is as long as there are clients     *)
(* holds all of them.                                                      *)
LEMMA AllConnected ==
  ASSUME NEW s \in Seq(Clients), Len(s) = NUM_OF_CLIENTS,
         \A m, n \in 1..Len(s) : s[m] = s[n] => m = n,
         NEW c \in Clients
  PROVE  \E n \in Clients : s[n + 1] = c
<1> DEFINE f == [n \in Clients |-> s[n + 1]]
           R == {f[n] : n \in Clients}
<1>1. NUM_OF_CLIENTS \in Nat \ {0}
  BY ClientsAssumption
<1>2. \A n \in Clients : n + 1 \in 1..Len(s) /\ s[n + 1] \in Clients
  BY <1>1 DEF Clients
<1>3. f \in Bijection(Clients, R)
  <2>1. \A m, n \in Clients : f[m] = f[n] => m = n
    BY <1>1, <1>2 DEF Clients
  <2> QED
    BY <2>1 DEF Bijection, Injection, Surjection, IsInjective
<1>4. IsFiniteSet(Clients)
  BY <1>1, FS_Interval DEF Clients
<1>5. Cardinality(R) = Cardinality(Clients)
  BY <1>3, <1>4, FS_Bijection DEF ExistsBijection
<1>6. R \in SUBSET Clients
  BY <1>2
<1>7. R = Clients
  BY <1>4, <1>5, <1>6, FS_Subset
<1> QED
  BY <1>7

LEMMA PositionKept ==
  ASSUME UNCHANGED client_sock, NEW c
  PROVE  Position(c)' = Position(c)
BY DEF Position, Sock

LEMMA Positions ==
  ASSUME Connected, spc # "accept"
  PROVE  /\ \A c \in Clients : Position(c) \in Clients /\ Sock(Position(c)) = c
         /\ \A n \in Clients : Sock(n) \in Clients /\ Position(Sock(n)) = n
<1>1. /\ client_sock \in Seq(Clients) /\ Len(client_sock) = NUM_OF_CLIENTS
      /\ \A m, n \in 1..Len(client_sock) : client_sock[m] = client_sock[n] => m = n
  BY DEF Connected
<1>2. ASSUME NEW c \in Clients PROVE Position(c) \in Clients /\ Sock(Position(c)) = c
  <2>1. \E n \in Clients : Sock(n) = c
    BY <1>1, AllConnected DEF Sock
  <2> QED
    BY <2>1 DEF Position
<1>3. ASSUME NEW n \in Clients PROVE n + 1 \in 1..Len(client_sock) /\ Sock(n) \in Clients
  BY <1>1, ClientsAssumption DEF Clients, Sock
<1>4. ASSUME NEW n \in Clients PROVE Position(Sock(n)) = n
  <2> DEFINE m == Position(Sock(n))
  <2>1. m \in Clients /\ Sock(m) = Sock(n)
    BY <1>2, <1>3
  <2>2. m + 1 = n + 1
    BY <1>1, <1>3, <2>1 DEF Sock
  <2>3. m \in Int /\ n \in Int
    BY <2>1, ClientsAssumption DEF Clients
  <2> QED
    BY <2>2, <2>3
<1> QED
  BY <1>2, <1>3, <1>4

(* What a client's place says is kept by a step that moves none of it.     *)
LEMMA ClientKept ==
  ASSUME NEW c, NEW r, ClientAt(c, r), UNCHANGED scenario,
         cpc'[c] = cpc[c], crounds'[c] = crounds[c], results'[c] = results[c],
         up'[c] = up[c], down'[c] = down[c],
         Got(c)' <=> Got(c), Given(c)' <=> Given(c)
  PROVE  ClientAt(c, r)'
BY DEF ClientAt, Between, Idle, OnItsWay, Pending, Answering, Awaits, InputSent, Input,
       BadInput, Reply

(* What the scenarios say. *)
LEMMA ScenarioSays ==
  ASSUME scenario \in Scenarios
  PROVE  /\ \A p \in Peers : QuitAfter(p) \in Nat
         /\ \A bad \in scenario.badInputs : bad[2] \in 1..Rounds
         /\ \A bad \in scenario.badInputs : bad[1] \in Clients /\ BadInput(bad[1], bad[2])
BY ScenariosAssumption DEF QuitAfter, BadInput

LEMMA CompleteKept ==
  ASSUME NEW r, CompleteAt(r), UNCHANGED scenario,
         \A c \in Clients : Got(c)' => Got(c),
         spc' \in Inputs \/ (spc' = "recvProgram" /\ i' = 1) \/ CompleteTo(r)
  PROVE  CompleteAt(r)'
<1>1. \A n : CompleteTo(n)' <=> CompleteTo(n)
  BY DEF CompleteTo, QuitAfter
<1>2. \A c, n : BadInput(c, n)' <=> BadInput(c, n)
  BY DEF BadInput
<1> QED
  BY <1>1, <1>2 DEF CompleteAt

LEMMA PresentKept ==
  ASSUME Present, UNCHANGED <<scenario, cpc, crounds, opc, orounds, open>>
  PROVE  Present'
BY DEF Present, QuitAfter

LEMMA Peace ==
  ASSUME Peaceful, Undisturbed
  PROVE  /\ \A p \in Peers : QuitAfter(p) \in Nat /\ QuitAfter(p) > Rounds
         /\ \A c, n : ~BadInput(c, n)
BY ScenarioSays DEF Peaceful, Undisturbed, QuitAfter, BadInput

LEMMA Initially == Init => IInv
<1> SUFFICES ASSUME Init PROVE IInv
  OBVIOUS
<1> USE ClientsAssumption, PeersAssumption, RoundsAssumption
        DEF Init, DataOwnerInit, SocketsInit, EnclaveInit
<1>1. Typed
  BY DEF Typed
<1>2. Undisturbed /\ Present
  BY ScenarioSays DEF Undisturbed, Present
<1>3. Connected
  BY DEF Connected
<1>4. Placed
  BY DEF Placed, Inputs, Before, Clients
<1>5. Identified /\ RoundIntegrity
  BY DEF Identified, Middle, Decoded, Results2, Program, Garbled, RoundIntegrity
<1>6. ClientsAt(1) /\ ClientKeys(1)
  <2>1. ASSUME NEW c \in Clients PROVE ~Got(c) /\ ~Given(c) /\ ~Taken(c)
    BY DEF Got, Given, Taken, Middle, Decoded, Results2, Program, Garbled
  <2>2. ASSUME NEW c \in Clients PROVE Idle(c, 0)
    BY DEF Idle
  <2> QED
    BY <2>1, <2>2 DEF ClientsAt, ClientAt, Between, ClientKeys, Clients
<1>7. OwnerAt(1)
  BY DEF OwnerAt, OwnerBefore, Done, Chan, Results2
<1>9. CompleteAt(1)
  <2>1. CompleteTo(0)
    BY ScenarioSays DEF CompleteTo
  <2>2. \A c : ~Got(c)
    BY DEF Got, Middle, Decoded, Results2, Program, Garbled
  <2> QED
    BY <2>1, <2>2 DEF CompleteAt, Inputs, Before
<1>8. EnclaveAt(1) /\ BuffersAt(1)
  BY DEF EnclaveAt, ProgramKey, CircuitAt, InputsAt, ResultAt, BuffersAt, Inputs, Before,
         Middle, Garbled, Decoded, Results2, Program
<1> QED
  BY <1>1, <1>2, <1>3, <1>4, <1>5, <1>6, <1>7, <1>8, <1>9 DEF IInv, InRound

-----------------------------------------------------------------------------
(* The clients. *)

LEMMA OwnerAtKept ==
  ASSUME NEW r, OwnerAt(r), UNCHANGED <<ownerVars, spc, i>>,
         up'[Owner] = up[Owner], down'[Owner] = down[Owner]
  PROVE  OwnerAt(r)'
BY DEF OwnerAt, OwnerBefore, OwnerSends, OwnerWaits, OwnerReady, OwnerExpects, OwnerGets,
       OwnerEvaluates, At, Done, Chan, ownerVars

LEMMA EnclaveAtKept ==
  ASSUME NEW r, EnclaveAt(r), UNCHANGED <<spc, i, client_sock, enclaveVars>>
  PROVE  EnclaveAt(r)'
<1>1. \A c : Got(c)' <=> Got(c)
  BY PositionKept DEF Got
<1> QED
  BY <1>1 DEF EnclaveAt, ProgramKey, CircuitAt, InputsAt, ResultAt, enclaveVars, state

(* A step of client c leaves the other clients, the owner, the server and  *)
(* the enclave where they were.                                            *)
LEMMA ClientStepKeeps ==
  ASSUME NEW r \in Nat \ {0}, InRound(r), Placed, Identified, NEW c \in Clients,
         UNCHANGED <<scenario, ownerVars, serverVars, enclaveVars>>,
         up'[Owner] = up[Owner], down'[Owner] = down[Owner],
         \A d \in Clients : d # c =>
           /\ cpc'[d] = cpc[d] /\ com_key'[d] = com_key[d] /\ crounds'[d] = crounds[d]
           /\ results'[d] = results[d] /\ up'[d] = up[d] /\ down'[d] = down[d],
         (Got(c)' <=> Got(c)) /\ (Given(c)' <=> Given(c)) => ClientAt(c, r)',
         com_key'[c] = c + crounds'[c] + Len(results'[c]),
         Typed', Undisturbed', Present', Connected', RoundIntegrity'
  PROVE  IInv'
<1>0. UNCHANGED <<spc, i, client_sock>>
  BY DEF serverVars
<1>1. \A d : (Got(d)' <=> Got(d)) /\ (Given(d)' <=> Given(d)) /\ (Taken(d)' <=> Taken(d))
  BY <1>0, PositionKept DEF Got, Given, Taken
<1>2. ClientsAt(r)'
  BY <1>1, ClientKept DEF ClientsAt, InRound
<1>3. ClientKeys(r)'
  <2>1. com_to_client_key' = com_to_client_key
    BY DEF enclaveVars, state
  <2>2. ASSUME NEW d \in Clients
        PROVE com_key'[d] = d + crounds'[d] + Len(results'[d])
    BY DEF ClientKeys, InRound
  <2> QED
    BY <1>1, <2>1, <2>2 DEF ClientKeys, InRound
<1>4. OwnerAt(r)' /\ EnclaveAt(r)'
  BY <1>0, OwnerAtKept, EnclaveAtKept DEF InRound
<1>5. BuffersAt(r)'
  BY DEF BuffersAt, InRound, serverVars, Sock
<1>6. Placed' /\ Identified'
  BY <1>0 DEF Placed, Identified, Sock, serverVars
<1>7. CompleteAt(r)'
  BY <1>0, <1>1, CompleteKept DEF InRound, CompleteAt
<1> QED
  BY <1>2, <1>3, <1>4, <1>5, <1>6, <1>7 DEF IInv, InRound

(* A client that is not waiting for the server has the result of round n,  *)
(* and where a step takes it from there is again a place in the round.     *)
LEMMA ClientPlace ==
  ASSUME NEW r \in Nat \ {0}, NEW c \in Clients, ClientAt(c, r)
  PROVE  \E n \in Nat :
           /\ Between(c, n) \/ Pending(c, n + 1)
           /\ (Got(c)' <=> Got(c)) /\ (Given(c)' <=> Given(c)) /\ ~Pending(c, n + 1)
                /\ Between(c, n)' => ClientAt(c, r)'
<1>1. CASE Given(c)
  BY <1>1 DEF ClientAt
<1>2. CASE ~Given(c)
  <2>1. r - 1 \in Nat /\ (r - 1) + 1 = r
    OBVIOUS
  <2> QED
    BY <1>2, <2>1 DEF ClientAt
<1> QED
  BY <1>1, <1>2

(* A client connects once. *)
LEMMA ConnectConnects ==
  ASSUME Connected, cpc = [d \in Clients |-> cpc[d]], NEW c \in Clients, Connect(c),
         UNCHANGED serverVars
  PROVE  Connected'
<1>1. cpc[c] = "connect" /\ backlog' = Append(backlog, c)
  BY DEF Connect
<1>2. cpc'[c] = "send" /\ \A d \in Clients : d # c => cpc'[d] = cpc[d]
  BY DEF Connect
<1>3. \A n \in 1..Len(client_sock) : client_sock[n] # c
  BY <1>1 DEF Connected
<1>4. \A n \in 1..Len(backlog) : backlog[n] # c
  BY <1>1 DEF Connected
<1>5. /\ Len(backlog') = Len(backlog) + 1 /\ backlog' \in Seq(Clients)
      /\ \A n \in 1..Len(backlog) : backlog'[n] = backlog[n]
      /\ backlog'[Len(backlog) + 1] = c
  BY <1>1 DEF Connected
<1>6. \A d \in Clients : cpc[d] # "connect" => cpc'[d] # "connect"
  BY <1>2
<1>7. /\ \A n \in 1..Len(client_sock) : client_sock[n] \in Clients
      /\ \A n \in 1..Len(backlog) : backlog[n] \in Clients
  BY DEF Connected
<1>8. UNCHANGED <<client_sock, spc, i>>
  BY DEF serverVars
<1>9. Len(backlog) \in Nat
  BY DEF Connected
<1>10. \A n \in 1..Len(backlog') : backlog'[n] \in Clients /\ cpc'[backlog'[n]] # "connect"
  BY <1>2, <1>5, <1>6, <1>7, <1>9 DEF Connected
<1>11. /\ \A m, n \in 1..Len(backlog') : backlog'[m] = backlog'[n] => m = n
      /\ \A m \in 1..Len(client_sock) : \A n \in 1..Len(backlog') :
           client_sock[m] # backlog'[n]
  <2>1. \A n \in 1..Len(backlog') :
          \/ n \in 1..Len(backlog) /\ backlog'[n] = backlog[n]
          \/ n = Len(backlog) + 1 /\ backlog'[n] = c
    BY <1>5, <1>9
  <2>2. \A m, n \in 1..Len(backlog') : backlog'[m] = backlog'[n] => m = n
    BY <1>4, <2>1 DEF Connected
  <2> QED
    BY <1>3, <2>1, <2>2 DEF Connected
<1> QED
  BY <1>5, <1>6, <1>7, <1>8, <1>10, <1>11 DEF Connected

LEMMA ConnectKeeps ==
  ASSUME IInv, NEW c \in Clients, Connect(c),
         UNCHANGED <<ownerVars, serverVars, enclaveVars>>
  PROVE  IInv'
<1> USE DEF IInv
<1>1. /\ cpc[c] = "connect" /\ cpc' = [cpc EXCEPT ![c] = "send"]
      /\ backlog' = Append(backlog, c)
      /\ UNCHANGED <<scenario, com_key, crounds, results, sockets>>
  BY DEF Connect
<1>2. PICK r \in Nat \ {0} : InRound(r)
  OBVIOUS
<1>3. cpc'[c] = "send" /\ \A d \in Clients : d # c => cpc'[d] = cpc[d]
  BY <1>1 DEF Typed
<1>4. Typed' /\ Undisturbed' /\ RoundIntegrity'
  BY <1>1, <1>3 DEF Typed, Undisturbed, RoundIntegrity, serverVars, enclaveVars, state,
                    ownerVars, sockets
<1>8. Present'
  BY <1>1, <1>3 DEF Present, QuitAfter, ownerVars, sockets
<1>5. Connected'
  BY ConnectConnects DEF Typed
<1>6. (Got(c)' <=> Got(c)) /\ (Given(c)' <=> Given(c)) => ClientAt(c, r)'
  <2>1. PICK n \in Nat :
           /\ Between(c, n) \/ Pending(c, n + 1)
           /\ (Got(c)' <=> Got(c)) /\ (Given(c)' <=> Given(c)) /\ ~Pending(c, n + 1)
                /\ Between(c, n)' => ClientAt(c, r)'
    BY <1>2, ClientPlace DEF InRound, ClientsAt
  <2>2. Idle(c, n) /\ ~Pending(c, n + 1)
    BY <1>1, <2>1 DEF Between, Answering, OnItsWay, Pending, Awaits
  <2>3. Idle(c, n)'
    BY <1>1, <1>3, <2>2 DEF Idle, sockets
  <2> QED
    BY <2>1, <2>2, <2>3 DEF Between
<1>7. com_key'[c] = c + crounds'[c] + Len(results'[c])
  BY <1>1, <1>2 DEF InRound, ClientKeys
<1> QED
  BY <1>1, <1>2, <1>3, <1>4, <1>5, <1>6, <1>7, <1>8, ClientStepKeeps DEF sockets

LEMMA ConnectedKept ==
  ASSUME Connected, UNCHANGED <<client_sock, backlog, spc, i>>,
         \A c \in Clients : cpc[c] # "connect" => cpc'[c] # "connect"
  PROVE  Connected'
<1>1. /\ \A n \in 1..Len(client_sock) : client_sock[n] \in Clients
      /\ \A n \in 1..Len(backlog) : backlog[n] \in Clients
  BY DEF Connected
<1> QED
  BY <1>1 DEF Connected

LEMMA SendInputKeeps ==
  ASSUME IInv, NEW c \in Clients, SendInput(c),
         UNCHANGED <<ownerVars, serverVars, enclaveVars>>
  PROVE  IInv'
<1> USE PeersAssumption, RoundsAssumption DEF IInv
<1> DEFINE r0 == crounds[c] + 1
           msg == [id |-> c, m |-> Encrypt(com_key[c], Input(c, r0))]
<1>1. /\ cpc[c] = "send" /\ cpc' = [cpc EXCEPT ![c] = "recv"]
      /\ com_key' = [com_key EXCEPT ![c] = @ + 1]
      /\ crounds' = [crounds EXCEPT ![c] = @ + 1] /\ crounds[c] < Rounds
      /\ crounds[c] < QuitAfter(c)
      /\ UNCHANGED <<scenario, results, backlog>>
  BY DEF SendInput
<1>2. /\ up' = [up EXCEPT ![c] = Append(@, msg)]
      /\ UNCHANGED <<down, open, serving, rstS, rstP>>
  BY DEF SendInput, PeerSends, Undisturbed, Input
<1>3. /\ cpc'[c] = "recv" /\ crounds'[c] = r0 /\ com_key'[c] = com_key[c] + 1
      /\ up'[c] = Append(up[c], msg) /\ up'[Owner] = up[Owner]
      /\ \A d \in Clients : d # c =>
           /\ cpc'[d] = cpc[d] /\ com_key'[d] = com_key[d] /\ crounds'[d] = crounds[d]
           /\ up'[d] = up[d]
  BY <1>1, <1>2 DEF Typed
<1>4. PICK r \in Nat \ {0} : InRound(r)
  OBVIOUS
<1>5. Typed'
  <2>1. crounds'[c] \in 0..Rounds /\ com_key'[c] \in Int
    BY <1>1, <1>3 DEF Typed
  <2> QED
    BY <1>1, <1>2, <2>1 DEF Typed, ownerVars, serverVars, enclaveVars, state
<1>6. Undisturbed' /\ RoundIntegrity'
  BY <1>1, <1>2 DEF Undisturbed, RoundIntegrity, enclaveVars, state
<1>15. Present'
  <2>1. QuitAfter(c) \in Nat /\ crounds[c] \in Nat
    BY ScenarioSays DEF Undisturbed, Typed
  <2>2. crounds'[c] <= QuitAfter(c)
    BY <1>1, <1>3, <2>1
  <2> QED
    BY <1>1, <1>2, <1>3, <2>2 DEF Present, QuitAfter, ownerVars
<1>7. Connected'
  BY <1>1, <1>3, ConnectedKept DEF serverVars
<1>8. PICK n \in Nat :
        /\ Between(c, n) \/ Pending(c, n + 1)
        /\ (Got(c)' <=> Got(c)) /\ (Given(c)' <=> Given(c)) /\ ~Pending(c, n + 1)
             /\ Between(c, n)' => ClientAt(c, r)'
  BY <1>4, ClientPlace DEF InRound, ClientsAt
<1>9. Idle(c, n) /\ ~Pending(c, n + 1)
  BY <1>1, <1>8 DEF Between, Answering, OnItsWay, Pending, Awaits
<1>10. com_key[c] = c + crounds[c] + Len(results[c])
  BY <1>4 DEF InRound, ClientKeys
<1>11. c \in Int
  BY ClientsAssumption DEF Clients
<1>12. OnItsWay(c, n + 1)'
  <2>1. crounds'[c] = n + 1 /\ Len(results'[c]) = (n + 1) - 1
    BY <1>1, <1>3, <1>9 DEF Idle
  <2>2. com_key[c] = c + 2 * (n + 1) - 2
    BY <1>9, <1>10, <1>11 DEF Idle
  <2>3. msg = InputSent(c, n + 1)
    BY <1>9, <2>2 DEF Idle, InputSent
  <2>5. InputSent(c, n + 1)' = InputSent(c, n + 1)
    BY <1>1 DEF InputSent, Input, BadInput
  <2>4. up'[c] = <<InputSent(c, n + 1)>>
    BY <1>3, <1>9, <2>3 DEF Idle
  <2> QED
    BY <1>2, <1>3, <1>9, <2>1, <2>4, <2>5 DEF OnItsWay, Awaits, Idle
<1>13. (Got(c)' <=> Got(c)) /\ (Given(c)' <=> Given(c)) => ClientAt(c, r)'
  BY <1>8, <1>9, <1>12 DEF Between
<1>14. com_key'[c] = c + crounds'[c] + Len(results'[c])
  <2>1. crounds[c] \in Int /\ Len(results[c]) \in Int
    BY DEF Typed
  <2> QED
    BY <1>1, <1>3, <1>10, <1>11, <2>1
<1> QED
  BY <1>1, <1>2, <1>3, <1>4, <1>5, <1>6, <1>7, <1>13, <1>14, <1>15, ClientStepKeeps

LEMMA RecvResultKeeps ==
  ASSUME IInv, NEW c \in Clients, RecvResult(c),
         UNCHANGED <<ownerVars, serverVars, enclaveVars>>
  PROVE  IInv'
<1> USE PeersAssumption, RoundsAssumption DEF IInv
<1> DEFINE v == Decrypt(com_key[c], Head(down[c]))
<1>1. /\ cpc[c] = "recv" /\ cpc' = [cpc EXCEPT ![c] = "send"]
      /\ com_key' = [com_key EXCEPT ![c] = @ + 1]
      /\ UNCHANGED <<scenario, crounds, backlog>>
  BY DEF RecvResult
<1>2. /\ down[c] # <<>> /\ down' = [down EXCEPT ![c] = Tail(@)]
      /\ results' = [results EXCEPT ![c] = Append(@, v)]
      /\ UNCHANGED <<up, open, serving, rstS, rstP>>
  BY DEF RecvResult, PeerGets, PeerRecvEnds, Undisturbed
<1>3. PICK r \in Nat \ {0} : InRound(r)
  OBVIOUS
<1>4. PICK n \in Nat :
        /\ Between(c, n) \/ Pending(c, n + 1)
        /\ (Got(c)' <=> Got(c)) /\ (Given(c)' <=> Given(c)) /\ ~Pending(c, n + 1)
             /\ Between(c, n)' => ClientAt(c, r)'
  BY <1>3, ClientPlace DEF InRound, ClientsAt
<1>5. Answering(c, n) /\ ~Pending(c, n + 1)
  BY <1>1, <1>2, <1>4 DEF Between, Idle, OnItsWay, Pending
<1>6. com_key[c] = c + crounds[c] + Len(results[c])
  BY <1>3 DEF InRound, ClientKeys
<1>7. c \in Int /\ results[c] \in Seq(Values)
  BY ClientsAssumption DEF Clients, Typed
<1>8. com_key[c] = c + 2 * n - 1 /\ Len(results[c]) = n - 1 /\ n \in Nat \ {0}
  BY <1>5, <1>6, <1>7 DEF Answering, Awaits
<1>9. v = AllOf(n) /\ down'[c] = <<>>
  <2>1. down[c] = <<Reply(c, n)>> /\ DOMAIN down = Peers
    BY <1>5 DEF Answering, Typed
  <2>2. Head(down[c]) = Reply(c, n) /\ Tail(down[c]) = <<>>
    BY <2>1
  <2> QED
    BY <1>2, <1>8, <2>1, <2>2 DEF Reply, Encrypt, Decrypt
<1>10. AllOf(n) \in Values
  BY DEF AllOf, Result, Values
<1>11. /\ results'[c] = Append(results[c], AllOf(n)) /\ results'[c] \in Seq(Values)
       /\ Len(results'[c]) = n /\ DOMAIN results'[c] = 1..n
       /\ results'[c][n] = AllOf(n)
       /\ \A m \in 1..(n - 1) : results'[c][m] = results[c][m]
       /\ DOMAIN results[c] = 1..(n - 1)
  <2>1. results'[c] = Append(results[c], AllOf(n))
    BY <1>2, <1>9 DEF Typed
  <2> QED
    BY <1>7, <1>8, <1>10, <2>1
<1>12. /\ cpc'[c] = "send" /\ com_key'[c] = com_key[c] + 1
       /\ down'[Owner] = down[Owner]
       /\ \A d \in Clients : d # c =>
            /\ cpc'[d] = cpc[d] /\ com_key'[d] = com_key[d] /\ results'[d] = results[d]
            /\ down'[d] = down[d]
  BY <1>1, <1>2 DEF Typed
<1>13. Typed'
  <2>1. com_key'[c] \in Int /\ results' \in [Clients -> Seq(Values)]
    BY <1>2, <1>11, <1>12, <1>9 DEF Typed
  <2> QED
    BY <1>1, <1>2, <2>1 DEF Typed, ownerVars, serverVars, enclaveVars, state
<1>14. Undisturbed' /\ Present'
  BY <1>1, <1>2, <1>12 DEF Undisturbed, Present, QuitAfter, ownerVars, enclaveVars, state
<1>15. RoundIntegrity'
  <2> SUFFICES ASSUME NEW d \in Clients, NEW m \in DOMAIN results'[d]
               PROVE  results'[d][m] = AllOf(m)
    BY DEF RoundIntegrity, AllOf, Result
  <2>1. CASE d # c
    BY <1>12, <2>1 DEF RoundIntegrity
  <2>2. CASE d = c /\ m = n
    BY <1>11, <2>2
  <2>3. CASE d = c /\ m # n
    <3>1. m \in 1..(n - 1)
      BY <1>8, <1>11, <2>3
    <3> QED
      BY <1>11, <2>3, <3>1 DEF RoundIntegrity
  <2> QED
    BY <2>1, <2>2, <2>3
<1>16. Connected'
  BY <1>1, <1>12, ConnectedKept DEF serverVars
<1>17. Idle(c, n)'
  BY <1>1, <1>2, <1>5, <1>9, <1>11, <1>12 DEF Idle, Answering, Awaits
<1>18. (Got(c)' <=> Got(c)) /\ (Given(c)' <=> Given(c)) => ClientAt(c, r)'
  BY <1>4, <1>5, <1>17 DEF Between
<1>19. com_key'[c] = c + crounds'[c] + Len(results'[c])
  BY <1>1, <1>5, <1>7, <1>8, <1>11, <1>12 DEF Answering, Awaits
<1> QED
  BY <1>1, <1>2, <1>3, <1>12, <1>13, <1>14, <1>15, <1>16, <1>18, <1>19, ClientStepKeeps

(* A client leaves after its last result. *)
LEMMA LeaveKeeps ==
  ASSUME IInv, NEW c \in Clients, Leave(c),
         UNCHANGED <<ownerVars, serverVars, enclaveVars>>
  PROVE  IInv'
<1> USE PeersAssumption, RoundsAssumption DEF IInv
<1>1. /\ cpc[c] = "send" /\ crounds[c] = QuitAfter(c) /\ cpc' = [cpc EXCEPT ![c] = "ended"]
      /\ UNCHANGED <<scenario, com_key, crounds, results, backlog>>
  BY DEF Leave, PeerRecvFails, Undisturbed
<1>2. PICK r \in Nat \ {0} : InRound(r)
  OBVIOUS
<1>3. PICK n \in Nat :
        /\ Between(c, n) \/ Pending(c, n + 1)
        /\ (Got(c)' <=> Got(c)) /\ (Given(c)' <=> Given(c)) /\ ~Pending(c, n + 1)
             /\ Between(c, n)' => ClientAt(c, r)'
  BY <1>2, ClientPlace DEF InRound, ClientsAt
<1>4. Idle(c, n) /\ ~Pending(c, n + 1)
  BY <1>1, <1>3 DEF Between, Answering, OnItsWay, Pending, Awaits
<1>5. /\ open' = [open EXCEPT ![c] = FALSE] /\ down' = [down EXCEPT ![c] = <<>>]
      /\ UNCHANGED <<up, serving, rstS, rstP>>
  BY <1>4 DEF Leave, PeerCloses, Idle, Undisturbed
<1>6. /\ cpc'[c] = "ended" /\ down'[c] = <<>> /\ ~open'[c]
      /\ down'[Owner] = down[Owner] /\ (open'[Owner] <=> open[Owner])
      /\ \A d \in Clients : d # c =>
           /\ cpc'[d] = cpc[d] /\ down'[d] = down[d] /\ (open'[d] <=> open[d])
  BY <1>1, <1>5 DEF Typed
<1>7. Typed' /\ Undisturbed' /\ RoundIntegrity'
  BY <1>1, <1>5 DEF Typed, Undisturbed, RoundIntegrity, ownerVars, serverVars, enclaveVars, state
<1>8. Present'
  BY <1>1, <1>6 DEF Present, QuitAfter, ownerVars
<1>9. Connected'
  BY <1>1, <1>6, ConnectedKept DEF serverVars
<1>10. Idle(c, n)'
  BY <1>1, <1>4, <1>5, <1>6 DEF Idle
<1>11. (Got(c)' <=> Got(c)) /\ (Given(c)' <=> Given(c)) => ClientAt(c, r)'
  BY <1>3, <1>4, <1>10 DEF Between
<1>12. com_key'[c] = c + crounds'[c] + Len(results'[c])
  BY <1>1, <1>2 DEF InRound, ClientKeys
<1> QED
  BY <1>1, <1>2, <1>5, <1>6, <1>7, <1>8, <1>9, <1>11, <1>12, ClientStepKeeps

(* Nobody finds a connection reset. *)
LEMMA NothingIsReset ==
  ASSUME IInv
  PROVE  /\ \A c \in Clients : ~ClientBrokenPipe(c)
         /\ ~OwnerBrokenPipe /\ ~ResetArrives
BY PeersAssumption DEF IInv, Undisturbed, ClientBrokenPipe, OwnerBrokenPipe, ResetArrives

(* In peace, nobody closes a connection either. *)
LEMMA NobodyLeaves ==
  ASSUME Peaceful, IInv
  PROVE  /\ \A c \in Clients : ~Leave(c) /\ ~ClientBrokenPipe(c)
         /\ ~OwnerLeave /\ ~OwnerBrokenPipe
         /\ ~ResetArrives
<1> USE PeersAssumption, RoundsAssumption DEF IInv
<1>1. ASSUME NEW c \in Clients PROVE ~Leave(c)
  <2>1. QuitAfter(c) \in Nat /\ QuitAfter(c) > Rounds /\ crounds[c] \in 0..Rounds
    BY Peace DEF Typed
  <2>2. rstP[c] # "arrived"
    BY DEF Undisturbed
  <2> QED
    BY <2>1, <2>2 DEF Leave, PeerRecvFails
<1>2. ~OwnerLeave
  <2>1. QuitAfter(Owner) \in Nat /\ QuitAfter(Owner) > Rounds /\ orounds \in 0..Rounds
    BY Peace DEF Typed
  <2> QED
    BY <2>1 DEF OwnerLeave
<1> QED
  BY <1>1, <1>2, NothingIsReset

-----------------------------------------------------------------------------
(* The program owner. *)

LEMMA OwnerMoveKeeps ==
  ASSUME IInv, NEW r \in Nat \ {0}, InRound(r),
         UNCHANGED <<scenario, clientVars, serverVars, backlog, enclaveVars>>,
         UNCHANGED <<serving, rstS, rstP>>,
         DOMAIN up' = Peers, DOMAIN down' = Peers, DOMAIN open' = Peers,
         orounds' \in 0..Rounds,
         \A c \in Clients : up'[c] = up[c] /\ down'[c] = down[c],
         Present', OwnerAt(r)'
  PROVE  IInv'
<1> USE DEF IInv
<1>0. UNCHANGED <<spc, i, client_sock, cpc, com_key, crounds, results>>
  BY DEF serverVars, clientVars
<1>1. \A d : (Got(d)' <=> Got(d)) /\ (Given(d)' <=> Given(d)) /\ (Taken(d)' <=> Taken(d))
  BY <1>0, PositionKept DEF Got, Given, Taken
<1>2. ClientsAt(r)'
  BY <1>0, <1>1, ClientKept DEF ClientsAt, InRound
<1>3. ClientKeys(r)'
  BY <1>0, <1>1 DEF ClientKeys, InRound, enclaveVars, state
<1>4. EnclaveAt(r)'
  BY <1>0, EnclaveAtKept DEF InRound
<1>5. BuffersAt(r)'
  BY DEF BuffersAt, InRound, serverVars, Sock
<1>6. Typed' /\ Undisturbed' /\ RoundIntegrity'
  BY DEF Typed, Undisturbed, RoundIntegrity, serverVars, enclaveVars, state, clientVars
<1>7. Connected'
  BY <1>0, ConnectedKept
<1>8. Placed' /\ Identified'
  BY <1>0 DEF Placed, Identified, Sock, serverVars
<1>9. CompleteAt(r)'
  BY <1>0, <1>1, CompleteKept DEF InRound, CompleteAt
<1> QED
  BY <1>2, <1>3, <1>4, <1>5, <1>6, <1>7, <1>8, <1>9 DEF InRound

(* The same, for a step with which the owner does not leave. *)
LEMMA OwnerStepKeeps ==
  ASSUME IInv, NEW r \in Nat \ {0}, InRound(r),
         UNCHANGED <<scenario, clientVars, serverVars, backlog, enclaveVars>>,
         UNCHANGED <<open, serving, rstS, rstP>>,
         DOMAIN up' = Peers, DOMAIN down' = Peers, orounds' \in 0..Rounds,
         orounds' = orounds \/ orounds' <= QuitAfter(Owner),
         opc # "ended", opc' # "ended",
         \A c \in Clients : up'[c] = up[c] /\ down'[c] = down[c],
         OwnerAt(r)'
  PROVE  IInv'
<1>1. Present'
  BY DEF IInv, Present, QuitAfter, clientVars
<1>2. DOMAIN open' = Peers
  BY DEF IInv, Typed
<1> QED
  BY <1>1, <1>2, OwnerMoveKeeps

(* What the owner's sends and receipts do to its connection. *)
LEMMA OwnerChannel ==
  ASSUME IInv
  PROVE  /\ ~OwnerRecvNothing
         /\ OwnerRecv =>
              /\ down[Owner] # <<>> /\ down'[Owner] = Tail(down[Owner])
              /\ up' = up /\ DOMAIN down' = Peers
              /\ \A c \in Clients : down'[c] = down[c]
              /\ UNCHANGED <<open, serving, rstS, rstP>>
         /\ \A m : PeerSends(Owner, m) =>
              /\ up'[Owner] = Append(up[Owner], m)
              /\ down' = down /\ DOMAIN up' = Peers
              /\ \A c \in Clients : up'[c] = up[c]
              /\ UNCHANGED <<open, serving, rstS, rstP>>
<1> USE PeersAssumption DEF IInv, Undisturbed, Typed
<1>1. ~OwnerRecvNothing
  BY DEF OwnerRecvNothing, PeerRecvEnds, PeerRecvFails
<1>2. ASSUME OwnerRecv
      PROVE  /\ down[Owner] # <<>> /\ down'[Owner] = Tail(down[Owner])
             /\ up' = up /\ DOMAIN down' = Peers
             /\ \A c \in Clients : down'[c] = down[c]
             /\ UNCHANGED <<open, serving, rstS, rstP>>
  BY <1>2 DEF OwnerRecv, PeerGets
<1>3. ASSUME NEW m, PeerSends(Owner, m)
      PROVE  /\ up'[Owner] = Append(up[Owner], m)
             /\ down' = down /\ DOMAIN up' = Peers
             /\ \A c \in Clients : up'[c] = up[c]
             /\ UNCHANGED <<open, serving, rstS, rstP>>
  BY <1>3 DEF PeerSends
<1> QED
  BY <1>1, <1>2, <1>3

LEMMA OwnerConnectKeeps == ASSUME IInv, OwnerConnect PROVE IInv'
<1>1. PICK r \in Nat \ {0} : InRound(r)
  BY DEF IInv
<1>2. OwnerAt(r)'
  BY <1>1 DEF OwnerConnect, InRound, OwnerAt, OwnerBefore, OwnerSends, OwnerWaits, OwnerReady,
              OwnerExpects, OwnerGets, OwnerEvaluates, At, Done, Chan, serverVars, sockets
<1> QED
  BY <1>1, <1>2, OwnerStepKeeps DEF OwnerConnect, IInv, Typed, sockets

LEMMA PrepareProgramKeeps == ASSUME IInv, PrepareProgram PROVE IInv'
<1> USE RoundsAssumption
<1>1. PICK r \in Nat \ {0} : InRound(r)
  BY DEF IInv
<1>2. OwnerAt(r)'
  BY <1>1 DEF PrepareProgram, InRound, OwnerAt, OwnerBefore, OwnerSends, OwnerWaits, OwnerReady,
              OwnerExpects, OwnerGets, OwnerEvaluates, At, Done, Chan, serverVars, sockets
<1>3. orounds' \in 0..Rounds /\ orounds' <= QuitAfter(Owner)
  BY PeersAssumption, ScenarioSays DEF PrepareProgram, IInv, Typed, Undisturbed
<1> QED
  BY <1>1, <1>2, <1>3, OwnerStepKeeps DEF PrepareProgram, IInv, Typed, sockets

LEMMA SendPieceKeeps == ASSUME IInv, SendPiece PROVE IInv'
<1>1. PICK r \in Nat \ {0} : InRound(r)
  BY DEF IInv
<1> DEFINE m == Piece(Encrypt(ocom_key - 1, orounds), oi)
<1>2. /\ up'[Owner] = Append(up[Owner], m) /\ down' = down /\ DOMAIN up' = Peers
      /\ \A c \in Clients : up'[c] = up[c]
      /\ UNCHANGED <<open, serving, rstS, rstP>>
  BY OwnerChannel DEF SendPiece
<1>3. Append(<<>>, m) = <<m>>
  BY Short
<1>4. \A n \in Int : ocom_key = 2 * n - 1 /\ orounds = n => m = Piece(Plain(n), oi)
  BY DEF Plain
<1> HIDE DEF m
<1>5. OwnerAt(r)'
  <2>0. opc = "sendPiece" /\ opc' = "recvAck"
        /\ UNCHANGED <<orounds, oi, ocom_key, program, goutput, spc, i>>
    BY DEF SendPiece, serverVars
  <2>1. ASSUME NEW n \in Int, OwnerBefore(n) PROVE OwnerBefore(n)'
    BY <1>2, <1>3, <1>4, <2>0, <2>1 DEF OwnerBefore, At, Done, Chan, Plain
  <2>2. ASSUME NEW n \in Int, NEW k \in Int, OwnerSends(n, k) PROVE OwnerSends(n, k)'
    BY <1>2, <1>3, <1>4, <2>0, <2>1, <2>2 DEF OwnerSends, At, Chan, Plain
  <2>3. spc \notin Middle \ {"recvProgram"} /\ spc # "sendSize"
    BY <1>1, <2>0 DEF InRound, OwnerAt, OwnerWaits, OwnerReady, OwnerExpects, OwnerGets,
                      OwnerEvaluates, At, Done, Middle, Program, Garbled
  <2>4. spc = "recvProgram" => i \in Int
    BY ChunksAssumption DEF IInv, Placed
  <2> QED
    BY <1>1, <2>0, <2>1, <2>2, <2>3, <2>4
       DEF InRound, OwnerAt, Middle, Program, Garbled
<1> QED
  BY <1>1, <1>2, <1>5, OwnerStepKeeps DEF SendPiece, IInv, Typed

LEMMA PiecesGrow ==
  ASSUME NEW m, NEW k \in Nat
  PROVE  /\ Pieces(m, 0) = <<>>
         /\ Append(Pieces(m, k), Piece(m, k + 1)) = Pieces(m, k + 1)
<1>1. Pieces(m, 0) = <<>>
  BY DEF Pieces
<1> DEFINE S == {Piece(m, j) : j \in Nat}
           s == Pieces(m, k)
           t == Pieces(m, k + 1)
<1>2. s \in Seq(S) /\ Len(s) = k /\ \A j \in 1..k : s[j] = Piece(m, j)
  BY DEF Pieces
<1>3. t \in Seq(S) /\ Len(t) = k + 1 /\ \A j \in 1..(k + 1) : t[j] = Piece(m, j)
  BY DEF Pieces
<1> HIDE DEF s, t
<1>4. Piece(m, k + 1) \in S
  OBVIOUS
<1> HIDE DEF S
<1>5. /\ Append(s, Piece(m, k + 1)) \in Seq(S) /\ Len(Append(s, Piece(m, k + 1))) = k + 1
      /\ \A j \in 1..(k + 1) : Append(s, Piece(m, k + 1))[j] = t[j]
  BY <1>2, <1>3, <1>4
<1>6. Append(s, Piece(m, k + 1)) = t
  BY <1>3, <1>5, SeqEqual
<1> QED
  BY <1>1, <1>6 DEF s, t

LEMMA PiecesAssemble ==
  ASSUME NEW m
  PROVE  Assembled(Pieces(m, Chunks)) = m
<1>1. Chunks \in Nat /\ 1 \in 1..Chunks
  BY ChunksAssumption
<1>2. /\ Len(Pieces(m, Chunks)) = Chunks
      /\ \A j \in 1..Chunks : Pieces(m, Chunks)[j] = Piece(m, j)
  BY <1>1 DEF Pieces
<1>3. Pieces(m, Chunks)[1].m = m
  BY <1>1, <1>2 DEF Piece
<1> QED
  BY <1>2, <1>3 DEF Assembled

LEMMA RecvAckKeeps == ASSUME IInv, RecvAck PROVE IInv'
<1> USE ChunksAssumption
<1>1. PICK r \in Nat \ {0} : InRound(r)
  BY DEF IInv
<1>2. /\ down[Owner] # <<>> /\ down'[Owner] = Tail(down[Owner])
      /\ up' = up /\ DOMAIN down' = Peers /\ \A c \in Clients : down'[c] = down[c]
      /\ UNCHANGED <<open, serving, rstS, rstP>>
  BY OwnerChannel DEF RecvAck
<1>3. /\ opc = "recvAck" /\ program' = <<>> /\ UNCHANGED <<orounds, ocom_key, spc, i>>
      /\ oi < Chunks => oi' = oi + 1 /\ opc' = "sendPiece"
      /\ ~(oi < Chunks) => oi' = 1 /\ opc' = "recvPiece"
  BY DEF RecvAck, NextPiece, serverVars
<1>4. OwnerAt(r)'
  <2>1. ASSUME NEW n \in Int PROVE ~OwnerBefore(n)
    BY <1>2, <1>3 DEF OwnerBefore, At, Done, Chan
  <2>2. ASSUME NEW n \in Int, NEW k \in 1..Chunks, OwnerSends(n, k)
        PROVE  OwnerSends(n, k)'
    <3>1. k > 1 /\ At("recvAck", n, k - 1) /\ Chan(<<>>, <<"ack">>)
      BY <1>2, <1>3, <2>1, <2>2 DEF OwnerSends, At, Chan
    <3>2. Tail(<<"ack">>) = <<>>
      BY Short
    <3> QED
      BY <1>2, <1>3, <3>1, <3>2 DEF OwnerSends, At, Chan
  <2>3. ASSUME NEW n \in Int, NEW k \in Int, OwnerReady(n, k) PROVE OwnerReady(n, k)'
    <3>1. k = 1 /\ At("recvAck", n, Chunks) /\ Chan(<<>>, <<"ack">>)
      BY <1>2, <1>3, <2>3 DEF OwnerReady, OwnerExpects, At, Chan
    <3>2. Tail(<<"ack">>) = <<>> /\ Pieces(Secret(n), 0) = <<>>
      BY Short, PiecesGrow
    <3>3. OwnerExpects(n, 1, <<>>)'
      BY <1>2, <1>3, <3>1, <3>2 DEF OwnerExpects, At, Chan, Secret
    <3> QED
      BY <3>1, <3>3 DEF OwnerReady
  <2>4. ASSUME NEW n \in Int, NEW k \in Int, OwnerGets(n, k) PROVE OwnerGets(n, k)'
    <3>1. k = 1 /\ At("recvAck", n, Chunks) /\ Chan(<<>>, <<"ack", Piece(Secret(n), 1)>>)
      BY <1>2, <1>3, <2>4 DEF OwnerGets, OwnerExpects, OwnerEvaluates, At, Chan, Done
    <3>2. Tail(<<"ack", Piece(Secret(n), 1)>>) = <<Piece(Secret(n), 1)>>
      BY Short
    <3>3. Pieces(Secret(n), 0) = <<>>
      BY PiecesGrow
    <3>4. OwnerExpects(n, 1, <<Piece(Secret(n), 1)>>)'
      BY <1>2, <1>3, <3>1, <3>2, <3>3 DEF OwnerExpects, At, Chan, Secret
    <3> QED
      BY <3>1, <3>4 DEF OwnerGets, Secret
  <2>5. /\ spc \in {"recvProgram", "passProgram", "getGCircuit", "sendGProgram", "recvGAck"}
        /\ spc \in {"recvProgram", "sendGProgram", "recvGAck"} => i \in 1..Chunks
    BY <1>1, <1>2, <1>3, <2>1
       DEF InRound, OwnerAt, OwnerWaits, OwnerEvaluates, At, Done, Chan, IInv, Placed,
           Middle, Program, Garbled, Inputs, Decoded
  <2> QED
    BY <1>1, <1>3, <2>2, <2>3, <2>4, <2>5 DEF InRound, OwnerAt, Inputs, Before, Results2
<1> QED
  BY <1>1, <1>2, <1>3, <1>4, OwnerStepKeeps DEF RecvAck, IInv, Typed

LEMMA RecvPieceKeeps == ASSUME IInv, RecvPiece PROVE IInv'
<1> USE ChunksAssumption
<1>1. PICK r \in Nat \ {0} : InRound(r)
  BY DEF IInv
<1>2. /\ down[Owner] # <<>> /\ down'[Owner] = Tail(down[Owner])
      /\ up' = up /\ DOMAIN down' = Peers /\ \A c \in Clients : down'[c] = down[c]
      /\ UNCHANGED <<open, serving, rstS, rstP>>
  BY OwnerChannel DEF RecvPiece
<1>3. /\ opc = "recvPiece" /\ opc' = "sendAck" /\ program' = Append(program, Head(down[Owner]))
      /\ UNCHANGED <<orounds, ocom_key, oi, spc, i>>
  BY OwnerChannel DEF RecvPiece, serverVars
<1>4. spc = "recvGAck" /\ OwnerGets(r, i) /\ i \in 1..Chunks
  BY <1>1, <1>2, <1>3
     DEF InRound, OwnerAt, OwnerBefore, OwnerSends, OwnerWaits, OwnerReady, OwnerExpects,
         OwnerEvaluates, At, Done, Chan, IInv, Placed, Middle, Program, Garbled, Inputs,
         Decoded
<1>5. OwnerExpects(r, i, <<Piece(Secret(r), i)>>)
  BY <1>2, <1>3, <1>4 DEF OwnerGets, OwnerEvaluates, At, Done, Chan
<1>6. OwnerGets(r, i)'
  <2>1. i - 1 \in Nat /\ (i - 1) + 1 = i
    BY <1>4
  <2>2. Append(Pieces(Secret(r), i - 1), Piece(Secret(r), i)) = Pieces(Secret(r), i)
    BY <2>1, PiecesGrow
  <2>3. /\ Head(<<Piece(Secret(r), i)>>) = Piece(Secret(r), i)
        /\ Tail(<<Piece(Secret(r), i)>>) = <<>>
    BY Short
  <2>4. program' = Pieces(Secret(r), i) /\ down'[Owner] = <<>>
    BY <1>2, <1>3, <1>5, <2>2, <2>3 DEF OwnerExpects, Chan
  <2>5. At("sendAck", r, i)' /\ Chan(<<>>, <<>>)'
    BY <1>2, <1>3, <1>5, <2>4 DEF OwnerExpects, At, Chan
  <2> QED
    BY <1>3, <2>4, <2>5 DEF OwnerGets, Secret
<1>7. OwnerAt(r)'
  BY <1>3, <1>4, <1>6 DEF OwnerAt, Inputs, Before, Results2
<1> QED
  BY <1>1, <1>2, <1>3, <1>7, OwnerStepKeeps DEF RecvPiece, IInv, Typed

LEMMA SendAckKeeps == ASSUME IInv, SendAck PROVE IInv'
<1> USE ChunksAssumption
<1>1. PICK r \in Nat \ {0} : InRound(r)
  BY DEF IInv
<1>2. /\ up'[Owner] = Append(up[Owner], "ack") /\ down' = down /\ DOMAIN up' = Peers
      /\ \A c \in Clients : up'[c] = up[c]
      /\ UNCHANGED <<open, serving, rstS, rstP>>
  BY OwnerChannel DEF SendAck
<1>3. /\ opc = "sendAck" /\ UNCHANGED <<orounds, ocom_key, program, spc, i>>
      /\ oi < Chunks => oi' = oi + 1 /\ opc' = "recvPiece"
      /\ ~(oi < Chunks) => oi' = 1 /\ opc' = "evaluate"
  BY DEF SendAck, NextPiece, serverVars
<1>4. spc = "recvGAck" /\ OwnerGets(r, i) /\ i \in 1..Chunks
  BY <1>1, <1>3
     DEF InRound, OwnerAt, OwnerBefore, OwnerSends, OwnerWaits, OwnerReady, OwnerExpects,
         OwnerEvaluates, At, Done, Chan, IInv, Placed, Middle, Program, Garbled, Inputs,
         Decoded
<1>5. At("sendAck", r, i) /\ program = Pieces(Secret(r), i) /\ Chan(<<>>, <<>>)
  BY <1>3, <1>4 DEF OwnerGets, OwnerExpects, OwnerEvaluates, At, Done, Chan
<1>6. Chan(<<"ack">>, <<>>)'
  BY <1>2, <1>5, Short DEF Chan
<1>7. OwnerGets(r, i)'
  <2>1. CASE i < Chunks
    BY <1>3, <1>4, <1>5, <1>6, <2>1 DEF OwnerGets, At, Secret
  <2>2. CASE ~(i < Chunks)
    <3>1. i = Chunks
      BY <1>4, <2>2
    <3>2. OwnerEvaluates(r, <<"ack">>)'
      BY <1>3, <1>4, <1>5, <1>6, <3>1 DEF OwnerEvaluates, At, Secret
    <3> QED
      BY <1>3, <3>1, <3>2 DEF OwnerGets
  <2> QED
    BY <2>1, <2>2
<1>8. OwnerAt(r)'
  BY <1>3, <1>4, <1>7 DEF OwnerAt, Inputs, Before, Results2
<1> QED
  BY <1>1, <1>2, <1>3, <1>8, OwnerStepKeeps DEF SendAck, IInv, Typed

(* Where the owner has all pieces, the server may yet have to read that.   *)
LEMMA EvaluatesWhere ==
  ASSUME IInv, NEW r, InRound(r),
         opc \in {"evaluate", "sendGoutput"} \/ (opc = "recvSize" /\ up[Owner] # <<>>)
  PROVE  \/ spc = "recvGAck" /\ i = Chunks /\ OwnerEvaluates(r, <<"ack">>)
         \/ spc = "recvGoutput" /\ OwnerEvaluates(r, <<>>)
BY DEF InRound, OwnerAt, OwnerBefore, OwnerSends, OwnerWaits, OwnerReady, OwnerExpects,
       OwnerGets, At, Done, Chan, IInv, Placed, Middle, Program, Garbled, Inputs, Decoded

LEMMA EvaluatesThere ==
  ASSUME NEW r, UNCHANGED <<spc, i>>,
         \/ spc = "recvGAck" /\ i = Chunks /\ OwnerEvaluates(r, <<"ack">>)'
         \/ spc = "recvGoutput" /\ OwnerEvaluates(r, <<>>)'
  PROVE  OwnerAt(r)'
BY DEF OwnerAt, OwnerGets, Inputs, Before, Results2

(* What the owner evaluates is what the enclave has garbled. *)
LEMMA EvaluateGets ==
  ASSUME NEW r \in Nat, NEW u, OwnerEvaluates(r, u), opc = "evaluate"
  PROVE  Decrypt(ocom_key, Assembled(program)) = AllOf(r) /\ AllOf(r) # Junk
<1>1. program = Pieces(Secret(r), Chunks) /\ ocom_key = 2 * r - 1
  BY DEF OwnerEvaluates, Done
<1>2. Assembled(program) = Secret(r)
  BY <1>1, PiecesAssemble
<1>3. AllOf(r) \in [program : Nat, inputs : [Clients -> Nat]]
  BY DEF AllOf, Result
<1> QED
  BY <1>1, <1>2, <1>3, ResultsAssumption DEF Secret, Encrypt, Decrypt

LEMMA EvaluateKeeps == ASSUME IInv, Evaluate PROVE IInv'
<1>1. PICK r \in Nat \ {0} : InRound(r)
  BY DEF IInv
<1>2. \/ spc = "recvGAck" /\ i = Chunks /\ OwnerEvaluates(r, <<"ack">>)
      \/ spc = "recvGoutput" /\ OwnerEvaluates(r, <<>>)
  BY <1>1, EvaluatesWhere DEF Evaluate
<1>3. Decrypt(ocom_key, Assembled(program)) = AllOf(r) /\ AllOf(r) # Junk
  BY <1>2, EvaluateGets DEF Evaluate
<1>4. /\ opc = "evaluate" /\ opc' = "sendGoutput" /\ goutput' = AllOf(r)
      /\ ocom_key' = ocom_key + 1
      /\ UNCHANGED <<orounds, sockets, spc, i>>
  BY <1>3 DEF Evaluate, serverVars
<1>5. ASSUME NEW u, OwnerEvaluates(r, u) PROVE OwnerEvaluates(r, u)'
  BY <1>4, <1>5 DEF OwnerEvaluates, Done, Chan, sockets, AllOf, Result
<1>6. OwnerAt(r)'
  BY <1>2, <1>4, <1>5, EvaluatesThere
<1> QED
  BY <1>1, <1>4, <1>6, OwnerStepKeeps DEF Evaluate, IInv, Typed, sockets

LEMMA SendGoutputKeeps == ASSUME IInv, SendGoutput PROVE IInv'
<1>1. PICK r \in Nat \ {0} : InRound(r)
  BY DEF IInv
<1>2. \/ spc = "recvGAck" /\ i = Chunks /\ OwnerEvaluates(r, <<"ack">>)
      \/ spc = "recvGoutput" /\ OwnerEvaluates(r, <<>>)
  BY <1>1, EvaluatesWhere DEF SendGoutput
<1>3. /\ up'[Owner] = Append(up[Owner], goutput) /\ down' = down /\ DOMAIN up' = Peers
      /\ \A c \in Clients : up'[c] = up[c]
      /\ UNCHANGED <<open, serving, rstS, rstP>>
  BY OwnerChannel DEF SendGoutput
<1>4. /\ opc = "sendGoutput" /\ opc' = "recvSize"
      /\ UNCHANGED <<orounds, ocom_key, spc, i>>
  BY DEF SendGoutput, serverVars
<1>5. ASSUME NEW u, OwnerEvaluates(r, u) PROVE OwnerEvaluates(r, u)'
  <2>1. Done("sendGoutput", r) /\ goutput = AllOf(r) /\ Chan(u, <<>>)
    BY <1>4, <1>5 DEF OwnerEvaluates, Done
  <2>2. Done("recvSize", r)' /\ Chan(Append(u, AllOf(r)), <<>>)'
    BY <1>3, <1>4, <2>1 DEF Done, Chan
  <2> QED
    BY <2>2 DEF OwnerEvaluates, AllOf, Result
<1>6. OwnerAt(r)'
  BY <1>2, <1>4, <1>5, EvaluatesThere
<1> QED
  BY <1>1, <1>3, <1>4, <1>6, OwnerStepKeeps DEF SendGoutput, IInv, Typed

LEMMA RecvSizeKeeps == ASSUME IInv, RecvSize PROVE IInv'
<1>1. PICK r \in Nat \ {0} : InRound(r)
  BY DEF IInv
<1>2. /\ down[Owner] # <<>> /\ down'[Owner] = Tail(down[Owner])
      /\ up' = up /\ DOMAIN down' = Peers /\ \A c \in Clients : down'[c] = down[c]
      /\ UNCHANGED <<open, serving, rstS, rstP>>
  BY OwnerChannel DEF RecvSize
<1>3. /\ opc = "recvSize" /\ opc' = "prepare"
      /\ UNCHANGED <<orounds, ocom_key, oi, spc, i>>
  BY DEF RecvSize, serverVars
<1>4. ASSUME NEW n \in Int, OwnerBefore(n) PROVE OwnerBefore(n)'
  <2>1. Done("recvSize", n - 1) /\ Chan(<<>>, <<"size">>)
    BY <1>2, <1>3, <1>4 DEF OwnerBefore, At, Done, Chan
  <2>2. Done("prepare", n - 1)' /\ Chan(<<>>, <<>>)'
    BY <1>2, <1>3, <2>1, Short DEF Done, Chan
  <2> QED
    BY <2>2 DEF OwnerBefore
<1>5. /\ spc \in Inputs \cup Results2 \cup {"freeEnc"} \/ (spc = "recvProgram" /\ i = 1)
      /\ spc = "recvProgram" => OwnerBefore(r)
  BY <1>1, <1>2, <1>3
     DEF InRound, OwnerAt, OwnerSends, OwnerWaits, OwnerReady, OwnerExpects, OwnerGets,
         OwnerEvaluates, At, Done, Chan, IInv, Placed, Middle, Program, Garbled, Inputs,
         Decoded
<1>6. OwnerAt(r)'
  BY <1>1, <1>3, <1>4, <1>5
     DEF InRound, OwnerAt, OwnerSends, Inputs, Before, Results2
<1> QED
  BY <1>1, <1>2, <1>3, <1>6, OwnerStepKeeps DEF RecvSize, IInv, Typed

LEMMA OwnerLeaveKeeps == ASSUME IInv, OwnerLeave PROVE IInv'
<1> USE PeersAssumption
<1>1. PICK r \in Nat \ {0} : InRound(r)
  BY DEF IInv
<1>2. /\ opc = "prepare" /\ opc' = "ended" /\ orounds = QuitAfter(Owner)
      /\ UNCHANGED <<scenario, clientVars, ocom_key, orounds, oi, serverVars, backlog,
                     enclaveVars, spc, i>>
  BY DEF OwnerLeave, serverVars
<1>3. /\ spc \in Inputs \cup Results2 \cup {"freeEnc"} \/ (spc = "recvProgram" /\ i = 1)
      /\ spc \in Inputs \cup {"recvProgram"} => OwnerBefore(r)
      /\ spc \in Results2 \cup {"freeEnc"} => OwnerBefore(r + 1)
  BY <1>1, <1>2
     DEF InRound, OwnerAt, OwnerSends, OwnerWaits, OwnerReady, OwnerExpects, OwnerGets,
         OwnerEvaluates, At, Done, Chan, IInv, Placed, Middle, Program, Garbled, Inputs,
         Decoded
<1>4. Chan(<<>>, <<>>)
  BY <1>2, <1>3 DEF OwnerBefore, At, Done
<1>5. /\ open' = [open EXCEPT ![Owner] = FALSE] /\ down' = [down EXCEPT ![Owner] = <<>>]
      /\ UNCHANGED <<up, serving, rstS, rstP>>
  BY <1>4 DEF OwnerLeave, PeerCloses, Chan, IInv, Undisturbed
<1>6. /\ down'[Owner] = <<>> /\ ~open'[Owner] /\ DOMAIN down' = Peers /\ DOMAIN open' = Peers
      /\ \A c \in Clients : down'[c] = down[c] /\ (open'[c] <=> open[c])
  BY <1>5 DEF IInv, Typed
<1>7. ASSUME NEW n, OwnerBefore(n) PROVE OwnerBefore(n)'
  <2>1. Done("prepare", n - 1)
    BY <1>2, <1>7 DEF OwnerBefore, At, Done
  <2>2. Done("ended", n - 1)' /\ Chan(<<>>, <<>>)'
    BY <1>2, <1>4, <1>5, <1>6, <2>1 DEF Done, Chan
  <2> QED
    BY <2>2 DEF OwnerBefore
<1>8. OwnerAt(r)'
  BY <1>2, <1>3, <1>7 DEF OwnerAt, OwnerSends, Inputs, Before, Results2
<1>9. Present'
  BY <1>2, <1>6 DEF IInv, Present, QuitAfter, clientVars
<1> QED
  BY <1>1, <1>2, <1>5, <1>6, <1>8, <1>9, OwnerMoveKeeps DEF IInv, Typed

-----------------------------------------------------------------------------
(* The server with the owner and the enclave. *)

LEMMA ServerChannel ==
  ASSUME IInv, NEW p \in Peers
  PROVE  /\ ServerRecvFails(p) => ~open[p]
         /\ ServerGets(p) =>
              /\ up[p] # <<>> /\ up'[p] = Tail(up[p]) /\ DOMAIN up' = Peers
              /\ \A q \in Peers : q # p => up'[q] = up[q]
              /\ UNCHANGED <<down, open, serving, rstS, rstP>>
         /\ \A m : open[p] /\ ServerSends(p, m) =>
              /\ down'[p] = Append(down[p], m) /\ DOMAIN down' = Peers
              /\ \A q \in Peers : q # p => down'[q] = down[q]
              /\ UNCHANGED <<up, open, serving, rstS, rstP>>
<1> USE PeersAssumption DEF IInv, Undisturbed, Typed
<1>1. ServerRecvFails(p) => ~open[p]
  BY DEF ServerRecvFails
<1>2. ASSUME ServerGets(p)
      PROVE  /\ up[p] # <<>> /\ up'[p] = Tail(up[p]) /\ DOMAIN up' = Peers
             /\ \A q \in Peers : q # p => up'[q] = up[q]
             /\ UNCHANGED <<down, open, serving, rstS, rstP>>
  BY <1>2 DEF ServerGets
<1>3. ASSUME NEW m, open[p], ServerSends(p, m)
      PROVE  /\ down'[p] = Append(down[p], m) /\ DOMAIN down' = Peers
             /\ \A q \in Peers : q # p => down'[q] = down[q]
             /\ UNCHANGED <<up, open, serving, rstS, rstP>>
  BY <1>3 DEF ServerSends
<1> QED
  BY <1>1, <1>2, <1>3

(* Once the server has the first piece of its program, the owner is there  *)
(* for the rest of the round. *)
LEMMA OwnerThere ==
  ASSUME IInv, NEW r \in Nat \ {0}, InRound(r),
         spc \in Middle \cup {"sendSize"}, spc = "recvProgram" => i # 1
  PROVE  open[Owner] /\ CompleteTo(r)
<1>1. opc # "ended"
  BY DEF InRound, OwnerAt, OwnerSends, OwnerWaits, OwnerReady, OwnerExpects, OwnerGets,
         OwnerEvaluates, At, Done, Middle, Program, Garbled
<1>2. CompleteTo(r)
  BY DEF InRound, CompleteAt, Inputs, Before, Middle, Program, Garbled
<1> QED
  BY <1>1, <1>2 DEF IInv, Present

(* A step of the server after the inputs and before the results, which     *)
(* concerns no client.                                                     *)
LEMMA QuietKeeps ==
  ASSUME IInv, NEW r \in Nat \ {0}, InRound(r),
         UNCHANGED <<scenario, clientVars, backlog, client_sock, sock_client_map>>,
         UNCHANGED <<opc, orounds, com_to_client_key, open, serving, rstS, rstP>>,
         enclave' = "running", damaged' = FALSE, freed' \in [Clients -> Nat \cup {Junk}],
         DOMAIN up' = Peers, DOMAIN down' = Peers,
         \A c \in Clients : up'[c] = up[c] /\ down'[c] = down[c],
         \/ spc = "acceptOwner" /\ spc' = "recvInput" /\ i' = 0
         \/ /\ spc \in Middle \cup {"sendSize"}
            /\ spc' \in Middle \cup {"sendSize"} \/ (spc' = "getOutput" /\ i' = 0),
         spc' = "recvInput" \/ CompleteTo(r),
         Placed', OwnerAt(r)', EnclaveAt(r)', BuffersAt(r)'
  PROVE  IInv'
<1> USE DEF IInv
<1>1. UNCHANGED <<cpc, com_key, crounds, results>>
  BY DEF clientVars
<1>2. ASSUME NEW c \in Clients
      PROVE  (Got(c)' <=> Got(c)) /\ (Given(c)' <=> Given(c)) /\ (Taken(c)' <=> Taken(c))
  <2>1. Position(c)' = Position(c)
    BY PositionKept
  <2>2. spc # "accept" /\ Position(c) \in Nat
    BY Positions, ClientsAssumption DEF Middle, Program, Garbled, Clients
  <2> QED
    BY <2>1, <2>2 DEF Got, Given, Taken, Middle, Decoded, Results2, Program, Garbled
<1>3. ClientsAt(r)'
  BY <1>1, <1>2, ClientKept DEF ClientsAt, InRound
<1>4. ClientKeys(r)'
  BY <1>1, <1>2 DEF ClientKeys, InRound
<1>5. Typed' /\ Undisturbed' /\ Present' /\ RoundIntegrity'
  BY <1>1, PresentKept DEF Typed, Undisturbed, RoundIntegrity
<1>8. CompleteAt(r)'
  BY <1>2, CompleteKept DEF InRound, Inputs
<1>6. Connected'
  BY <1>1 DEF Connected, Middle, Program, Garbled
<1>7. Identified'
  <2>1. \A n \in Clients : ~(n < 0)
    BY ClientsAssumption DEF Clients
  <2> QED
    BY <2>1 DEF Identified, Sock, Middle, Decoded, Results2, Program, Garbled
<1> QED
  BY <1>3, <1>4, <1>5, <1>6, <1>7, <1>8 DEF InRound

LEMMA AcceptOwnerKeeps == ASSUME IInv, AcceptOwner PROVE IInv'
<1>1. PICK r \in Nat \ {0} : InRound(r)
  BY DEF IInv
<1>2. /\ spc = "acceptOwner" /\ spc' = "recvInput" /\ i' = 0
      /\ UNCHANGED <<peerVars, backlog, client_sock, sock_client_map, buffer, prog, reply,
                     enclaveVars, sockets>>
  BY DEF AcceptOwner, Goto
<1>3. OwnerAt(r)'
  <2>1. OwnerBefore(r)
    BY <1>1, <1>2 DEF InRound, OwnerAt, Inputs, Before
  <2>2. OwnerBefore(r)'
    BY <1>2, <2>1 DEF OwnerBefore, At, Done, Chan, peerVars, ownerVars, sockets
  <2> QED
    BY <1>2, <2>2 DEF OwnerAt, Results2
<1>4. EnclaveAt(r)' /\ BuffersAt(r)'
  BY <1>1, <1>2
     DEF InRound, EnclaveAt, ProgramKey, CircuitAt, InputsAt, ResultAt, BuffersAt, enclaveVars,
         state, Inputs, Before, Middle, Program, Garbled, Decoded, Results2
<1>5. Placed'
  BY <1>2, ClientsAssumption DEF Placed, Inputs, Clients, Results2
<1> QED
  BY <1>1, <1>2, <1>3, <1>4, <1>5, QuietKeeps
     DEF IInv, Undisturbed, Typed, peerVars, ownerVars, enclaveVars, state, sockets

(* The owner takes part in the round if the server gets a piece from it.   *)
LEMMA RoundIsComplete ==
  ASSUME IInv, NEW r \in Nat \ {0}, InRound(r), spc = "recvProgram", orounds = r
  PROVE  CompleteTo(r)
<1> USE PeersAssumption
<1>1. ASSUME NEW c \in Clients PROVE r <= QuitAfter(c) /\ ~BadInput(c, r)
  <2>1. Got(c) /\ ~Given(c)
    BY DEF Got, Given, Middle, Program, Results2
  <2>2. crounds[c] = r
    BY <2>1 DEF InRound, ClientsAt, ClientAt, Pending, Awaits
  <2> QED
    BY <2>1, <2>2 DEF InRound, CompleteAt, IInv, Present
<1>2. ASSUME NEW bad \in scenario.badInputs PROVE r < bad[2]
  <2>1. r - 1 < bad[2] /\ bad[2] \in Int
    BY ScenarioSays, RoundsAssumption DEF InRound, CompleteAt, CompleteTo, IInv, Undisturbed
  <2>2. bad[2] # r
    BY <1>1, ScenarioSays DEF IInv, Undisturbed
  <2> QED
    BY <2>1, <2>2
<1>3. r <= QuitAfter(Owner)
  BY DEF IInv, Present
<1> QED
  BY <1>1, <1>2, <1>3 DEF CompleteTo

LEMMA RecvProgramKeeps ==
  ASSUME IInv, RecvProgram, ~ServerRecvFails(Owner)
  PROVE  IInv'
<1> USE PeersAssumption
<1>1. PICK r \in Nat \ {0} : InRound(r)
  BY DEF IInv
<1>2. /\ spc = "recvProgram" /\ spc' = "ackProgram" /\ i' = i /\ i \in 1..Chunks
      /\ UNCHANGED <<peerVars, backlog, client_sock, sock_client_map, prog, reply, enclaveVars>>
  BY DEF RecvProgram, Goto, IInv, Placed
<1>3. /\ up[Owner] # <<>> /\ up'[Owner] = Tail(up[Owner]) /\ DOMAIN up' = Peers
      /\ \A c \in Clients : up'[c] = up[c]
      /\ UNCHANGED <<down, open, serving, rstS, rstP>>
      /\ buffer' = Append(buffer, Head(up[Owner]))
  BY ServerChannel DEF RecvProgram
<1>4. At("recvAck", r, i) /\ Chan(<<Piece(Plain(r), i)>>, <<>>)
  BY <1>1, <1>2, <1>3 DEF InRound, OwnerAt, OwnerSends, OwnerBefore, At, Done, Chan
<1>10. CompleteTo(r)
  BY <1>1, <1>2, <1>4, RoundIsComplete DEF At
<1>5. Chan(<<>>, <<>>)' /\ buffer' = Append(buffer, Piece(Plain(r), i))
  BY <1>3, <1>4, Short DEF Chan
<1>6. OwnerAt(r)'
  BY <1>2, <1>4, <1>5
     DEF OwnerAt, OwnerWaits, At, peerVars, ownerVars, Inputs, Before, Results2
<1>7. BuffersAt(r)'
  <2>1. i - 1 \in Nat /\ (i - 1) + 1 = i
    BY <1>2
  <2>2. buffer = Pieces(Plain(r), i - 1)
    BY <1>1, <1>2 DEF InRound, BuffersAt
  <2>3. buffer' = Pieces(Plain(r), i)
    BY <1>5, <2>1, <2>2, PiecesGrow
  <2> QED
    BY <1>2, <2>3 DEF BuffersAt, Inputs, Before, Plain
<1>8. EnclaveAt(r)'
  BY <1>1, <1>2
     DEF InRound, EnclaveAt, ProgramKey, CircuitAt, InputsAt, ResultAt, enclaveVars,
         state, Inputs, Before, Middle, Program, Garbled, Decoded, Results2
<1>9. Placed'
  BY <1>2 DEF Placed, Middle, Program, Results2
<1> QED
  BY <1>1, <1>2, <1>3, <1>6, <1>7, <1>8, <1>9, <1>10, QuietKeeps
     DEF IInv, Undisturbed, Typed, peerVars, ownerVars, enclaveVars, state, Middle, Program

LEMMA AckProgramKeeps == ASSUME IInv, AckProgram PROVE IInv'
<1> USE PeersAssumption, ChunksAssumption
<1>1. PICK r \in Nat \ {0} : InRound(r)
  BY DEF IInv
<1>0. open[Owner] /\ CompleteTo(r)
  BY <1>1, OwnerThere DEF AckProgram, Middle, Program, Garbled
<1>2. /\ spc = "ackProgram" /\ i \in 1..Chunks
      /\ i < Chunks => spc' = "recvProgram" /\ i' = i + 1
      /\ ~(i < Chunks) => spc' = "passProgram" /\ i' = 0
      /\ UNCHANGED <<peerVars, backlog, client_sock, sock_client_map, buffer, prog, reply,
                     enclaveVars>>
  BY DEF AckProgram, Goto, IInv, Placed
<1>3. /\ down'[Owner] = Append(down[Owner], "ack") /\ DOMAIN down' = Peers
      /\ \A c \in Clients : down'[c] = down[c]
      /\ UNCHANGED <<up, open, serving, rstS, rstP>>
  BY <1>0, ServerChannel DEF AckProgram
<1>4. At("recvAck", r, i) /\ Chan(<<>>, <<>>)
  BY <1>1, <1>2 DEF InRound, OwnerAt, OwnerWaits
<1>5. /\ opc' = "recvAck" /\ orounds' = r /\ oi' = i /\ ocom_key' = 2 * r - 1
      /\ Chan(<<>>, <<"ack">>)'
  BY <1>2, <1>3, <1>4, Short DEF Chan, At, peerVars, ownerVars
<1>6. OwnerAt(r)'
  <2>1. CASE i < Chunks
    <3>1. i' > 1 /\ i' - 1 = i /\ spc' = "recvProgram"
      BY <1>2, <2>1
    <3>2. OwnerSends(r, i)'
      BY <1>5, <3>1 DEF OwnerSends, At
    <3> QED
      BY <3>1, <3>2 DEF OwnerAt, Inputs, Before, Results2
  <2>2. CASE ~(i < Chunks)
    <3>1. i = Chunks /\ spc' = "passProgram"
      BY <1>2, <2>2
    <3>2. OwnerReady(r, 1)'
      BY <1>5, <3>1 DEF OwnerReady, At
    <3> QED
      BY <3>1, <3>2 DEF OwnerAt, Inputs, Before, Results2
  <2> QED
    BY <2>1, <2>2
<1>7. BuffersAt(r)'
  <2>1. buffer = Pieces(Plain(r), i)
    BY <1>1, <1>2 DEF InRound, BuffersAt
  <2>2. CASE i < Chunks
    BY <1>2, <2>1, <2>2 DEF BuffersAt, Inputs, Before, Plain
  <2>3. CASE ~(i < Chunks)
    BY <1>2, <2>1, <2>3 DEF BuffersAt, Inputs, Before, Plain
  <2> QED
    BY <2>2, <2>3
<1>8. EnclaveAt(r)'
  BY <1>1, <1>2
     DEF InRound, EnclaveAt, ProgramKey, CircuitAt, InputsAt, ResultAt, enclaveVars,
         state, Inputs, Before, Middle, Program, Garbled, Decoded, Results2
<1>9. Placed' /\ spc' \in Middle
  BY <1>2 DEF Placed, Middle, Program, Results2
<1> QED
  BY <1>0, <1>1, <1>2, <1>3, <1>6, <1>7, <1>8, <1>9, QuietKeeps
     DEF IInv, Undisturbed, Typed, peerVars, ownerVars, enclaveVars, state, Middle, Program

(* The program decrypts, and the enclave does not fail. *)
LEMMA PassProgramDoes ==
  ASSUME IInv, NEW r \in Nat \ {0}, InRound(r), PassProgram
  PROVE  /\ UNCHANGED <<enclave, com_to_client_key, datainput, freed, damaged, outGarblings,
                        output>>
         /\ C' = [program |-> r, gates |-> "live", inpSizes |-> "live"]
         /\ com_key_program = 2 * r - 2 /\ com_key_program' = com_key_program + 1
<1> DEFINE v == Decrypt(com_key_program, Plain(r))
<1>1. Assembled(buffer) = Plain(r) /\ com_key_program = 2 * r - 2
  BY PiecesAssemble
     DEF PassProgram, InRound, BuffersAt, EnclaveAt, ProgramKey, Inputs, Before, Program
<1>2. v = r /\ v # Junk /\ Plain(r) # Nothing
  BY <1>1, JunkAssumption DEF Plain, Encrypt, Decrypt, Nothing
<1>3. passProgram(Plain(r))
  BY <1>1 DEF PassProgram
<1>4. enclave = "running" /\ damaged = FALSE
  BY DEF IInv, Undisturbed
<1> QED
  BY <1>1, <1>2, <1>3, <1>4 DEF passProgram, Running, EcallFails, Crash

LEMMA PassProgramKeeps == ASSUME IInv, PassProgram PROVE IInv'
<1>1. PICK r \in Nat \ {0} : InRound(r)
  BY DEF IInv
<1>0. open[Owner] /\ CompleteTo(r)
  BY <1>1, OwnerThere DEF PassProgram, Middle, Program, Garbled
<1>2. /\ spc = "passProgram" /\ spc' = "getGCircuit" /\ i' = 0
      /\ UNCHANGED <<peerVars, backlog, client_sock, sock_client_map, buffer, prog, reply,
                     sockets>>
  BY DEF PassProgram, Goto
<1>3. /\ UNCHANGED <<enclave, com_to_client_key, datainput, freed, damaged, outGarblings,
                     output>>
      /\ C' = [program |-> r, gates |-> "live", inpSizes |-> "live"]
      /\ com_key_program = 2 * r - 2 /\ com_key_program' = com_key_program + 1
  BY <1>1, PassProgramDoes
<1>4. OwnerAt(r)'
  <2>1. OwnerReady(r, 1)
    BY <1>1, <1>2 DEF InRound, OwnerAt
  <2>2. OwnerReady(r, 1)'
    BY <1>2, <2>1
       DEF OwnerReady, OwnerExpects, At, Chan, peerVars, ownerVars, sockets, Secret, AllOf
  <2> QED
    BY <1>2, <2>2 DEF OwnerAt, Inputs, Before, Results2
<1>5. EnclaveAt(r)'
  BY <1>0, <1>1, <1>2, <1>3
     DEF InRound, EnclaveAt, ProgramKey, CircuitAt, InputsAt, ResultAt, Inputs, Before,
         Middle, Program, Garbled, Decoded, Results2
<1>6. BuffersAt(r)' /\ Placed' /\ spc' \in Middle
  BY <1>2 DEF BuffersAt, Placed, Middle, Inputs, Before, Results2
<1> QED
  BY <1>0, <1>1, <1>2, <1>3, <1>4, <1>5, <1>6, QuietKeeps
     DEF IInv, Undisturbed, Typed, peerVars, ownerVars, sockets, Middle, Program

(* The round's program is garbled with the round's inputs. *)
LEMMA GetGCircuitDoes ==
  ASSUME IInv, NEW r \in Nat \ {0}, InRound(r), GetGCircuit
  PROVE  /\ UNCHANGED <<enclave, com_to_client_key, datainput, freed, damaged, output>>
         /\ C' = [program |-> r, gates |-> "dangling", inpSizes |-> "live"]
         /\ outGarblings' = [ptr |-> "live", v |-> AllOf(r)]
         /\ prog' = Secret(r)
         /\ com_key_program = 2 * r - 1 /\ com_key_program' = com_key_program + 1
<1>1. /\ C = [program |-> r, gates |-> "live", inpSizes |-> "live"]
      /\ com_key_program = 2 * r - 1 /\ datainput = [c \in Clients |-> r]
  BY DEF GetGCircuit, InRound, EnclaveAt, CircuitAt, ProgramKey, InputsAt, Middle, Inputs,
         Before, Program
<1>2. C.program = r /\ r # Junk /\ C.gates = "live"
  BY <1>1, JunkAssumption
<1>3. datainput # NULL /\ \A c \in Clients : datainput[c] # Junk
  <2>1. datainput \in [Clients -> Nat \cup {Junk}]
    BY <1>1
  <2> QED
    BY <1>1, <1>2, <2>1, NullAssumption
<1>4. enclave = "running" /\ damaged = FALSE
  BY DEF IInv, Undisturbed
<1>5. Garble(Result(C.program, datainput)) /\ prog' = outbuf'
  BY <1>2, <1>3, <1>4 DEF GetGCircuit, getGCircuit, EcallFails
<1>6. Result(C.program, datainput) = AllOf(r)
  BY <1>1, <1>2 DEF AllOf
<1> QED
  BY <1>1, <1>5, <1>6 DEF Garble, Running, Secret

LEMMA GetGCircuitKeeps == ASSUME IInv, GetGCircuit PROVE IInv'
<1> USE ChunksAssumption
<1>1. PICK r \in Nat \ {0} : InRound(r)
  BY DEF IInv
<1>0. open[Owner] /\ CompleteTo(r)
  BY <1>1, OwnerThere DEF GetGCircuit, Middle, Program, Garbled
<1>2. /\ spc = "getGCircuit" /\ spc' = "sendGProgram" /\ i' = 1
      /\ UNCHANGED <<peerVars, backlog, client_sock, sock_client_map, buffer, reply, sockets>>
  BY DEF GetGCircuit, Goto
<1>3. /\ UNCHANGED <<enclave, com_to_client_key, datainput, freed, damaged, output>>
      /\ C' = [program |-> r, gates |-> "dangling", inpSizes |-> "live"]
      /\ outGarblings' = [ptr |-> "live", v |-> AllOf(r)]
      /\ prog' = Secret(r)
      /\ com_key_program = 2 * r - 1 /\ com_key_program' = com_key_program + 1
  BY <1>1, GetGCircuitDoes
<1>4. OwnerAt(r)'
  <2>1. OwnerReady(r, 1)
    BY <1>1, <1>2 DEF InRound, OwnerAt
  <2>2. OwnerReady(r, i)'
    BY <1>2, <2>1
       DEF OwnerReady, OwnerExpects, At, Chan, peerVars, ownerVars, sockets, Secret, AllOf
  <2> QED
    BY <1>2, <2>2 DEF OwnerAt, Inputs, Before, Results2
<1>5. EnclaveAt(r)'
  BY <1>0, <1>1, <1>2, <1>3
     DEF InRound, EnclaveAt, ProgramKey, CircuitAt, InputsAt, ResultAt, Inputs, Before,
         Middle, Program, Garbled, Decoded, Results2, AllOf, Result
<1>6. BuffersAt(r)' /\ Placed' /\ spc' \in Middle
  BY <1>2, <1>3 DEF BuffersAt, Placed, Middle, Inputs, Before, Results2, Garbled, Secret,
                    AllOf, Result
<1> QED
  BY <1>0, <1>1, <1>2, <1>3, <1>4, <1>5, <1>6, QuietKeeps
     DEF IInv, Undisturbed, Typed, peerVars, ownerVars, sockets, Middle, Program

LEMMA SendGProgramKeeps == ASSUME IInv, SendGProgram PROVE IInv'
<1> USE PeersAssumption, ChunksAssumption
<1>1. PICK r \in Nat \ {0} : InRound(r)
  BY DEF IInv
<1>0. open[Owner] /\ CompleteTo(r)
  BY <1>1, OwnerThere DEF SendGProgram, Middle, Program, Garbled
<1>2. /\ spc = "sendGProgram" /\ spc' = "recvGAck" /\ i' = i /\ i \in 1..Chunks
      /\ UNCHANGED <<peerVars, backlog, client_sock, sock_client_map, buffer, prog, reply,
                     enclaveVars>>
  BY DEF SendGProgram, Goto, IInv, Placed
<1>3. /\ down'[Owner] = Append(down[Owner], Piece(Secret(r), i)) /\ DOMAIN down' = Peers
      /\ \A c \in Clients : down'[c] = down[c]
      /\ UNCHANGED <<up, open, serving, rstS, rstP>>
  BY <1>0, <1>1, ServerChannel DEF SendGProgram, InRound, BuffersAt
<1>4. OwnerReady(r, i)
  BY <1>1, <1>2 DEF InRound, OwnerAt
<1>5. OwnerGets(r, i)'
  <2>1. CASE i = 1 /\ At("recvAck", r, Chunks) /\ Chan(<<>>, <<"ack">>)
    <3>1. down'[Owner] = <<"ack", Piece(Secret(r), 1)>>
      BY <1>3, <2>1, Short DEF Chan
    <3> QED
      BY <1>2, <1>3, <2>1, <3>1
         DEF OwnerGets, At, Chan, peerVars, ownerVars, Secret, AllOf, Result
  <2>2. CASE OwnerExpects(r, i, <<>>)
    <3>1. down'[Owner] = <<Piece(Secret(r), i)>>
      BY <1>3, <2>2, Short DEF Chan, OwnerExpects
    <3>2. OwnerExpects(r, i, <<Piece(Secret(r), i)>>)'
      BY <1>2, <1>3, <2>2, <3>1
         DEF OwnerExpects, At, Chan, peerVars, ownerVars, Secret, AllOf, Result
    <3> QED
      BY <3>2 DEF OwnerGets
  <2> QED
    BY <1>4, <2>1, <2>2 DEF OwnerReady
<1>6. OwnerAt(r)'
  BY <1>2, <1>5 DEF OwnerAt, Inputs, Before, Results2
<1>7. EnclaveAt(r)'
  BY <1>1, <1>2
     DEF InRound, EnclaveAt, ProgramKey, CircuitAt, InputsAt, ResultAt, enclaveVars,
         state, Inputs, Before, Middle, Program, Garbled, Decoded, Results2, AllOf, Result
<1>8. BuffersAt(r)' /\ Placed' /\ spc' \in Middle
  BY <1>1, <1>2 DEF InRound, BuffersAt, Placed, Middle, Inputs, Before, Results2, Garbled,
                    Secret, AllOf, Result
<1> QED
  BY <1>0, <1>1, <1>2, <1>3, <1>6, <1>7, <1>8, QuietKeeps
     DEF IInv, Undisturbed, Typed, peerVars, ownerVars, enclaveVars, state, Middle, Garbled

(* The owner has piece k: it expects the next one, or evaluates. *)
LEMMA OwnerHasPiece ==
  ASSUME NEW r, NEW k \in 1..Chunks, OwnerGets(r, k), up[Owner] # <<>>
  PROVE  \/ /\ k < Chunks /\ At("recvPiece", r, k + 1)
            /\ program = Pieces(Secret(r), k) /\ Chan(<<"ack">>, <<>>)
         \/ k = Chunks /\ OwnerEvaluates(r, <<"ack">>)
BY DEF OwnerGets, OwnerExpects, At, Chan

LEMMA RecvGAckKeeps == ASSUME IInv, RecvGAck PROVE IInv'
<1> USE PeersAssumption, ChunksAssumption
<1>1. PICK r \in Nat \ {0} : InRound(r)
  BY DEF IInv
<1>0. open[Owner] /\ CompleteTo(r)
  BY <1>1, OwnerThere DEF RecvGAck, Middle, Program, Garbled
<1>2. /\ spc = "recvGAck" /\ i \in 1..Chunks
      /\ i < Chunks => spc' = "sendGProgram" /\ i' = i + 1 /\ prog' = prog
      /\ ~(i < Chunks) => spc' = "recvGoutput" /\ i' = 0
      /\ UNCHANGED <<peerVars, backlog, client_sock, sock_client_map, buffer, reply,
                     enclaveVars>>
  BY DEF RecvGAck, Goto, IInv, Placed
<1>3. /\ up[Owner] # <<>> /\ up'[Owner] = Tail(up[Owner]) /\ DOMAIN up' = Peers
      /\ \A c \in Clients : up'[c] = up[c]
      /\ UNCHANGED <<down, open, serving, rstS, rstP>>
  BY <1>0, ServerChannel DEF RecvGAck
<1>4. OwnerGets(r, i)
  BY <1>1, <1>2 DEF InRound, OwnerAt
<1>5. OwnerAt(r)'
  <2>1. CASE i < Chunks
    <3>1. At("recvPiece", r, i + 1) /\ program = Pieces(Secret(r), i) /\ Chan(<<"ack">>, <<>>)
      BY <1>2, <1>3, <1>4, <2>1, OwnerHasPiece
    <3>2. up'[Owner] = <<>>
      BY <1>3, <3>1, Short DEF Chan
    <3>3. i' - 1 = i /\ i' = i + 1 /\ spc' = "sendGProgram"
      BY <1>2, <2>1
    <3>4. OwnerReady(r, i)'
      BY <1>2, <1>3, <3>1, <3>2, <3>3
         DEF OwnerReady, OwnerExpects, At, Chan, peerVars, ownerVars, Secret, AllOf, Result
    <3> QED
      BY <3>3, <3>4 DEF OwnerAt, Inputs, Before, Results2
  <2>2. CASE ~(i < Chunks)
    <3>1. OwnerEvaluates(r, <<"ack">>) /\ spc' = "recvGoutput"
      BY <1>2, <1>3, <1>4, <2>2, OwnerHasPiece
    <3>2. up[Owner] = <<"ack">> => up'[Owner] = <<>>
      BY <1>3, Short
    <3>3. up[Owner] = Append(<<"ack">>, AllOf(r)) => up'[Owner] = Append(<<>>, AllOf(r))
      <4>1. /\ Append(<<"ack">>, AllOf(r)) = <<"ack", AllOf(r)>>
            /\ Tail(<<"ack", AllOf(r)>>) = <<AllOf(r)>>
            /\ Append(<<>>, AllOf(r)) = <<AllOf(r)>>
        BY Short
      <4> QED
        BY <1>3, <4>1
    <3>4. OwnerEvaluates(r, <<>>)'
      BY <1>2, <1>3, <3>1, <3>2, <3>3
         DEF OwnerEvaluates, Done, Chan, peerVars, ownerVars, Secret, AllOf, Result
    <3> QED
      BY <3>1, <3>4 DEF OwnerAt, Inputs, Before, Results2
  <2> QED
    BY <2>1, <2>2
<1>6. EnclaveAt(r)'
  BY <1>1, <1>2
     DEF InRound, EnclaveAt, ProgramKey, CircuitAt, InputsAt, ResultAt, enclaveVars,
         state, Inputs, Before, Middle, Program, Garbled, Decoded, Results2, AllOf, Result
<1>7. BuffersAt(r)' /\ Placed' /\ spc' \in Middle
  BY <1>1, <1>2 DEF InRound, BuffersAt, Placed, Middle, Inputs, Before, Results2, Garbled,
                    Secret, AllOf, Result
<1> QED
  BY <1>0, <1>1, <1>2, <1>3, <1>5, <1>6, <1>7, QuietKeeps
     DEF IInv, Undisturbed, Typed, peerVars, ownerVars, enclaveVars, state, Middle, Garbled

(* The garbled output is decoded with the garblings of the same round. *)
LEMMA RecvGoutputDoes ==
  ASSUME IInv, NEW r \in Nat \ {0}, InRound(r), RecvGoutput
  PROVE  /\ up[Owner] = <<AllOf(r)>> /\ ServerGets(Owner) /\ Done("recvSize", r)
         /\ down[Owner] = <<>>
         /\ UNCHANGED <<enclave, com_to_client_key, com_key_program, damaged, C>>
         /\ output' = [ptr |-> "live", v |-> AllOf(r)]
         /\ outGarblings' = [ptr |-> "dangling", v |-> AllOf(r)]
         /\ datainput' = NULL /\ freed' \in [Clients -> Nat \cup {Junk}]
<1> USE PeersAssumption
<1>1. ServerGets(Owner) /\ up[Owner] # <<>> /\ passGoutput(Head(up[Owner]))
  BY OwnerThere, ServerChannel DEF RecvGoutput, Middle, Garbled
<1>2. /\ OwnerEvaluates(r, <<>>) /\ outGarblings = [ptr |-> "live", v |-> AllOf(r)]
      /\ C.program = r /\ datainput = [c \in Clients |-> r]
  BY DEF RecvGoutput, InRound, OwnerAt, EnclaveAt, ResultAt, CircuitAt, InputsAt, Garbled,
         Middle
<1>3. Done("recvSize", r) /\ Chan(<<AllOf(r)>>, <<>>)
  BY <1>1, <1>2, Short DEF OwnerEvaluates, Chan
<1>4. Head(up[Owner]) = AllOf(r)
  BY <1>3, Short DEF Chan
<1>5. enclave = "running" /\ damaged = FALSE /\ r # Junk
  BY JunkAssumption DEF IInv, Undisturbed
<1>6. outGarblings.ptr = "live" /\ outGarblings.v = AllOf(r)
  BY <1>2
<1>7. /\ UNCHANGED <<enclave, com_to_client_key, com_key_program, damaged, C>>
      /\ output' = [ptr |-> "live", v |-> AllOf(r)] /\ datainput' = NULL
      /\ outGarblings' = [outGarblings EXCEPT !.ptr = "dangling"]
      /\ freed' \in {freed, datainput}
  BY <1>1, <1>2, <1>4, <1>5, <1>6 DEF passGoutput, EcallFails, Crash, Running
<1>8. freed \in [Clients -> Nat \cup {Junk}] /\ datainput \in [Clients -> Nat \cup {Junk}]
  BY <1>2 DEF IInv, Typed
<1>9. [outGarblings EXCEPT !.ptr = "dangling"] = [ptr |-> "dangling", v |-> AllOf(r)]
  BY <1>2
<1> QED
  BY <1>1, <1>3, <1>7, <1>8, <1>9 DEF Chan

LEMMA RecvGoutputKeeps == ASSUME IInv, RecvGoutput PROVE IInv'
<1> USE PeersAssumption
<1>1. PICK r \in Nat \ {0} : InRound(r)
  BY DEF IInv
<1>0. open[Owner] /\ CompleteTo(r)
  BY <1>1, OwnerThere DEF RecvGoutput, Middle, Program, Garbled
<1>2. /\ spc = "recvGoutput" /\ spc' = "sendSize" /\ i' = 0
      /\ UNCHANGED <<peerVars, backlog, client_sock, sock_client_map, buffer, prog, reply>>
  BY DEF RecvGoutput, Goto
<1>3. /\ up[Owner] = <<AllOf(r)>> /\ ServerGets(Owner) /\ Done("recvSize", r)
      /\ down[Owner] = <<>>
      /\ UNCHANGED <<enclave, com_to_client_key, com_key_program, damaged, C>>
      /\ output' = [ptr |-> "live", v |-> AllOf(r)]
      /\ outGarblings' = [ptr |-> "dangling", v |-> AllOf(r)]
      /\ datainput' = NULL /\ freed' \in [Clients -> Nat \cup {Junk}]
  BY <1>1, RecvGoutputDoes
<1>4. /\ up'[Owner] = <<>> /\ DOMAIN up' = Peers
      /\ \A c \in Clients : up'[c] = up[c]
      /\ UNCHANGED <<down, open, serving, rstS, rstP>>
  <2>1. /\ up'[Owner] = Tail(up[Owner]) /\ DOMAIN up' = Peers
        /\ \A c \in Clients : up'[c] = up[c]
        /\ UNCHANGED <<down, open, serving, rstS, rstP>>
    BY <1>3, ServerChannel
  <2>2. Tail(<<AllOf(r)>>) = <<>>
    BY Short
  <2> QED
    BY <1>3, <2>1, <2>2
<1>5. OwnerAt(r)'
  BY <1>2, <1>3, <1>4
     DEF OwnerAt, Done, Chan, peerVars, ownerVars, Inputs, Before, Results2
<1>6. EnclaveAt(r)'
  BY <1>0, <1>1, <1>2, <1>3
     DEF InRound, EnclaveAt, ProgramKey, CircuitAt, InputsAt, ResultAt, Inputs, Before,
         Middle, Program, Garbled, Decoded, Results2, AllOf, Result
<1>7. BuffersAt(r)' /\ Placed'
  BY <1>2 DEF BuffersAt, Placed, Middle, Inputs, Before, Results2, Decoded
<1> QED
  BY <1>0, <1>1, <1>2, <1>3, <1>4, <1>5, <1>6, <1>7, QuietKeeps
     DEF IInv, Undisturbed, Typed, peerVars, ownerVars, Middle, Garbled

LEMMA SendSizeKeeps == ASSUME IInv, SendSize PROVE IInv'
<1> USE PeersAssumption
<1>1. PICK r \in Nat \ {0} : InRound(r)
  BY DEF IInv
<1>0. open[Owner] /\ CompleteTo(r)
  BY <1>1, OwnerThere DEF SendSize, Middle, Program, Garbled
<1>2. /\ spc = "sendSize" /\ spc' = "getOutput" /\ i' = 0
      /\ UNCHANGED <<peerVars, backlog, client_sock, sock_client_map, buffer, prog, reply,
                     enclaveVars>>
  BY DEF SendSize, Goto
<1>3. /\ down'[Owner] = Append(down[Owner], "size") /\ DOMAIN down' = Peers
      /\ \A c \in Clients : down'[c] = down[c]
      /\ UNCHANGED <<up, open, serving, rstS, rstP>>
  BY <1>0, ServerChannel DEF SendSize
<1>4. OwnerAt(r)'
  <2>1. Done("recvSize", r) /\ Chan(<<>>, <<>>)
    BY <1>1, <1>2 DEF InRound, OwnerAt
  <2>2. Done("recvSize", r)' /\ Chan(<<>>, <<"size">>)' /\ (r + 1) - 1 = r
    BY <1>2, <1>3, <2>1, Short DEF Done, Chan, peerVars, ownerVars
  <2>3. OwnerBefore(r + 1)'
    BY <2>2 DEF OwnerBefore
  <2> QED
    BY <1>2, <2>3 DEF OwnerAt, Inputs, Before
<1>5. EnclaveAt(r)'
  BY <1>1, <1>2
     DEF InRound, EnclaveAt, ProgramKey, CircuitAt, InputsAt, ResultAt, enclaveVars,
         state, Inputs, Before, Middle, Program, Garbled, Decoded, Results2, AllOf, Result
<1>6. BuffersAt(r)' /\ Placed'
  BY <1>2, ClientsAssumption
     DEF BuffersAt, Placed, Clients, Middle, Inputs, Before, Results2, Decoded
<1> QED
  BY <1>0, <1>1, <1>2, <1>3, <1>4, <1>5, <1>6, QuietKeeps
     DEF IInv, Undisturbed, Typed, peerVars, ownerVars, enclaveVars, state

(* The server does not end. *)
LEMMA NobodyIsKilled ==
  ASSUME IInv
  PROVE  ~ServerKilled
<1> USE PeersAssumption
<1>1. PICK r \in Nat \ {0} : InRound(r)
  BY DEF IInv
<1>2. /\ enclave = "running" /\ rstS[Owner] # "arrived"
      /\ \A n \in Clients : spc # "accept" => Sock(n) \in Clients /\ rstS[Sock(n)] # "arrived"
  BY Positions DEF IInv, Undisturbed
<1>3. spc = "passProgram" => Assembled(buffer) # Nothing
  BY <1>1, PiecesAssemble DEF InRound, BuffersAt, Plain, Encrypt, Nothing
<1> QED
  BY <1>2, <1>3 DEF ServerKilled, IInv, Placed, Results2

-----------------------------------------------------------------------------
(* The server with the clients. *)

LEMMA AcceptConnects == ASSUME Connected, Placed, Accept PROVE Connected'
<1> USE ClientsAssumption DEF Accept, Goto, peerVars, clientVars
<1>1. /\ Head(backlog) = backlog[1] /\ Len(backlog) > 0
      /\ backlog' \in Seq(Clients) /\ Len(backlog') = Len(backlog) - 1
      /\ \A n \in 1..Len(backlog') : backlog'[n] = backlog[n + 1]
  BY DEF Connected
<1>2. Len(client_sock) = i /\ i \in Nat /\ i < NUM_OF_CLIENTS
  BY DEF Connected, Placed, Clients
<1>3. /\ Len(client_sock') = i + 1 /\ client_sock' \in Seq(Clients)
      /\ \A n \in 1..i : client_sock'[n] = client_sock[n]
      /\ client_sock'[i + 1] = backlog[1]
  BY <1>1, <1>2 DEF Connected
<1>4. \A m, n \in 1..Len(client_sock') : client_sock'[m] = client_sock'[n] => m = n
  <2>1. \A n \in 1..i : client_sock'[n] # client_sock'[i + 1]
    BY <1>1, <1>2, <1>3 DEF Connected
  <2> QED
    BY <1>2, <1>3, <2>1 DEF Connected
<1>5. \A m, n \in 1..Len(backlog') : backlog'[m] = backlog'[n] => m = n
  <2> SUFFICES ASSUME NEW m \in 1..Len(backlog'), NEW n \in 1..Len(backlog'),
                      backlog'[m] = backlog'[n]
               PROVE  m = n
    OBVIOUS
  <2>1. m + 1 \in 1..Len(backlog) /\ n + 1 \in 1..Len(backlog)
    BY <1>1 DEF Connected
  <2>2. m + 1 = n + 1
    BY <1>1, <2>1 DEF Connected
  <2> QED
    BY <2>2
<1>6. \A m \in 1..Len(client_sock') : \A n \in 1..Len(backlog') :
        client_sock'[m] # backlog'[n]
  <2> SUFFICES ASSUME NEW m \in 1..Len(client_sock'), NEW n \in 1..Len(backlog')
               PROVE  client_sock'[m] # backlog'[n]
    OBVIOUS
  <2>1. n + 1 \in 1..Len(backlog) /\ 1 \in 1..Len(backlog) /\ n + 1 # 1
    BY <1>1 DEF Connected
  <2>2. backlog'[n] = backlog[n + 1]
    BY <1>1
  <2>3. CASE m = i + 1
    BY <1>3, <2>1, <2>2, <2>3 DEF Connected
  <2>4. CASE m # i + 1
    BY <1>2, <1>3, <2>1, <2>2, <2>4 DEF Connected
  <2> QED
    BY <2>3, <2>4
<1>7. \A n \in 1..Len(client_sock') : cpc'[client_sock'[n]] # "connect"
  BY <1>1, <1>2, <1>3 DEF Connected
<1>8. \A n \in 1..Len(backlog') : cpc'[backlog'[n]] # "connect"
  BY <1>1 DEF Connected
<1>9. \/ spc' = "accept" /\ i' = i + 1
      \/ spc' = "acceptOwner" /\ i + 1 = NUM_OF_CLIENTS
  BY <1>2
<1> QED
  BY <1>1, <1>2, <1>3, <1>4, <1>5, <1>6, <1>7, <1>8, <1>9 DEF Connected

LEMMA AcceptKeeps == ASSUME IInv, Accept PROVE IInv'
<1> USE ClientsAssumption, PeersAssumption
<1>1. PICK r \in Nat \ {0} : InRound(r)
  BY DEF IInv
<1>2. /\ spc = "accept" /\ i \in Clients
      /\ \/ spc' = "accept" /\ i' = i + 1 /\ i + 1 < NUM_OF_CLIENTS
         \/ spc' = "acceptOwner"
      /\ UNCHANGED <<peerVars, sock_client_map, buffer, prog, reply, enclaveVars, sockets>>
  BY DEF Accept, Goto, IInv, Placed
<1>3. Placed'
  BY <1>2 DEF Placed, Inputs, Before, Results2, Clients
<1>4. Typed' /\ Undisturbed' /\ RoundIntegrity' /\ Identified'
  BY <1>2 DEF IInv, Typed, Undisturbed, RoundIntegrity, Identified, Middle, Decoded, Results2,
              Program, Garbled, peerVars, ownerVars, clientVars, enclaveVars, state, sockets,
              AllOf, Result
<1>5. \A c : /\ ~Got(c) /\ ~Given(c) /\ ~Taken(c)
             /\ ~Got(c)' /\ ~Given(c)' /\ ~Taken(c)'
  BY <1>2 DEF Got, Given, Taken, Middle, Decoded, Results2, Program, Garbled
<1>90. Present'
  BY <1>2, PresentKept DEF IInv, peerVars, clientVars, ownerVars, sockets
<1>91. CompleteAt(r)'
  BY <1>1, <1>2, <1>5, CompleteKept DEF InRound, Inputs, Before, peerVars
<1>6. ClientsAt(r)'
  BY <1>1, <1>2, <1>5, ClientKept DEF InRound, ClientsAt, peerVars, clientVars, sockets
<1>7. ClientKeys(r)'
  BY <1>1, <1>2, <1>5
     DEF InRound, ClientKeys, peerVars, clientVars, enclaveVars, state
<1>8. OwnerAt(r)'
  <2>1. OwnerBefore(r)
    BY <1>1, <1>2 DEF InRound, OwnerAt, Inputs, Before
  <2>2. OwnerBefore(r)'
    BY <1>2, <2>1 DEF OwnerBefore, At, Done, Chan, peerVars, ownerVars, sockets
  <2> QED
    BY <1>2, <2>2 DEF OwnerAt, Results2
<1>9. EnclaveAt(r)' /\ BuffersAt(r)'
  BY <1>1, <1>2
     DEF InRound, EnclaveAt, ProgramKey, CircuitAt, InputsAt, ResultAt, BuffersAt, enclaveVars,
         state, Inputs, Before, Middle, Program, Garbled, Decoded, Results2, AllOf, Result
<1> QED
  BY <1>3, <1>4, <1>6, <1>7, <1>8, <1>9, <1>90, <1>91, AcceptConnects
     DEF IInv, InRound

(* The server reads an input that was sent in this round, and the enclave  *)
(* decrypts it. *)
LEMMA RecvInputDoes ==
  ASSUME HasRoom, IInv, NEW r \in Nat \ {0}, InRound(r), RecvInput
  PROVE  /\ i \in Clients /\ Sock(i) \in Clients
         /\ OnItsWay(Sock(i), r) /\ ServerGets(Sock(i))
         /\ sock_client_map' = [sock_client_map EXCEPT ![i] = Sock(i)]
         /\ com_to_client_key' = [com_to_client_key EXCEPT ![Sock(i)] = @ + 1]
         /\ UNCHANGED <<enclave, damaged, com_key_program, freed, C, outGarblings, output>>
         /\ \E buf \in [Clients -> Nat \cup {Junk}] :
              /\ buf \in IF datainput = NULL THEN NewInputs ELSE {datainput}
              /\ i > 0 => buf = datainput
              /\ datainput' = [buf EXCEPT ![Sock(i)] = Input(Sock(i), r)]
<1> USE ClientsAssumption, PeersAssumption DEF IInv
<1> DEFINE c == Sock(i)
<1>1. spc = "recvInput" /\ i \in Clients /\ c \in Clients /\ Position(c) = i
  BY Positions DEF RecvInput, Placed
<1>2. ServerGets(c) /\ up[c] # <<>>
  BY <1>1 DEF RecvInput, ServerGets
<1>3. ~Got(c) /\ ~Given(c) /\ ~Taken(c)
  BY <1>1 DEF Got, Given, Taken, Middle, Decoded, Results2, Program, Garbled, Clients
<1>4. OnItsWay(c, r)
  <2>1. Between(c, r - 1)
    BY <1>1, <1>3 DEF InRound, ClientsAt, ClientAt
  <2> QED
    BY <1>2, <2>1 DEF Between, Answering, Idle
<1>5. up[c] = <<InputSent(c, r)>>
  BY <1>4 DEF OnItsWay
<1>6. Head(up[c]) = InputSent(c, r)
  BY <1>5
<1>7. Head(up[c]).id = c /\ Head(up[c]).m = Encrypt(c + 2 * r - 2, Input(c, r))
  BY <1>6 DEF InputSent
<1>8. com_to_client_key[c] = c + 2 * r - 2
  <2>1. com_to_client_key[c] = c + 2 * (r - 1) + 0 + 0
    BY <1>1, <1>3 DEF InRound, ClientKeys
  <2>2. c \in Int
    BY <1>1 DEF Clients
  <2> QED
    BY <2>1, <2>2
<1>9. Decrypt(com_to_client_key[c], Head(up[c]).m) = Input(c, r)
  BY <1>7, <1>8 DEF Decrypt, Encrypt
<1>10. /\ sock_client_map' = [sock_client_map EXCEPT ![i] = c]
       /\ passInput(c, Head(up[c]).m)
  BY <1>7 DEF RecvInput
<1>11. enclave = "running" /\ damaged = FALSE /\ ~(c >= Room)
  BY <1>1 DEF Undisturbed, HasRoom, Room, Clients
<1> HIDE DEF c
<1>12. /\ com_to_client_key' = [com_to_client_key EXCEPT ![c] = @ + 1]
       /\ damaged' = FALSE
       /\ UNCHANGED <<enclave, com_key_program, freed, C, outGarblings, output>>
       /\ \E buf \in IF datainput = NULL THEN NewInputs ELSE {datainput} :
            datainput' = [buf EXCEPT ![c] = Input(c, r)]
  BY <1>9, <1>10, <1>11 DEF passInput, Running, EcallFails, Crash
<1>13. NewInputs \subseteq [Clients -> Nat \cup {Junk}]
  BY DEF NewInputs, Typed
<1>14. /\ i = 0 => datainput = NULL
       /\ i > 0 => datainput \in [Clients -> Nat \cup {Junk}] /\ datainput # NULL
  BY <1>1, NullAssumption DEF InRound, EnclaveAt, InputsAt
<1>15. \E buf \in [Clients -> Nat \cup {Junk}] :
         /\ buf \in IF datainput = NULL THEN NewInputs ELSE {datainput}
         /\ (i > 0 => buf = datainput) /\ datainput' = [buf EXCEPT ![c] = Input(c, r)]
  <2>1. CASE i = 0
    BY <1>12, <1>13, <1>14, <2>1
  <2>2. CASE i > 0
    BY <1>12, <1>14, <2>2
  <2> QED
    BY <1>1, <2>1, <2>2 DEF Clients
<1> QED
  BY <1>1, <1>2, <1>4, <1>10, <1>11, <1>12, <1>15 DEF c

LEMMA RecvInputKeeps ==
  ASSUME HasRoom, IInv, NEW r \in Nat \ {0}, InRound(r), RecvInput, ~BadInput(Sock(i), r)
  PROVE  IInv'
<1> USE ClientsAssumption, PeersAssumption, ChunksAssumption
<1>1. InRound(r) /\ r \in Nat \ {0}
  OBVIOUS
<1>0. PICK c0 \in Clients : c0 = Sock(i)
  BY <1>1, RecvInputDoes
<1>2. /\ i \in Clients /\ c0 \in Clients
      /\ OnItsWay(c0, r) /\ ServerGets(c0)
      /\ sock_client_map' = [sock_client_map EXCEPT ![i] = c0]
      /\ com_to_client_key' = [com_to_client_key EXCEPT ![c0] = @ + 1]
      /\ UNCHANGED <<enclave, damaged, com_key_program, freed, C, outGarblings, output>>
  BY <1>0, <1>1, RecvInputDoes
<1>3. PICK buf \in [Clients -> Nat \cup {Junk}] :
        /\ i > 0 => buf = datainput
        /\ datainput' = [buf EXCEPT ![c0] = r]
  BY <1>0, <1>1, RecvInputDoes DEF Input
<1>4. /\ spc = "recvInput"
      /\ \/ spc' = "recvInput" /\ i' = i + 1 /\ i + 1 < NUM_OF_CLIENTS
         \/ spc' = "recvProgram" /\ i' = 1 /\ i + 1 = NUM_OF_CLIENTS
      /\ UNCHANGED <<peerVars, backlog, client_sock, buffer, prog, reply>>
  BY <1>2 DEF RecvInput, Goto, Clients
<1>5. /\ up[c0] # <<>> /\ up'[c0] = Tail(up[c0]) /\ DOMAIN up' = Peers
      /\ \A q \in Peers : q # c0 => up'[q] = up[q]
      /\ UNCHANGED <<down, open, serving, rstS, rstP>>
  BY <1>2, ServerChannel
<1>6. /\ \A c \in Clients : Position(c) \in Clients /\ Sock(Position(c)) = c
      /\ \A n \in Clients : Sock(n) \in Clients /\ Position(Sock(n)) = n
  BY <1>4, Positions DEF IInv
<1>7. ~Got(c0) /\ Got(c0)'
  <2>1. Position(c0) = i /\ Position(c0)' = i
    BY <1>0, <1>2, <1>4, <1>6, PositionKept
  <2> QED
    BY <1>2, <1>4, <2>1 DEF Got, Middle, Decoded, Results2, Program, Garbled, Clients
<1>8. ASSUME NEW c \in Clients, c # c0 PROVE Got(c)' <=> Got(c)
  <2>1. Position(c)' = Position(c) /\ Position(c) \in Clients /\ Position(c) # i
    BY <1>4, <1>6, <1>8, <1>0, PositionKept
  <2> QED
    BY <1>2, <1>4, <2>1 DEF Got, Middle, Decoded, Results2, Program, Garbled, Clients
<1>9. \A c : ~Given(c) /\ ~Given(c)' /\ ~Taken(c) /\ ~Taken(c)'
  BY <1>4 DEF Given, Taken, Results2
<1>10. UNCHANGED <<cpc, com_key, crounds, results>>
  BY <1>4 DEF peerVars, clientVars
<1>90. Present'
  BY <1>4, <1>5, PresentKept DEF IInv, peerVars, clientVars, ownerVars
<1>91. CompleteAt(r)'
  <2>1. \A c \in Clients : Got(c)' => ~BadInput(c, r)
    BY <1>0, <1>1, <1>8 DEF InRound, CompleteAt
  <2>2. CompleteTo(r - 1)
    BY <1>1 DEF InRound, CompleteAt
  <2>3. UNCHANGED scenario
    BY <1>4 DEF peerVars
  <2> QED
    BY <1>4, <2>1, <2>2, <2>3 DEF CompleteAt, CompleteTo, BadInput, QuitAfter, Inputs
<1>11. ClientsAt(r)'
  <2>1. ASSUME NEW c \in Clients, c # c0 PROVE ClientAt(c, r)'
    BY <1>1, <1>4, <1>5, <1>8, <1>9, <1>10, <2>1, ClientKept
       DEF InRound, ClientsAt, peerVars
  <2>2. Pending(c0, r)'
    <3>1. up'[c0] = <<>>
      BY <1>2, <1>5, Short DEF OnItsWay
    <3> QED
      BY <1>2, <1>5, <1>10, <3>1 DEF OnItsWay, Pending, Awaits
  <2>3. ClientAt(c0, r)'
    BY <1>7, <1>9, <2>2 DEF ClientAt
  <2> QED
    BY <2>1, <2>3 DEF ClientsAt
<1>12. ClientKeys(r)'
  <2> SUFFICES ASSUME NEW c \in Clients
               PROVE  /\ com_key'[c] = c + crounds'[c] + Len(results'[c])
                      /\ com_to_client_key'[c] =
                           c + 2 * (r - 1) + (IF Got(c)' THEN 1 ELSE 0)
                             + (IF Taken(c)' THEN 1 ELSE 0)
    BY DEF ClientKeys
  <2>1. /\ com_key[c] = c + crounds[c] + Len(results[c])
        /\ com_to_client_key[c] = c + 2 * (r - 1) + (IF Got(c) THEN 1 ELSE 0)
                                    + (IF Taken(c) THEN 1 ELSE 0)
    BY <1>1 DEF InRound, ClientKeys
  <2>2. c \in Int
    BY DEF Clients
  <2>3. CASE c # c0
    BY <1>2, <1>8, <1>9, <1>10, <2>1, <2>3 DEF IInv, Typed
  <2>4. CASE c = c0
    <3>1. com_to_client_key'[c] = com_to_client_key[c] + 1
      BY <1>2, <2>4 DEF IInv, Typed
    <3> QED
      BY <1>7, <1>9, <1>10, <2>1, <2>2, <2>4, <3>1
  <2> QED
    BY <2>3, <2>4
<1>13. OwnerAt(r)'
  <2>1. OwnerBefore(r)
    BY <1>1, <1>4 DEF InRound, OwnerAt, Inputs, Before
  <2>2. OwnerBefore(r)'
    BY <1>2, <1>4, <1>5, <2>1 DEF OwnerBefore, At, Done, Chan, peerVars, ownerVars
  <2> QED
    BY <1>4, <2>2 DEF OwnerAt, OwnerSends, Results2, Inputs, Before
<1>14. InputsAt(r)'
  <2>1. datainput' \in [Clients -> Nat \cup {Junk}]
    BY <1>2, <1>3
  <2>2. ASSUME NEW c \in Clients, Got(c)' PROVE datainput'[c] = r
    <3>1. CASE c = c0
      BY <1>3, <3>1
    <3>2. CASE c # c0
      <4>1. Got(c)
        BY <1>8, <2>2, <3>2
      <4>2. Position(c) < i /\ Position(c) \in Clients
        BY <1>4, <1>6, <4>1 DEF Got, Middle, Decoded, Results2, Program, Garbled
      <4>3. i > 0 /\ buf = datainput
        BY <1>2, <1>3, <4>2 DEF Clients
      <4>4. datainput[c] = r
        BY <1>1, <1>4, <4>1, <4>3 DEF InRound, EnclaveAt, InputsAt
      <4> QED
        BY <1>3, <3>2, <4>3, <4>4
    <3> QED
      BY <3>1, <3>2
  <2>3. spc' = "recvProgram" => datainput' = [c \in Clients |-> r]
    <3> SUFFICES ASSUME spc' = "recvProgram" PROVE datainput' = [c \in Clients |-> r]
      OBVIOUS
    <3>1. \A c \in Clients : datainput'[c] = r
      BY <2>2 DEF Got, Middle, Program
    <3> QED
      BY <2>1, <3>1
  <2>4. spc' = "recvInput" => i' > 0
    BY <1>2, <1>4 DEF Clients
  <2> QED
    BY <1>4, <2>1, <2>2, <2>3, <2>4
       DEF InputsAt, Before, Decoded, Results2, Middle, Program, Garbled
<1>15. EnclaveAt(r)'
  BY <1>1, <1>2, <1>4, <1>14
     DEF InRound, EnclaveAt, ProgramKey, CircuitAt, ResultAt, Inputs, Before, Middle, Program,
         Garbled, Decoded, Results2, AllOf, Result
<1>16. BuffersAt(r)'
  <2>1. buffer = <<>>
    BY <1>1, <1>4 DEF InRound, BuffersAt, Inputs
  <2>2. Pieces(Plain(r), 0) = <<>>
    BY PiecesGrow
  <2> QED
    BY <1>4, <2>1, <2>2 DEF BuffersAt, Inputs, Before, Plain
<1>17. Placed'
  BY <1>2, <1>4 DEF Placed, Inputs, Before, Middle, Program, Results2, Clients
<1>18. Identified'
  <2>1. \A n \in Clients : Sock(n)' = Sock(n)
    BY <1>4 DEF Sock
  <2>2. ASSUME NEW n \in Clients, spc' = "recvInput" => n < i'
        PROVE  sock_client_map'[n] = Sock(n)
    <3>1. n = i \/ n < i
      BY <1>2, <1>4, <2>2 DEF Clients
    <3> QED
      BY <1>2, <1>4, <1>0, <3>1 DEF IInv, Typed, Identified
  <2> QED
    BY <1>4, <2>1, <2>2 DEF Identified, Middle, Decoded, Results2, Program, Garbled
<1>19. Connected'
  BY <1>4, <1>10 DEF IInv, Connected
<1>20. Typed'
  <2>1. sock_client_map' \in [Clients -> Clients \cup {Unknown}]
    BY <1>2 DEF IInv, Typed
  <2>2. com_to_client_key' \in [Clients -> Int]
    BY <1>2 DEF IInv, Typed
  <2> QED
    BY <1>2, <1>4, <1>5, <1>10, <2>1, <2>2 DEF IInv, Typed, peerVars, ownerVars
<1>21. Undisturbed' /\ RoundIntegrity'
  BY <1>2, <1>4, <1>5, <1>10
     DEF IInv, Undisturbed, RoundIntegrity, peerVars, AllOf, Result
<1> QED
  BY <1>11, <1>12, <1>13, <1>15, <1>16, <1>17, <1>18, <1>19, <1>20, <1>21, <1>90, <1>91
     DEF IInv, InRound

(* The result is encrypted for the client that the server then writes to.   *)
LEMMA GetOutputDoes ==
  ASSUME IInv, NEW r \in Nat \ {0}, InRound(r), GetOutput
  PROVE  /\ i \in Clients /\ Sock(i) \in Clients
         /\ reply' = Reply(Sock(i), r)
         /\ com_to_client_key' = [com_to_client_key EXCEPT ![Sock(i)] = @ + 1]
         /\ UNCHANGED <<enclave, com_key_program, datainput, freed, damaged, C, outGarblings,
                        output>>
<1> USE ClientsAssumption, UnknownAssumption DEF IInv
<1> DEFINE c == Sock(i)
<1>1. spc = "getOutput" /\ i \in Clients /\ c \in Clients /\ Position(c) = i
  BY Positions DEF GetOutput, Placed, Results2
<1>2. sock_client_map[i] = c
  BY <1>1 DEF Identified, Decoded, Results2
<1>3. Indices(sock_client_map[i]) = {c}
  BY <1>1, <1>2 DEF Indices
<1>4. getOutputFromEnclave(c) /\ reply' \in IF outbuf' = Nothing THEN {reply, Nothing} ELSE {outbuf'}
  BY <1>3 DEF GetOutput
<1>5. /\ enclave = "running" /\ output = [ptr |-> "live", v |-> AllOf(r)]
      /\ C.program = r /\ r # Junk
  BY <1>1, JunkAssumption
     DEF Undisturbed, InRound, EnclaveAt, ResultAt, CircuitAt, Decoded, Results2
<1>6. output.ptr = "live" /\ output.v = AllOf(r)
  BY <1>5
<1>7. com_to_client_key[c] = c + 2 * r - 1
  <2>1. Got(c) /\ ~Taken(c)
    BY <1>1 DEF Got, Taken, Decoded, Results2, Clients
  <2>2. com_to_client_key[c] = c + 2 * (r - 1) + 1 + 0
    BY <1>1, <2>1 DEF InRound, ClientKeys
  <2>3. c \in Int
    BY <1>1 DEF Clients
  <2> QED
    BY <2>2, <2>3
<1> HIDE DEF c
<1>8. /\ outbuf' = Encrypt(com_to_client_key[c], AllOf(r))
      /\ com_to_client_key' = [com_to_client_key EXCEPT ![c] = @ + 1]
      /\ UNCHANGED <<enclave, com_key_program, datainput, freed, damaged, C, outGarblings,
                     output>>
  BY <1>1, <1>4, <1>5, <1>6 DEF getOutputFromEnclave, Running, EcallFails, Crash
<1>9. outbuf' = Reply(c, r)
  BY <1>7, <1>8 DEF Reply
<1>10. outbuf' # Nothing
  <2>1. c + 2 * r - 1 # -1
    BY <1>1 DEF Clients
  <2> QED
    BY <1>9, <2>1 DEF Reply, Encrypt, Nothing
<1> QED
  BY <1>1, <1>4, <1>8, <1>9, <1>10 DEF c

LEMMA GetOutputKeeps == ASSUME IInv, GetOutput PROVE IInv'
<1> USE ClientsAssumption
<1>1. PICK r \in Nat \ {0} : InRound(r)
  BY DEF IInv
<1>0. PICK c0 \in Clients : c0 = Sock(i)
  BY <1>1, GetOutputDoes
<1>2. /\ i \in Clients /\ reply' = Reply(c0, r)
      /\ com_to_client_key' = [com_to_client_key EXCEPT ![c0] = @ + 1]
      /\ UNCHANGED <<enclave, com_key_program, datainput, freed, damaged, C, outGarblings,
                     output>>
  BY <1>0, <1>1, GetOutputDoes
<1>3. /\ spc = "getOutput" /\ spc' = "writeOutput" /\ i' = i
      /\ UNCHANGED <<peerVars, backlog, client_sock, sock_client_map, buffer, prog, sockets>>
  BY DEF GetOutput, Goto
<1>4. /\ \A c \in Clients : Position(c) \in Clients /\ Sock(Position(c)) = c
      /\ Position(c0) = i
  BY <1>0, <1>2, <1>3, Positions DEF IInv
<1>5. UNCHANGED <<cpc, com_key, crounds, results>>
  BY <1>3 DEF peerVars, clientVars
<1>6. ASSUME NEW c \in Clients
      PROVE  /\ (Got(c)' <=> Got(c)) /\ (Given(c)' <=> Given(c))
             /\ Taken(c)' <=> Taken(c) \/ c = c0
             /\ c = c0 => ~Taken(c)
  <2>1. Position(c)' = Position(c) /\ Position(c) \in Clients /\ (Position(c) = i => c = c0)
    BY <1>0, <1>3, <1>4, PositionKept
  <2> QED
    BY <1>2, <1>3, <1>4, <2>1
       DEF Got, Given, Taken, Middle, Decoded, Results2, Program, Garbled, Clients
<1>90. Present'
  BY <1>3, PresentKept DEF IInv, peerVars, clientVars, ownerVars, sockets
<1>91. CompleteAt(r)'
  BY <1>1, <1>3, <1>6, CompleteKept DEF InRound, CompleteAt, Inputs, Before, peerVars
<1>7. ClientsAt(r)'
  BY <1>1, <1>3, <1>5, <1>6, ClientKept DEF InRound, ClientsAt, sockets, peerVars
<1>8. ClientKeys(r)'
  <2> SUFFICES ASSUME NEW c \in Clients
               PROVE  /\ com_key'[c] = c + crounds'[c] + Len(results'[c])
                      /\ com_to_client_key'[c] =
                           c + 2 * (r - 1) + (IF Got(c)' THEN 1 ELSE 0)
                             + (IF Taken(c)' THEN 1 ELSE 0)
    BY DEF ClientKeys
  <2>1. /\ com_key[c] = c + crounds[c] + Len(results[c])
        /\ com_to_client_key[c] = c + 2 * (r - 1) + (IF Got(c) THEN 1 ELSE 0)
                                    + (IF Taken(c) THEN 1 ELSE 0)
    BY <1>1 DEF InRound, ClientKeys
  <2>2. c \in Int
    BY DEF Clients
  <2>3. CASE c # c0
    BY <1>2, <1>5, <1>6, <2>1, <2>3 DEF IInv, Typed
  <2>4. CASE c = c0
    <3>1. com_to_client_key'[c] = com_to_client_key[c] + 1
      BY <1>2, <2>4 DEF IInv, Typed
    <3> QED
      BY <1>5, <1>6, <2>1, <2>2, <2>4, <3>1
  <2> QED
    BY <2>3, <2>4
<1>9. OwnerAt(r)'
  <2>1. OwnerBefore(r + 1)
    BY <1>1, <1>3 DEF InRound, OwnerAt, Results2
  <2>2. OwnerBefore(r + 1)'
    BY <1>3, <2>1 DEF OwnerBefore, At, Done, Chan, peerVars, ownerVars, sockets
  <2> QED
    BY <1>3, <2>2 DEF OwnerAt, Results2, Inputs, Before
<1>10. EnclaveAt(r)'
  BY <1>1, <1>2, <1>3
     DEF InRound, EnclaveAt, ProgramKey, CircuitAt, InputsAt, ResultAt, Inputs, Before, Middle,
         Program, Garbled, Decoded, Results2, AllOf, Result
<1>11. BuffersAt(r)'
  <2>1. Sock(i)' = c0
    BY <1>0, <1>3 DEF Sock
  <2>2. Reply(c0, r)' = Reply(c0, r)
    BY DEF Reply, AllOf, Result
  <2> QED
    BY <1>2, <1>3, <2>1 DEF BuffersAt, Inputs, Before, Reply, AllOf, Result
<1>12. Placed' /\ Identified'
  BY <1>2, <1>3
     DEF IInv, Placed, Identified, Inputs, Before, Middle, Program, Garbled, Decoded, Results2,
         Sock
<1>13. Connected'
  BY <1>3, <1>5 DEF IInv, Connected
<1>14. Typed'
  <2>1. com_to_client_key' \in [Clients -> Int]
    BY <1>2 DEF IInv, Typed
  <2> QED
    BY <1>2, <1>3, <1>5, <2>1 DEF IInv, Typed, peerVars, ownerVars, sockets
<1>15. Undisturbed' /\ RoundIntegrity'
  BY <1>2, <1>3, <1>5
     DEF IInv, Undisturbed, RoundIntegrity, peerVars, sockets, AllOf, Result
<1> QED
  BY <1>7, <1>8, <1>9, <1>10, <1>11, <1>12, <1>13, <1>14, <1>15, <1>90, <1>91
     DEF IInv, InRound

LEMMA WriteOutputKeeps == ASSUME IInv, WriteOutput PROVE IInv'
<1> USE ClientsAssumption, PeersAssumption
<1>1. PICK r \in Nat \ {0} : InRound(r)
  BY DEF IInv
<1>2. /\ spc = "writeOutput" /\ i \in Clients
      /\ \/ spc' = "getOutput" /\ i' = i + 1 /\ i + 1 < NUM_OF_CLIENTS
         \/ spc' = "freeEnc" /\ i + 1 = NUM_OF_CLIENTS
      /\ UNCHANGED <<peerVars, backlog, client_sock, sock_client_map, buffer, prog, reply,
                     enclaveVars>>
  BY DEF WriteOutput, Goto, IInv, Placed, Results2, Clients
<1>3. /\ \A c \in Clients : Position(c) \in Clients /\ Sock(Position(c)) = c
      /\ Sock(i) \in Clients /\ Position(Sock(i)) = i
  BY <1>2, Positions DEF IInv
<1>0. PICK c0 \in Clients : c0 = Sock(i)
  BY <1>3
<1>92. open[c0]
  <2>1. Got(c0) /\ ~Given(c0)
    BY <1>0, <1>2, <1>3 DEF Got, Given, Decoded, Results2, Clients
  <2>2. cpc[c0] = "recv"
    BY <1>1, <2>1 DEF InRound, ClientsAt, ClientAt, Pending, Awaits
  <2> QED
    BY <2>2 DEF IInv, Present
<1>4. /\ down'[c0] = Append(down[c0], Reply(c0, r)) /\ DOMAIN down' = Peers
      /\ \A q \in Peers : q # c0 => down'[q] = down[q]
      /\ UNCHANGED <<up, open, serving, rstS, rstP>>
  <2>1. ServerSends(c0, Reply(c0, r))
    BY <1>0, <1>1 DEF WriteOutput, InRound, BuffersAt
  <2> QED
    BY <1>92, <2>1, ServerChannel
<1>5. UNCHANGED <<cpc, com_key, crounds, results>>
  BY <1>2 DEF peerVars, clientVars
<1>6. ASSUME NEW c \in Clients
      PROVE  /\ Got(c) /\ Got(c)' /\ (Taken(c)' <=> Taken(c))
             /\ Given(c)' <=> Given(c) \/ c = c0
             /\ c = c0 => ~Given(c)
  <2>1. Position(c)' = Position(c) /\ Position(c) \in Clients /\ (Position(c) = i <=> c = c0)
    BY <1>0, <1>2, <1>3, PositionKept
  <2> QED
    BY <1>2, <2>1
       DEF Got, Given, Taken, Middle, Decoded, Results2, Program, Garbled, Clients
<1>90. Present'
  BY <1>2, <1>4, PresentKept DEF IInv, peerVars, clientVars, ownerVars
<1>91. CompleteAt(r)'
  BY <1>1, <1>2, <1>6, CompleteKept DEF InRound, CompleteAt, Inputs, Before, peerVars
<1>7. ClientsAt(r)'
  <2>1. ASSUME NEW c \in Clients, c # c0 PROVE ClientAt(c, r)'
    BY <1>1, <1>2, <1>4, <1>5, <1>6, <2>1, ClientKept DEF InRound, ClientsAt, peerVars
  <2>2. Pending(c0, r)
    BY <1>1, <1>6 DEF InRound, ClientsAt, ClientAt
  <2>3. down'[c0] = <<Reply(c0, r)>>
    BY <1>4, <2>2, Short DEF Pending
  <2>4. Answering(c0, r)'
    BY <1>4, <1>5, <2>2, <2>3 DEF Answering, Pending, Awaits, Reply, AllOf, Result
  <2>5. ClientAt(c0, r)'
    BY <1>6, <2>4 DEF ClientAt, Between
  <2> QED
    BY <2>1, <2>5 DEF ClientsAt
<1>8. ClientKeys(r)'
  BY <1>1, <1>2, <1>5, <1>6 DEF InRound, ClientKeys, enclaveVars, state
<1>9. OwnerAt(r)'
  <2>1. OwnerBefore(r + 1)
    BY <1>1, <1>2 DEF InRound, OwnerAt, Results2
  <2>2. OwnerBefore(r + 1)'
    BY <1>0, <1>2, <1>4, <2>1 DEF OwnerBefore, At, Done, Chan, peerVars, ownerVars
  <2> QED
    BY <1>2, <2>2 DEF OwnerAt, Results2, Inputs, Before
<1>10. EnclaveAt(r)'
  BY <1>1, <1>2
     DEF InRound, EnclaveAt, ProgramKey, CircuitAt, InputsAt, ResultAt, Inputs, Before, Middle,
         Program, Garbled, Decoded, Results2, AllOf, Result, enclaveVars, state
<1>11. BuffersAt(r)' /\ Placed' /\ Identified'
  BY <1>2
     DEF IInv, BuffersAt, Placed, Identified, Inputs, Before, Middle, Program, Garbled, Decoded,
         Results2, Sock, Clients
<1>12. Connected'
  BY <1>2, <1>5 DEF IInv, Connected
<1>13. Typed' /\ Undisturbed' /\ RoundIntegrity'
  BY <1>2, <1>4, <1>5
     DEF IInv, Typed, Undisturbed, RoundIntegrity, peerVars, ownerVars, enclaveVars, state,
         AllOf, Result
<1> QED
  BY <1>7, <1>8, <1>9, <1>10, <1>11, <1>12, <1>13, <1>90, <1>91
     DEF IInv, InRound

(* The round is over, and the server is in the next one. *)
LEMMA FreeEncKeeps == ASSUME IInv, FreeEnc PROVE IInv'
<1> USE ClientsAssumption
<1>1. PICK r \in Nat \ {0} : InRound(r)
  BY DEF IInv
<1>2. PICK n \in Nat \ {0} : n = r + 1 /\ n - 1 = r /\ n # 1
  OBVIOUS
<1>3. /\ spc = "freeEnc" /\ spc' = "recvInput" /\ i' = 0 /\ buffer' = <<>> /\ freeEnc
      /\ UNCHANGED <<peerVars, backlog, client_sock, sock_client_map, prog, reply, sockets>>
  BY DEF FreeEnc, Goto
<1>4. /\ output = [ptr |-> "live", v |-> AllOf(r)]
      /\ C = [program |-> r, gates |-> "dangling", inpSizes |-> "live"]
      /\ enclave = "running" /\ damaged = FALSE
  BY <1>1, <1>3
     DEF InRound, EnclaveAt, ResultAt, CircuitAt, Decoded, Garbled, IInv, Undisturbed
<1>5. /\ output.ptr = "live" /\ C.inpSizes = "live"
      /\ [output EXCEPT !.ptr = "dangling"] = [ptr |-> "dangling", v |-> AllOf(r)]
      /\ [C EXCEPT !.inpSizes = "dangling"] =
           [program |-> r, gates |-> "dangling", inpSizes |-> "dangling"]
  BY <1>4
<1>6. /\ output' = [ptr |-> "dangling", v |-> AllOf(r)]
      /\ C' = [program |-> r, gates |-> "dangling", inpSizes |-> "dangling"]
      /\ UNCHANGED <<enclave, com_to_client_key, com_key_program, datainput, freed, damaged,
                     outGarblings>>
  BY <1>3, <1>4, <1>5 DEF freeEnc, Running, EcallFails, Crash
<1>7. UNCHANGED <<cpc, com_key, crounds, results>>
  BY <1>3 DEF peerVars, clientVars
<1>8. ASSUME NEW c \in Clients
      PROVE  Got(c) /\ Given(c) /\ Taken(c) /\ ~Got(c)' /\ ~Given(c)' /\ ~Taken(c)'
  <2>1. Position(c)' \in Clients
    BY <1>3, Positions, PositionKept DEF IInv
  <2> QED
    BY <1>3, <2>1 DEF Got, Given, Taken, Middle, Decoded, Results2, Program, Garbled, Clients
<1>90. Present'
  BY <1>3, PresentKept DEF IInv, peerVars, clientVars, ownerVars, sockets
<1>91. CompleteAt(n)'
  <2>1. CompleteTo(r)
    BY <1>1, <1>3 DEF InRound, CompleteAt, Inputs, Before
  <2>2. UNCHANGED scenario
    BY <1>3 DEF peerVars
  <2> QED
    BY <1>2, <1>3, <1>8, <2>1, <2>2 DEF CompleteAt, CompleteTo, QuitAfter, Inputs
<1>9. ClientsAt(n)'
  <2> SUFFICES ASSUME NEW c \in Clients PROVE ClientAt(c, n)'
    BY DEF ClientsAt
  <2>1. Between(c, r)
    BY <1>1, <1>8 DEF InRound, ClientsAt, ClientAt
  <2>2. Between(c, r)'
    BY <1>3, <1>7, <2>1
       DEF Between, Idle, OnItsWay, Answering, Awaits, InputSent, Input,
           BadInput, Reply, AllOf, Result, sockets, peerVars
  <2> QED
    BY <1>2, <1>8, <2>2 DEF ClientAt
<1>10. ClientKeys(n)'
  <2> SUFFICES ASSUME NEW c \in Clients
               PROVE  /\ com_key'[c] = c + crounds'[c] + Len(results'[c])
                      /\ com_to_client_key'[c] = c + 2 * (n - 1)
    BY <1>8 DEF ClientKeys, Clients
  <2>1. /\ com_key[c] = c + crounds[c] + Len(results[c])
        /\ com_to_client_key[c] = c + 2 * (r - 1) + 1 + 1
    BY <1>1, <1>8 DEF InRound, ClientKeys
  <2> QED
    BY <1>2, <1>6, <1>7, <2>1 DEF Clients
<1>11. OwnerAt(n)'
  <2>1. OwnerBefore(n)
    BY <1>1, <1>2, <1>3 DEF InRound, OwnerAt
  <2>2. OwnerBefore(n)'
    BY <1>3, <2>1 DEF OwnerBefore, At, Done, Chan, peerVars, ownerVars, sockets
  <2> QED
    BY <1>3, <2>2 DEF OwnerAt, Results2
<1>12. EnclaveAt(n)'
  <2>1. com_key_program = 2 * r /\ datainput = NULL /\ outGarblings.ptr # "live"
    BY <1>1, <1>3
       DEF InRound, EnclaveAt, ProgramKey, InputsAt, ResultAt, Inputs, Before, Program, Decoded,
           Garbled
  <2>2. com_key_program' = 2 * n - 2
    BY <1>2, <1>6, <2>1
  <2> QED
    BY <1>2, <1>3, <1>6, <2>1, <2>2
       DEF EnclaveAt, ProgramKey, CircuitAt, InputsAt, ResultAt, Inputs, Before, Middle,
           Program, Garbled, Decoded, Results2, AllOf, Result
<1>13. BuffersAt(n)' /\ Placed' /\ Identified'
  <2>1. \A m \in Clients : ~(m < 0)
    BY DEF Clients
  <2> QED
    BY <1>3, <2>1
       DEF BuffersAt, Placed, Identified, Inputs, Before, Middle, Program, Garbled, Decoded,
           Results2, Clients
<1>14. Connected'
  BY <1>3, <1>7 DEF IInv, Connected
<1>15. Typed' /\ Undisturbed' /\ RoundIntegrity'
  BY <1>3, <1>6, <1>7
     DEF IInv, Typed, Undisturbed, RoundIntegrity, peerVars, ownerVars, sockets, AllOf, Result
<1> QED
  BY <1>9, <1>10, <1>11, <1>12, <1>13, <1>14, <1>15, <1>90, <1>91
     DEF IInv, InRound

-----------------------------------------------------------------------------

LEMMA StuttersKeep == ASSUME IInv, UNCHANGED vars PROVE IInv'
<1> USE DEF vars, peerVars, ownerVars, clientVars, serverVars, enclaveVars, state, sockets
<1>1. PICK r \in Nat \ {0} : InRound(r)
  BY DEF IInv
<1>2. \A c : (Got(c)' <=> Got(c)) /\ (Given(c)' <=> Given(c)) /\ (Taken(c)' <=> Taken(c))
  BY PositionKept DEF Got, Given, Taken
<1>3. ClientsAt(r)' /\ ClientKeys(r)'
  BY <1>1, <1>2, ClientKept DEF InRound, ClientsAt, ClientKeys
<1>4. OwnerAt(r)' /\ EnclaveAt(r)'
  BY <1>1, OwnerAtKept, EnclaveAtKept DEF InRound
<1>5. BuffersAt(r)' /\ Placed' /\ Identified'
  BY <1>1 DEF IInv, InRound, BuffersAt, Placed, Identified, Sock, Plain, Secret, Reply, AllOf,
              Result
<1>7. Present' /\ CompleteAt(r)'
  BY <1>1, <1>2, PresentKept, CompleteKept DEF IInv, InRound, CompleteAt
<1>6. Typed' /\ Undisturbed' /\ Connected' /\ RoundIntegrity'
  BY DEF IInv, Typed, Undisturbed, Connected, RoundIntegrity, AllOf, Result
<1> QED
  BY <1>3, <1>4, <1>5, <1>6, <1>7 DEF IInv, InRound

LEMMA ListedIs == ASSUME NEW S, NEW s \in Seq(S) PROVE Listed(s)
BY Zenon DEF Listed

(* When the server reads an input that is not binary, or misses a client or *)
(* the owner, it is still before the results of its round, and everybody   *)
(* has those of the rounds before. *)
LEMMA BecomesLate ==
  ASSUME IInv, NEW r \in Nat \ {0}, InRound(r), \A c \in Clients : ~Given(c),
         ~CompleteTo(r), Faulty, UNCHANGED <<scenario, clientVars, down>>
  PROVE  Late'
<1> USE ClientsAssumption, PeersAssumption
<1>1. PICK q \in Nat : q = r - 1 /\ q + 1 = r
  OBVIOUS
<1>2. UNCHANGED <<scenario, cpc, com_key, crounds, results, down>>
  BY DEF clientVars
<1>3. ASSUME NEW c \in Clients
      PROVE  Between(c, q) \/ Pending(c, q + 1)
  BY <1>1 DEF InRound, ClientsAt, ClientAt
<1>4. ASSUME NEW c \in Clients PROVE LateAt(c, q)
  <2>1. com_key[c] = c + crounds[c] + Len(results[c])
    BY DEF InRound, ClientKeys
  <2>2. \A n \in DOMAIN results[c] : results[c][n] = AllOf(n)
    BY DEF IInv, RoundIntegrity
  <2>3. Len(results[c]) = q \/ Answering(c, q)
    BY <1>3 DEF Between, Idle, OnItsWay, Pending, Awaits
  <2>4. Answering(c, q) => NextIsReply(c, q)
    BY Short DEF Answering, NextIsReply
  <2> QED
    BY <2>1, <2>2, <2>3, <2>4 DEF LateAt
<1>5. ASSUME NEW c \in Clients PROVE Listed(results[c]) /\ Listed(down[c])
  <2>1. results[c] \in Seq(Values)
    BY DEF IInv, Typed
  <2>2. down[c] = <<>> \/ down[c] = <<Reply(c, q)>>
    BY <1>3 DEF Between, Idle, OnItsWay, Pending, Answering
  <2>3. down[c] \in Seq({Reply(c, q)})
    <3>1. <<>> \in Seq({Reply(c, q)}) /\ <<Reply(c, q)>> \in Seq({Reply(c, q)})
      OBVIOUS
    <3> QED
      BY <2>2, <3>1
  <2> QED
    BY <2>1, <2>3, ListedIs
<1>6. LateTyped
  BY <1>5, RoundsAssumption DEF LateTyped, IInv, Typed
<1>7. Faulty'
  BY <1>2 DEF Faulty, QuitAfter
<1>8. LateTyped' /\ \A c \in Clients : LateAt(c, q)'
  BY <1>2, <1>4, <1>6 DEF LateTyped, LateAt, NextIsReply, Awaits, Reply, AllOf, Result
<1>9. ~CompleteTo(q + 1)'
  BY <1>1, <1>2 DEF CompleteTo, QuitAfter
<1> QED
  BY <1>7, <1>8, <1>9 DEF Late

LEMMA RecvInputLate ==
  ASSUME HasRoom, IInv, NEW r \in Nat \ {0}, InRound(r), RecvInput, BadInput(Sock(i), r)
  PROVE  Late'
<1>1. Sock(i) \in Clients /\ ServerGets(Sock(i))
  BY RecvInputDoes
<1>2. \A c : ~Given(c)
  BY DEF RecvInput, Given, Results2
<1>3. <<Sock(i), r>> \in scenario.badInputs
  BY DEF BadInput
<1>4. ~CompleteTo(r) /\ Faulty
  BY <1>3 DEF CompleteTo, Faulty
<1>5. UNCHANGED <<scenario, clientVars, down>>
  BY <1>1 DEF RecvInput, ServerGets, peerVars
<1> QED
  BY <1>2, <1>4, <1>5, BecomesLate

LEMMA RecvInputBreakLate == ASSUME IInv, RecvInputBreak PROVE Late'
<1> USE PeersAssumption, RoundsAssumption
<1>1. PICK r \in Nat \ {0} : InRound(r)
  BY DEF IInv
<1>2. PICK c \in Clients : c = Sock(i) /\ Position(c) = i /\ i \in Clients
  BY Positions DEF RecvInputBreak, IInv, Placed
<1>3. ~open[c]
  BY <1>2, ServerChannel DEF RecvInputBreak
<1>4. crounds[c] = QuitAfter(c) /\ cpc[c] = "ended"
  BY <1>3 DEF IInv, Present
<1>5. ~Got(c) /\ \A d : ~Given(d)
  BY <1>2, ClientsAssumption
     DEF RecvInputBreak, Got, Given, Middle, Decoded, Results2, Program, Garbled, Clients
<1>6. crounds[c] = r - 1
  BY <1>1, <1>4, <1>5
     DEF InRound, ClientsAt, ClientAt, Between, Idle, OnItsWay, Answering, Awaits
<1>7. ~CompleteTo(r)
  <2>1. c \in Peers /\ QuitAfter(c) = r - 1
    BY <1>4, <1>6
  <2>2. ~(r <= QuitAfter(c))
    BY <2>1
  <2> QED
    BY <2>1, <2>2 DEF CompleteTo
<1>8. Faulty
  BY <1>4 DEF IInv, Typed, Faulty
<1>9. UNCHANGED <<scenario, clientVars, down>>
  BY DEF RecvInputBreak, peerVars, sockets
<1> QED
  BY <1>1, <1>5, <1>7, <1>8, <1>9, BecomesLate

LEMMA RecvProgramLate ==
  ASSUME IInv, RecvProgram, ServerRecvFails(Owner)
  PROVE  Late'
<1> USE PeersAssumption, RoundsAssumption
<1>1. PICK r \in Nat \ {0} : InRound(r)
  BY DEF IInv
<1>2. opc = "ended" /\ orounds = QuitAfter(Owner)
  BY ServerChannel DEF IInv, Present
<1>3. spc = "recvProgram" /\ \A c : ~Given(c)
  BY DEF RecvProgram, Given, Results2
<1>4. orounds = r - 1
  BY <1>1, <1>2, <1>3 DEF InRound, OwnerAt, OwnerSends, OwnerBefore, At, Done
<1>5. ~CompleteTo(r)
  <2>1. Owner \in Peers /\ ~(r <= QuitAfter(Owner))
    BY <1>2, <1>4
  <2> QED
    BY <2>1 DEF CompleteTo
<1>6. Faulty
  BY <1>2 DEF IInv, Typed, Faulty
<1>7. UNCHANGED <<scenario, clientVars, down>>
  BY DEF RecvProgram, ServerGets, peerVars, sockets
<1> QED
  BY <1>1, <1>3, <1>5, <1>6, <1>7, BecomesLate

LEMMA StepsKeep == ASSUME HasRoom, IInv, [Next]_vars PROVE IInv' \/ Late'
<1>1. ASSUME NEW c \in Clients, Client(c) PROVE IInv'
  BY <1>1, ConnectKeeps, SendInputKeeps, RecvResultKeeps, LeaveKeeps, NothingIsReset
     DEF Client, DataOwner
<1>2. ASSUME ProgramOwner PROVE IInv'
  BY <1>2, OwnerConnectKeeps, PrepareProgramKeeps, SendPieceKeeps, RecvAckKeeps,
     RecvPieceKeeps, SendAckKeeps, EvaluateKeeps, SendGoutputKeeps, RecvSizeKeeps,
     OwnerLeaveKeeps, NothingIsReset
     DEF ProgramOwner
<1>3. ASSUME Server PROVE IInv' \/ Late'
  <2>1. ASSUME RecvInput PROVE IInv' \/ Late'
    <3>1. PICK r \in Nat \ {0} : InRound(r)
      BY DEF IInv
    <3> QED
      BY <2>1, <3>1, RecvInputKeeps, RecvInputLate
  <2> QED
    BY <1>3, <2>1, RecvInputBreakLate, RecvProgramLate, AcceptKeeps, AcceptOwnerKeeps,
       RecvProgramKeeps, AckProgramKeeps, PassProgramKeeps, GetGCircuitKeeps,
       SendGProgramKeeps, RecvGAckKeeps, RecvGoutputKeeps, SendSizeKeeps, GetOutputKeeps,
       WriteOutputKeeps, FreeEncKeeps, NobodyIsKilled
       DEF Server
<1>4. ~Network
  BY NothingIsReset DEF Network
<1> QED
  BY <1>1, <1>2, <1>3, <1>4, StuttersKeep DEF Next

LEMMA ScenarioStays == ASSUME [Next]_vars PROVE UNCHANGED scenario
<1>1. ASSUME NEW c \in Clients, Client(c) PROVE UNCHANGED scenario
  BY <1>1 DEF Client, DataOwner, Connect, SendInput, RecvResult, Leave, ClientBrokenPipe
<1>2. ASSUME ProgramOwner PROVE UNCHANGED scenario
  BY <1>2
     DEF ProgramOwner, OwnerConnect, PrepareProgram, SendPiece, RecvAck, RecvPiece, SendAck,
         Evaluate, SendGoutput, RecvSize, OwnerLeave, OwnerBrokenPipe
<1>3. ASSUME Server PROVE UNCHANGED scenario
  BY <1>3
     DEF Server, Accept, AcceptOwner, RecvInput, RecvInputBreak, RecvProgram, AckProgram,
         PassProgram, GetGCircuit, SendGProgram, RecvGAck, RecvGoutput, SendSize, GetOutput,
         WriteOutput, FreeEnc, ServerKilled, peerVars
<1> QED
  BY <1>1, <1>2, <1>3 DEF Next, Network, vars, peerVars

LEMMA Holds == ASSUME Peaceful PROVE Spec => []IInv
<1>1. Init => IInv
  BY Initially
<1>2. IInv /\ [Next]_vars => IInv'
  <2> SUFFICES ASSUME IInv, [Next]_vars PROVE IInv'
    OBVIOUS
  <2>1. IInv' \/ Late'
    BY StepsKeep DEF Peaceful
  <2>2. ~Faulty
    <3>1. scenario.badInputs = {}
      BY DEF IInv, Undisturbed, Peaceful
    <3>2. ASSUME NEW p \in Peers PROVE ~(QuitAfter(p) <= Rounds)
      <4>1. QuitAfter(p) \in Nat /\ QuitAfter(p) > Rounds
        BY Peace DEF IInv
      <4> QED
        BY <4>1, RoundsAssumption
    <3> QED
      BY <3>1, <3>2 DEF Faulty
  <2>3. ~Faulty'
    BY <2>2, ScenarioStays DEF Faulty, QuitAfter
  <2> QED
    BY <2>1, <2>3 DEF Late
<1> QED
  BY <1>1, <1>2, PTL DEF Spec

-----------------------------------------------------------------------------
(* Once it is too late, only what the clients have, or find first on their *)
(* connections, matters; and that stays. *)

LEMMA ListedAppend ==
  ASSUME NEW s, Listed(s), NEW x
  PROVE  /\ Listed(Append(s, x)) /\ Len(s) \in Nat /\ Len(Append(s, x)) = Len(s) + 1
         /\ DOMAIN s = 1..Len(s) /\ DOMAIN Append(s, x) = 1..(Len(s) + 1)
         /\ \A n \in 1..Len(s) : Append(s, x)[n] = s[n]
         /\ Append(s, x)[Len(s) + 1] = x
         /\ s # <<>> => Append(s, x) # <<>> /\ Head(Append(s, x)) = Head(s)
<1>1. PICK S : s \in Seq(S)
  BY DEF Listed
<1> DEFINE T == S \cup {x}
           t == Append(s, x)
<1>2. s \in Seq(T) /\ x \in T /\ Len(s) \in Nat /\ DOMAIN s = 1..Len(s)
  BY <1>1
<1>3. /\ t \in Seq(T) /\ Len(t) = Len(s) + 1 /\ t # <<>>
      /\ \A n \in 1..Len(s) : t[n] = s[n]
      /\ t[Len(s) + 1] = x
  BY <1>2, AppendProperties
<1>4. DOMAIN t = 1..(Len(s) + 1)
  BY <1>2, <1>3
<1>5. ASSUME s # <<>> PROVE Head(t) = Head(s)
  <2>1. Len(s) # 0
    BY <1>2, <1>5, EmptySeq
  <2>2. 1 \in 1..Len(s) /\ t[1] = s[1]
    BY <1>2, <1>3, <2>1
  <2> QED
    BY <1>2, <1>3, <1>5, <2>2
<1>6. Listed(t)
  BY <1>3, ListedIs
<1> QED
  BY <1>2, <1>3, <1>4, <1>5, <1>6

LEMMA ListedTail ==
  ASSUME NEW s, Listed(s), s # <<>>
  PROVE  Listed(Tail(s))
<1>1. PICK S : s \in Seq(S)
  BY DEF Listed
<1>2. Tail(s) \in Seq(S)
  BY <1>1
<1> QED
  BY <1>2, ListedIs

LEMMA ListedEmpty == Listed(<<>>)
<1>1. <<>> \in Seq({})
  OBVIOUS
<1> QED
  BY <1>1, ListedIs

LEMMA LateFrom ==
  ASSUME Late, UNCHANGED scenario, LateTyped',
         \A q \in Nat : \A c \in Clients : LateAt(c, q) => LateAt(c, q)'
  PROVE  Late'
<1>1. PICK q \in Nat : ~CompleteTo(q + 1) /\ \A c \in Clients : LateAt(c, q)
  BY DEF Late
<1>2. Faulty' /\ ~CompleteTo(q + 1)'
  BY <1>1 DEF Late, Faulty, CompleteTo, QuitAfter
<1> QED
  BY <1>1, <1>2 DEF Late

(* A client that does nothing keeps what it has, and what comes first on   *)
(* its connection. *)
LEMMA LateKept ==
  ASSUME NEW c, NEW q, LateAt(c, q),
         cpc'[c] = cpc[c], com_key'[c] = com_key[c], crounds'[c] = crounds[c],
         results'[c] = results[c],
         down[c] # <<>> => down'[c] # <<>> /\ Head(down'[c]) = Head(down[c])
  PROVE  LateAt(c, q)'
BY DEF LateAt, NextIsReply, Awaits, Reply, AllOf, Result

(* Whatever a client takes from its connection, it has the results of the  *)
(* complete rounds. *)
LEMMA RecvResultLate ==
  ASSUME NEW c \in Clients, LateTyped, Listed(results[c]), NEW q \in Nat, LateAt(c, q),
         RecvResult(c)
  PROVE  LateAt(c, q)'
<1> USE ClientsAssumption DEF LateTyped
<1>1. PICK v :
        /\ results' = [results EXCEPT ![c] = Append(@, v)]
        /\ \/ down[c] # <<>> /\ v = Decrypt(com_key[c], Head(down[c]))
           \/ down[c] = <<>>
  BY DEF RecvResult, PeerGets, PeerRecvEnds
<1>2. results'[c] = Append(results[c], v)
  BY <1>1
<1> DEFINE s == results[c]
           t == results'[c]
<1>3. /\ Len(s) \in Nat /\ Len(t) = Len(s) + 1
      /\ DOMAIN s = 1..Len(s) /\ DOMAIN t = 1..(Len(s) + 1)
      /\ \A n \in 1..Len(s) : t[n] = s[n]
      /\ t[Len(s) + 1] = v
  BY <1>2, ListedAppend
<1>4. com_key'[c] = com_key[c] + 1 /\ crounds'[c] = crounds[c]
  BY DEF RecvResult
<1>5. com_key'[c] = c + crounds'[c] + Len(t)
  <2>1. c \in Int /\ crounds[c] \in Int /\ com_key[c] = c + crounds[c] + Len(s)
    BY DEF LateAt, Clients
  <2> QED
    BY <1>3, <1>4, <2>1
<1>6. CASE Len(s) >= q
  <2>1. ASSUME NEW n \in DOMAIN t, n <= q PROVE t[n] = AllOf(n)
    BY <1>3, <1>6, <2>1 DEF LateAt
  <2> QED
    BY <1>3, <1>5, <1>6, <2>1 DEF LateAt, AllOf, Result
<1>7. CASE NextIsReply(c, q)
  <2>1. crounds[c] = q /\ Len(s) = q - 1 /\ down[c] # <<>> /\ Head(down[c]) = Reply(c, q)
    BY <1>7 DEF NextIsReply, Awaits
  <2>2. com_key[c] = c + 2 * q - 1
    BY <2>1 DEF LateAt, Clients
  <2>3. v = AllOf(q)
    BY <1>1, <2>1, <2>2 DEF Reply, Decrypt, Encrypt
  <2>4. ASSUME NEW n \in DOMAIN t, n <= q PROVE t[n] = AllOf(n)
    <3>1. CASE n \in 1..Len(s)
      BY <1>3, <2>4, <3>1 DEF LateAt
    <3>2. CASE n = q
      BY <1>3, <2>1, <2>3, <3>2
    <3> QED
      BY <1>3, <2>1, <2>4, <3>1, <3>2
  <2>5. Len(t) >= q
    BY <1>3, <2>1
  <2> QED
    BY <1>5, <2>4, <2>5 DEF LateAt, AllOf, Result
<1> QED
  BY <1>6, <1>7 DEF LateAt

LEMMA ClientLate ==
  ASSUME Late, NEW c \in Clients, Client(c)
  PROVE  Late'
<1> USE PeersAssumption
<1>1. LateTyped
  BY DEF Late
<1>2. UNCHANGED scenario
  BY DEF Client, DataOwner, Connect, SendInput, RecvResult, Leave, ClientBrokenPipe
<1>3. \/ Connect(c) \/ SendInput(c) \/ RecvResult(c) \/ Leave(c) \/ ClientBrokenPipe(c)
  BY DEF Client, DataOwner
<1>4. /\ DOMAIN cpc' = Clients /\ DOMAIN results' = Clients /\ DOMAIN down' = Peers
      /\ \A d \in Clients : d # c =>
           /\ cpc'[d] = cpc[d] /\ com_key'[d] = com_key[d] /\ crounds'[d] = crounds[d]
           /\ results'[d] = results[d] /\ down'[d] = down[d]
  BY <1>1, <1>3
     DEF Connect, SendInput, RecvResult, Leave, ClientBrokenPipe, PeerSends, PeerGets,
         PeerCloses, sockets, LateTyped
<1>5. com_key' \in [Clients -> Int] /\ crounds' \in [Clients -> Nat]
  BY <1>1, <1>3
     DEF Connect, SendInput, RecvResult, Leave, ClientBrokenPipe, LateTyped
<1>6. Listed(results'[c])
  <2>1. Listed(results[c])
    BY <1>1 DEF LateTyped
  <2>2. results'[c] = results[c] \/ \E v : results'[c] = Append(results[c], v)
    BY <1>1, <1>3
       DEF Connect, SendInput, RecvResult, Leave, ClientBrokenPipe, LateTyped
  <2> QED
    BY <2>1, <2>2, ListedAppend
<1>7. Listed(down'[c])
  <2>1. Listed(down[c]) /\ c \in DOMAIN down
    BY <1>1 DEF LateTyped
  <2>2. \/ down'[c] = down[c] \/ down'[c] = <<>>
        \/ down[c] # <<>> /\ down'[c] = Tail(down[c])
    BY <1>3, <2>1
       DEF Connect, SendInput, RecvResult, Leave, ClientBrokenPipe, PeerSends, PeerGets,
           PeerCloses, sockets
  <2> QED
    BY <2>1, <2>2, ListedTail, ListedEmpty
<1>8. LateTyped'
  <2>1. ASSUME NEW d \in Clients PROVE Listed(results'[d]) /\ Listed(down'[d])
    BY <1>1, <1>4, <1>6, <1>7 DEF LateTyped
  <2> QED
    BY <1>4, <1>5, <2>1 DEF LateTyped
<1>9. ASSUME NEW q \in Nat, LateAt(c, q) PROVE LateAt(c, q)'
  <2>1. CASE RecvResult(c)
    BY <1>1, <1>9, <2>1, RecvResultLate DEF LateTyped
  <2>2. CASE ~RecvResult(c)
    <3>1. results'[c] = results[c]
      BY <1>3, <2>2 DEF Connect, SendInput, Leave, ClientBrokenPipe
    <3>2. Len(results[c]) >= q
      BY <1>3, <1>9, <2>2
         DEF Connect, SendInput, Leave, ClientBrokenPipe, LateAt, NextIsReply, Awaits,
             PeerRecvFails
    <3>3. com_key'[c] = c + crounds'[c] + Len(results[c])
      <4>1. Len(results[c]) \in Nat /\ c \in Int
        BY <1>1, ListedAppend, ClientsAssumption DEF LateTyped, Clients
      <4>2. \/ com_key'[c] = com_key[c] /\ crounds'[c] = crounds[c]
            \/ com_key'[c] = com_key[c] + 1 /\ crounds'[c] = crounds[c] + 1
        BY <1>1, <1>3, <2>2
           DEF Connect, SendInput, Leave, ClientBrokenPipe, LateTyped
      <4> QED
        BY <1>1, <1>9, <4>1, <4>2 DEF LateAt, LateTyped
    <3> QED
      BY <1>9, <3>1, <3>2, <3>3 DEF LateAt, AllOf, Result
  <2> QED
    BY <2>1, <2>2
<1>10. ASSUME NEW q \in Nat, NEW d \in Clients, LateAt(d, q) PROVE LateAt(d, q)'
  <2>1. CASE d = c
    BY <1>9, <1>10, <2>1
  <2>2. CASE d # c
    BY <1>4, <1>10, <2>2, LateKept
  <2> QED
    BY <2>1, <2>2
<1> QED
  BY <1>2, <1>8, <1>10, LateFrom

(* What the others do adds to a client's connection at the end, if at all. *)
LEMMA OthersLate ==
  ASSUME Late, UNCHANGED <<scenario, clientVars>>, DOMAIN down' = Peers,
         \A c \in Clients : down'[c] = down[c] \/ \E m : down'[c] = Append(down[c], m)
  PROVE  Late'
<1>1. LateTyped
  BY DEF Late
<1>2. UNCHANGED <<scenario, cpc, com_key, crounds, results>>
  BY DEF clientVars
<1>3. ASSUME NEW c \in Clients
      PROVE  /\ Listed(down'[c])
             /\ down[c] # <<>> => down'[c] # <<>> /\ Head(down'[c]) = Head(down[c])
  <2>1. Listed(down[c])
    BY <1>1 DEF LateTyped
  <2>2. CASE down'[c] = down[c]
    BY <2>1, <2>2
  <2>3. CASE \E m : down'[c] = Append(down[c], m)
    BY <2>1, <2>3, ListedAppend
  <2> QED
    BY <2>2, <2>3
<1>4. LateTyped'
  BY <1>1, <1>2, <1>3 DEF LateTyped
<1>5. ASSUME NEW q \in Nat, NEW c \in Clients, LateAt(c, q) PROVE LateAt(c, q)'
  BY <1>2, <1>3, <1>5, LateKept
<1> QED
  BY <1>2, <1>4, <1>5, LateFrom

LEMMA LateStays == ASSUME Late, [Next]_vars PROVE Late'
<1> USE PeersAssumption
<1>1. DOMAIN down = Peers
  BY DEF Late, LateTyped
<1>2. ASSUME ProgramOwner PROVE Late'
  <2>1. UNCHANGED clientVars
    BY <1>2
       DEF ProgramOwner, OwnerConnect, PrepareProgram, SendPiece, RecvAck, RecvPiece,
           SendAck, Evaluate, SendGoutput, RecvSize, OwnerLeave, OwnerBrokenPipe
  <2>2. UNCHANGED down \/ PeerGets(Owner) \/ PeerCloses(Owner)
    BY <1>2
       DEF ProgramOwner, OwnerConnect, PrepareProgram, SendPiece, RecvAck, RecvPiece,
           SendAck, Evaluate, SendGoutput, RecvSize, OwnerLeave, OwnerBrokenPipe, OwnerRecv,
           OwnerRecvNothing, PeerSends, sockets
  <2>3. DOMAIN down' = Peers /\ \A c \in Clients : down'[c] = down[c]
    BY <1>1, <2>2 DEF PeerGets, PeerCloses
  <2> QED
    BY <2>1, <2>3, ScenarioStays, OthersLate
<1>3. ASSUME Server PROVE Late'
  <2>1. UNCHANGED clientVars
    BY <1>3
       DEF Server, Accept, AcceptOwner, RecvInput, RecvInputBreak, RecvProgram, AckProgram,
           PassProgram, GetGCircuit, SendGProgram, RecvGAck, RecvGoutput, SendSize,
           GetOutput, WriteOutput, FreeEnc, ServerKilled, peerVars
  <2>2. UNCHANGED down \/ \E p, m : ServerSends(p, m)
    BY <1>3
       DEF Server, Accept, AcceptOwner, RecvInput, RecvInputBreak, RecvProgram, AckProgram,
           PassProgram, GetGCircuit, SendGProgram, RecvGAck, RecvGoutput, SendSize,
           GetOutput, WriteOutput, FreeEnc, ServerKilled, ServerGets, ServerEnds, sockets
  <2>3. /\ DOMAIN down' = Peers
        /\ \A c \in Clients : down'[c] = down[c] \/ \E m : down'[c] = Append(down[c], m)
    BY <1>1, <2>2 DEF ServerSends
  <2> QED
    BY <2>1, <2>3, ScenarioStays, OthersLate
<1>4. ASSUME Network \/ UNCHANGED vars PROVE Late'
  BY <1>1, <1>4, ScenarioStays, OthersLate
     DEF Network, ResetArrives, vars, peerVars, sockets
<1> QED
  BY <1>2, <1>3, <1>4, ClientLate DEF Next

(* The first number of rounds after which a peer leaves is no more than    *)
(* any other. *)
LEMMA FirstQuits ==
  ASSUME scenario \in Scenarios
  PROVE  FirstToQuit \in Nat /\ \A p \in Peers : FirstToQuit <= QuitAfter(p)
<1> DEFINE T == {QuitAfter(p) : p \in Peers}
<1>1. T \subseteq Nat /\ T # {}
  BY ScenarioSays, PeersAssumption
<1>2. \E n \in T : \A m \in T : n <= m
  <2>1. PICK n \in T : \A m \in T : <<m, n>> \notin OpToRel(<, Nat)
    BY <1>1, NatLessThanWellFounded, WFMin
  <2>2. ASSUME NEW m \in T PROVE n <= m
    <3>1. <<m, n>> \in Nat \X Nat /\ <<m, n>>[1] = m /\ <<m, n>>[2] = n
      BY <1>1
    <3>2. ~(m < n)
      BY <2>1, <3>1 DEF OpToRel
    <3> QED
      BY <1>1, <3>2
  <2> QED
    BY <2>2
<1>3. \E n \in T : \A p \in Peers : n <= QuitAfter(p)
  BY <1>2
<1> QED
  BY <1>1, <1>3 DEF FirstToQuit

(* Whatever goes wrong once a peer has left or an input was refused, the   *)
(* results of the rounds before are genuine, if the enclave has room for   *)
(* the inputs of all clients (it writes past its block if it has not). *)
THEOREM GenuineRounds == ASSUME HasRoom PROVE Spec => []GenuineWhileComplete
<1>1. Init => IInv
  BY Initially
<1>2. (IInv \/ Late) /\ [Next]_vars => (IInv \/ Late)'
  BY StepsKeep, LateStays
<1>3. IInv => GenuineWhileComplete
  BY DEF IInv, RoundIntegrity, GenuineWhileComplete
<1>4. ASSUME Late, scenario \in Scenarios PROVE GenuineWhileComplete
  <2> SUFFICES ASSUME NEW c \in Clients, NEW n \in DOMAIN results[c],
                      n <= FirstToQuit, \A bad \in scenario.badInputs : n < bad[2]
               PROVE  results[c][n] = AllOf(n)
    BY DEF GenuineWhileComplete
  <2>1. PICK q \in Nat : ~CompleteTo(q + 1) /\ LateAt(c, q)
    BY <1>4 DEF Late
  <2>2. n \in Nat
    BY <1>4, ListedAppend DEF Late, LateTyped
  <2>3. CASE n <= q
    BY <2>1, <2>3 DEF LateAt
  <2>4. CASE q + 1 <= n
    <3>1. \A p \in Peers : q + 1 <= QuitAfter(p)
      BY <1>4, <2>2, <2>4, FirstQuits, ScenarioSays
    <3>2. \A bad \in scenario.badInputs : q + 1 < bad[2]
      BY <1>4, <2>2, <2>4, ScenarioSays
    <3> QED
      BY <2>1, <3>1, <3>2 DEF CompleteTo
  <2> QED
    BY <2>2, <2>3, <2>4
<1>5. Init => scenario \in Scenarios
  BY DEF Init, DataOwnerInit
<1>6. scenario \in Scenarios /\ [Next]_vars => (scenario \in Scenarios)'
  BY ScenarioStays
<1> QED
  BY <1>1, <1>2, <1>3, <1>4, <1>5, <1>6, PTL DEF Spec

-----------------------------------------------------------------------------
(* The types of what the invariant by rounds leaves open: what is left in  *)
(* a variable while nobody uses it. *)

Number == 1..Rounds \cup {Junk}

Shape ==
  /\ oi \in 1..Chunks /\ goutput \in Results
  /\ opc \notin {"recvPiece", "sendAck", "evaluate"} => program = <<>>
  /\ Len(buffer) <= Chunks
  /\ freed \in [Clients -> Number]
  /\ datainput = NULL \/ datainput \in [Clients -> Number]
  /\ C \in [program : Number, gates : Pointer, inpSizes : Pointer]
  /\ outGarblings \in [ptr : Pointer, v : Results]
  /\ output \in [ptr : Pointer, v : Results]

(* No round is more than the last one that the peers start. *)
LEMMA RoundBound ==
  ASSUME IInv, NEW r \in Nat \ {0}, InRound(r)
  PROVE  /\ spc \in Middle \cup Decoded => r \in 1..Rounds
         /\ \A n \in 1..Rounds : AllOf(n) \in Results
<1> USE ClientsAssumption, RoundsAssumption
<1>1. \A c \in Clients : crounds[c] \in 0..Rounds
  BY DEF IInv, Typed
<1>2. ASSUME spc \in Middle \cup Decoded PROVE r \in 1..Rounds
  <2>1. 0 \in Clients /\ Got(0)
    BY <1>2 DEF Got, Clients
  <2>2. Between(0, r) \/ Pending(0, r)
    BY <2>1 DEF InRound, ClientsAt, ClientAt
  <2>3. crounds[0] = r \/ crounds[0] = r + 1
    BY <2>2 DEF Between, Pending, Idle, OnItsWay, Answering, Awaits
  <2> QED
    BY <1>1, <2>1, <2>3
<1>3. \A n \in 1..Rounds : AllOf(n) \in Results
  BY DEF AllOf, Result, Results
<1> QED
  BY <1>2, <1>3

LEMMA OwnerKeepsShape ==
  ASSUME Peaceful, IInv, Shape, ProgramOwner
  PROVE  Shape'
<1> USE ChunksAssumption DEF Shape
<1>1. UNCHANGED <<buffer, freed, datainput, C, outGarblings, output>>
  BY DEF ProgramOwner, OwnerConnect, PrepareProgram, SendPiece, RecvAck, RecvPiece, SendAck,
         Evaluate, SendGoutput, RecvSize, OwnerLeave, OwnerBrokenPipe, serverVars, enclaveVars,
         state
<1>2. /\ oi' \in 1..Chunks
      /\ opc' \notin {"recvPiece", "sendAck", "evaluate"} => program' = <<>>
  <2>1. CASE OwnerConnect \/ PrepareProgram \/ SendPiece \/ RecvPiece \/ SendGoutput \/ RecvSize
    BY <2>1 DEF OwnerConnect, PrepareProgram, SendPiece, RecvPiece, SendGoutput, RecvSize
  <2>2. CASE RecvAck \/ SendAck
    BY <2>2 DEF RecvAck, SendAck, NextPiece
  <2>3. CASE Evaluate
    BY <2>3 DEF Evaluate
  <2> QED
    BY <2>1, <2>2, <2>3, NobodyLeaves DEF ProgramOwner
<1>3. goutput' \in Results
  <2>1. CASE Evaluate
    <3>1. PICK r \in Nat \ {0} : InRound(r)
      BY DEF IInv
    <3>2. \/ spc = "recvGAck" /\ OwnerEvaluates(r, <<"ack">>)
          \/ spc = "recvGoutput" /\ OwnerEvaluates(r, <<>>)
      BY <2>1, <3>1, EvaluatesWhere DEF Evaluate
    <3>3. goutput' = AllOf(r)
      BY <2>1, <3>2, EvaluateGets DEF Evaluate
    <3> QED
      BY <3>1, <3>2, <3>3, RoundBound DEF Middle, Garbled
  <2>2. CASE ~Evaluate
    BY <2>2 DEF ProgramOwner, OwnerConnect, PrepareProgram, SendPiece, RecvAck, RecvPiece,
                SendAck, SendGoutput, RecvSize, OwnerLeave, OwnerBrokenPipe, Results
  <2> QED
    BY <2>1, <2>2
<1> QED
  BY <1>1, <1>2, <1>3 DEF Results

LEMMA ServerKeepsShape ==
  ASSUME Peaceful, IInv, IInv', Shape, Server
  PROVE  Shape'
<1> USE ChunksAssumption, RoundsAssumption DEF Shape
<1>0. PICK r \in Nat \ {0} : InRound(r)
  BY DEF IInv
<1>1. UNCHANGED ownerVars
  BY DEF Server, Accept, AcceptOwner, RecvInput, RecvInputBreak, RecvProgram, AckProgram,
         PassProgram, GetGCircuit, SendGProgram, RecvGAck, RecvGoutput, SendSize, GetOutput,
         WriteOutput, FreeEnc, ServerKilled, peerVars
<1>2. UNCHANGED <<oi, goutput, opc, program>>
  BY <1>1 DEF ownerVars
<1>3. Len(buffer') <= Chunks
  <2>1. CASE RecvProgram
    <3>1. spc' = "ackProgram" /\ i' \in 1..Chunks
      BY <2>1 DEF RecvProgram, Goto, IInv, Placed
    <3>2. PICK n \in Nat \ {0} : InRound(n)'
      BY DEF IInv
    <3>3. buffer' = Pieces(Plain(n), i')
      BY <3>1, <3>2 DEF InRound, BuffersAt, Plain, Pieces
    <3>4. Len(buffer') = i'
      BY <3>1, <3>3 DEF Pieces
    <3> QED
      BY <3>1, <3>4
  <2>2. CASE FreeEnc
    BY <2>2 DEF FreeEnc
  <2>3. CASE ~RecvProgram /\ ~FreeEnc
    BY <2>3 DEF Server, Accept, AcceptOwner, RecvInput, RecvInputBreak, AckProgram,
                PassProgram, GetGCircuit, SendGProgram, RecvGAck, RecvGoutput, SendSize,
                GetOutput, WriteOutput, ServerKilled
  <2> QED
    BY <2>1, <2>2, <2>3
<1>4. /\ freed' \in [Clients -> Number]
      /\ datainput' = NULL \/ datainput' \in [Clients -> Number]
      /\ C' \in [program : Number, gates : Pointer, inpSizes : Pointer]
      /\ outGarblings' \in [ptr : Pointer, v : Results]
      /\ output' \in [ptr : Pointer, v : Results]
  <2>1. CASE RecvInput
    <3>1. HasRoom /\ Input(Sock(i), r) = r
      BY Peace DEF Input, IInv, Peaceful
    <3>2. /\ OnItsWay(Sock(i), r) /\ Sock(i) \in Clients
          /\ UNCHANGED <<freed, C, outGarblings, output>>
      BY <1>0, <2>1, <3>1, RecvInputDoes
    <3>3. PICK buf \in IF datainput = NULL THEN NewInputs ELSE {datainput} :
            datainput' = [buf EXCEPT ![Sock(i)] = r]
      BY <1>0, <2>1, <3>1, RecvInputDoes
    <3>4. r \in Number
      BY <3>2 DEF OnItsWay, Awaits, IInv, Typed, Number
    <3>5. NewInputs \subseteq [Clients -> Number]
      BY DEF NewInputs, Number
    <3>6. buf \in [Clients -> Number]
      BY <3>3, <3>5
    <3> QED
      BY <3>2, <3>3, <3>4, <3>6
  <2>2. CASE PassProgram
    <3>1. r \in Number
      BY <1>0, <2>2, RoundBound DEF PassProgram, Middle, Program, Number
    <3> QED
      BY <1>0, <2>2, <3>1, PassProgramDoes DEF Pointer
  <2>3. CASE GetGCircuit
    <3>1. r \in Number /\ AllOf(r) \in Results
      BY <1>0, <2>3, RoundBound DEF GetGCircuit, Middle, Number
    <3> QED
      BY <1>0, <2>3, <3>1, GetGCircuitDoes DEF Pointer
  <2>4. CASE RecvGoutput
    <3>1. r \in 1..Rounds /\ AllOf(r) \in Results /\ spc = "recvGoutput"
      BY <1>0, <2>4, RoundBound DEF RecvGoutput, Middle, Garbled
    <3>2. datainput = [c \in Clients |-> r]
      BY <1>0, <3>1 DEF InRound, EnclaveAt, InputsAt, Middle, Garbled
    <3>3. freed' = freed \/ freed' = datainput
      BY <2>4 DEF RecvGoutput, passGoutput, Crash, EcallFails, state, enclaveVars
    <3>4. freed' \in [Clients -> Number]
      BY <3>1, <3>2, <3>3 DEF Number
    <3> QED
      BY <1>0, <2>4, <3>1, <3>4, RecvGoutputDoes DEF Pointer
  <2>5. CASE GetOutput
    BY <1>0, <2>5, GetOutputDoes
  <2>6. CASE FreeEnc
    <3>1. /\ C' = C \/ C' = [C EXCEPT !.inpSizes = "dangling"]
          /\ output' = output \/ output' = [output EXCEPT !.ptr = "dangling"]
          /\ UNCHANGED <<freed, datainput, outGarblings>>
      BY <2>6 DEF FreeEnc, freeEnc, Crash, EcallFails, state
    <3> QED
      BY <3>1 DEF Pointer
  <2>7. CASE ~(RecvInput \/ PassProgram \/ GetGCircuit \/ RecvGoutput \/ GetOutput \/ FreeEnc)
    BY <2>7 DEF Server, Accept, AcceptOwner, RecvInputBreak, RecvProgram, AckProgram,
                SendGProgram, RecvGAck, SendSize, WriteOutput, ServerKilled, enclaveVars, state
  <2> QED
    BY <2>1, <2>2, <2>3, <2>4, <2>5, <2>6, <2>7
<1> QED
  BY <1>2, <1>3, <1>4 DEF Results, Number

LEMMA ShapeHolds == ASSUME Peaceful PROVE Spec => []Shape
<1>1. Init => Shape
  BY ChunksAssumption
     DEF Init, DataOwnerInit, EnclaveInit, Shape, Number, Pointer, Results
<1>2. ASSUME IInv, IInv', Shape, [Next]_vars PROVE Shape'
  <2>1. ASSUME NEW c \in Clients, Client(c) PROVE Shape'
    BY <1>2, <2>1
       DEF Client, Shape, ownerVars, serverVars, enclaveVars, state, Results, Number
  <2>2. ASSUME UNCHANGED vars PROVE Shape'
    BY <1>2, <2>2
       DEF vars, Shape, ownerVars, serverVars, enclaveVars, state, Results, Number
  <2>3. ~Network
    BY <1>2, NobodyLeaves DEF Network
  <2> QED
    BY <1>2, <2>1, <2>2, <2>3, OwnerKeepsShape, ServerKeepsShape DEF Next
<1> QED
  BY <1>1, <1>2, Holds, PTL DEF Spec

(* Every variable keeps its type: no message, counter or pointer is other  *)
(* than the declarations of client.c, program_owner.c, server.c and        *)
(* Enclave.cpp mean it to be, and no round is beyond the last one.         *)
THEOREM TypeCorrect == ASSUME Peaceful PROVE Spec => []TypeOK
<1>1. IInv /\ Shape => TypeOK
  <2> SUFFICES ASSUME IInv, Shape PROVE TypeOK
    OBVIOUS
  <2> USE ClientsAssumption, RoundsAssumption, ChunksAssumption
  <2>1. PICK r \in Nat \ {0} : InRound(r)
    BY DEF IInv
  <2>2. ASSUME NEW c \in Clients
        PROVE  /\ com_key[c] \in Nat /\ crounds[c] \in 0..Rounds
               /\ \A n \in DOMAIN results[c] : results[c][n] \in Results
    <3>1. crounds[c] \in 0..Rounds /\ results[c] \in Seq(Values)
      BY DEF IInv, Typed
    <3>2. com_key[c] = c + crounds[c] + Len(results[c])
      BY <2>1 DEF InRound, ClientKeys
    <3>3. Len(results[c]) \in 0..Rounds
      <4>1. PICK n \in Nat : Between(c, n) \/ Pending(c, n + 1)
        BY <2>1, ClientPlace DEF InRound, ClientsAt
      <4>2. Len(results[c]) <= crounds[c]
        BY <3>1, <4>1 DEF Between, Pending, Idle, OnItsWay, Answering, Awaits
      <4> QED
        BY <3>1, <4>2
    <3>4. ASSUME NEW n \in DOMAIN results[c] PROVE results[c][n] \in Results
      <4>1. n \in 1..Rounds
        BY <3>1, <3>3
      <4> QED
        BY <2>1, <4>1, RoundBound DEF IInv, RoundIntegrity
    <3> QED
      BY <3>1, <3>2, <3>3, <3>4 DEF Clients
  <2>3. /\ opc \in {"connect", "prepare", "sendPiece", "recvAck", "recvPiece", "sendAck",
                    "evaluate", "sendGoutput", "recvSize", "ended"}
        /\ ocom_key \in Nat
    <3>1. \E n \in Nat \ {0} :
            \/ OwnerBefore(n) \/ OwnerWaits(n, i) \/ OwnerEvaluates(n, <<>>)
            \/ \E k \in Int : OwnerSends(n, k) \/ OwnerReady(n, k) \/ OwnerGets(n, k)
            \/ Done("recvSize", n)
      <4>1. r + 1 \in Nat \ {0} /\ 1 \in Int
        OBVIOUS
      <4>2. spc \in {"recvProgram", "sendGProgram", "recvGAck"} => i \in Int
        BY DEF IInv, Placed
      <4> QED
        BY <2>1, <4>1, <4>2
           DEF InRound, OwnerAt, IInv, Placed, Inputs, Before, Middle, Program, Garbled, Decoded,
               Results2
    <3>2. PICK n \in Nat \ {0} :
            /\ opc \in {"connect", "prepare", "sendPiece", "recvAck", "recvPiece", "sendAck",
                       "evaluate", "sendGoutput", "recvSize", "ended"}
            /\ ocom_key \in {2 * (n - 1), 2 * n - 1, 2 * n}
      BY <3>1 DEF OwnerBefore, OwnerSends, OwnerWaits, OwnerReady, OwnerExpects, OwnerGets,
                  OwnerEvaluates, At, Done
    <3> QED
      BY <3>2
  <2>4. Len(program) <= Chunks
    <3>1. CASE opc \in {"recvPiece", "sendAck", "evaluate"}
      <4>1. \/ spc = "sendGProgram" /\ i \in 1..Chunks /\ program = Pieces(Secret(r), i - 1)
            \/ /\ spc = "recvGAck" /\ i \in 1..Chunks
               /\ \E k \in {i - 1, i} : program = Pieces(Secret(r), k)
            \/ spc \in Middle /\ program = Pieces(Secret(r), 1 - 1)
            \/ program = Pieces(Secret(r), Chunks)
        BY <2>1, <3>1
           DEF InRound, OwnerAt, OwnerBefore, OwnerSends, OwnerWaits, OwnerReady, OwnerExpects,
               OwnerGets, OwnerEvaluates, At, Done, IInv, Placed, Middle, Program, Garbled,
               Inputs, Decoded
      <4>2. \A m : \A k \in Nat : Len(Pieces(m, k)) = k
        BY DEF Pieces
      <4> QED
        BY <4>1, <4>2
    <3>2. CASE opc \notin {"recvPiece", "sendAck", "evaluate"}
      BY <3>2 DEF Shape
    <3> QED
      BY <3>1, <3>2
  <2>5. spc \in {"accept", "acceptOwner", "recvInput", "recvProgram", "ackProgram",
                 "passProgram", "getGCircuit", "sendGProgram", "recvGAck", "recvGoutput",
                 "sendSize", "getOutput", "writeOutput", "freeEnc", "killed"}
    BY DEF IInv, Placed, Inputs, Before, Middle, Program, Garbled, Decoded, Results2
  <2>6. client_sock \in Seq(Clients) /\ Len(client_sock) <= NUM_OF_CLIENTS
    BY DEF IInv, Connected, Placed, Clients
  <2>7. /\ C.program \in Number /\ {C.gates, C.inpSizes} \subseteq Pointer
        /\ outGarblings.ptr \in Pointer /\ outGarblings.v \in Results
        /\ output.ptr \in Pointer /\ output.v \in Results
    BY DEF Shape
  <2>8. /\ enclave \in {"running", "crashed"} /\ damaged \in BOOLEAN
        /\ cpc \in [Clients -> {"connect", "send", "recv", "ended", "killed"}]
        /\ orounds \in 0..Rounds
        /\ sock_client_map \in [Clients -> Clients \cup {Unknown}]
    BY DEF IInv, Typed, Undisturbed
  <2> QED
    BY <2>2, <2>3, <2>4, <2>5, <2>6, <2>7, <2>8 DEF TypeOK, Shape, Number
<1> QED
  BY <1>1, Holds, ShapeHolds, PTL

(* Every client gets, round by round, the result of that round's program   *)
(* on the inputs that all clients sent in that round: the server's loop    *)
(* and the counters never pair a result with another round, however the    *)
(* peers connect and send (server.c, main; client.c, main).                *)
THEOREM RoundsStayTogether == ASSUME Peaceful PROVE Spec => []RoundIntegrity
<1>1. IInv => RoundIntegrity
  BY DEF IInv
<1> QED
  BY <1>1, Holds, PTL

(* The two counters of every connection differ by the messages under way:  *)
(* whatever a client, the program owner or the enclave receives decrypts.  *)
THEOREM KeysStayInStep == ASSUME Peaceful PROVE Spec => []KeyLockstep
<1>1. IInv => KeyLockstep
  <2> SUFFICES ASSUME IInv PROVE KeyLockstep
    OBVIOUS
  <2>1. PICK r \in Nat \ {0} : InRound(r)
    BY DEF IInv
  <2>2. ASSUME NEW c \in Clients
        PROVE  com_key[c] = com_to_client_key[c] + Len(up[c]) - Len(down[c])
                              - (IF spc = "writeOutput" /\ Sock(i) = c THEN 1 ELSE 0)
    <3> USE ClientsAssumption
    <3>1. /\ com_key[c] = c + crounds[c] + Len(results[c])
          /\ com_to_client_key[c] = c + 2 * (r - 1) + (IF Got(c) THEN 1 ELSE 0)
                                      + (IF Taken(c) THEN 1 ELSE 0)
      BY <2>1 DEF InRound, ClientKeys
    <3>2. c \in Int /\ ClientAt(c, r)
      BY <2>1 DEF Clients, InRound, ClientsAt
    <3>3. /\ Given(c) => Got(c) /\ Taken(c)
          /\ ~Got(c) => ~Taken(c)
          /\ Taken(c) <=> Given(c) \/ (spc = "writeOutput" /\ Sock(i) = c)
      <4>1. spc \in Results2 =>
              /\ Position(c) \in Clients /\ i \in Clients /\ (Sock(i) = c <=> Position(c) = i)
        BY Positions DEF IInv, Placed, Results2
      <4> QED
        BY <4>1 DEF Got, Given, Taken, Middle, Decoded, Results2, Program, Garbled, Clients
    <3>4. ASSUME NEW n \in Int, Between(c, n)
          PROVE  /\ com_key[c] = c + 2 * n + Len(up[c]) - Len(down[c])
                 /\ Len(up[c]) \in Int /\ Len(down[c]) \in Int
      <4>1. \A x : Len(<<x>>) = 1
        OBVIOUS
      <4>2. CASE Answering(c, n)
        <5>1. crounds[c] = n /\ Len(results[c]) = n - 1 /\ Len(up[c]) = 0 /\ Len(down[c]) = 1
          BY <4>1, <4>2 DEF Answering, Awaits
        <5> QED
          BY <3>1, <3>2, <5>1
      <4>3. CASE Idle(c, n)
        <5>1. crounds[c] = n /\ Len(results[c]) = n /\ Len(up[c]) = 0 /\ Len(down[c]) = 0
          BY <4>3 DEF Idle
        <5> QED
          BY <3>1, <3>2, <5>1
      <4>4. CASE OnItsWay(c, n + 1)
        <5>1. /\ crounds[c] = n + 1 /\ Len(results[c]) = (n + 1) - 1
              /\ Len(up[c]) = 1 /\ Len(down[c]) = 0
          BY <4>1, <4>4 DEF OnItsWay, Awaits
        <5> QED
          BY <3>1, <3>2, <5>1
      <4> QED
        BY <3>4, <4>2, <4>3, <4>4 DEF Between
    <3>5. Pending(c, r) => com_key[c] = c + 2 * r - 1 /\ Len(up[c]) = 0 /\ Len(down[c]) = 0
      BY <3>1, <3>2 DEF Pending, Awaits
    <3>6. CASE Given(c)
      <4>1. /\ com_key[c] = c + 2 * r + Len(up[c]) - Len(down[c])
            /\ Len(up[c]) \in Int /\ Len(down[c]) \in Int
        <5>1. Between(c, r) /\ r \in Int
          BY <3>2, <3>6 DEF ClientAt
        <5> QED
          BY <3>4, <5>1
      <4>2. com_to_client_key[c] = c + 2 * r
        BY <3>1, <3>2, <3>3, <3>6
      <4>3. ~(spc = "writeOutput" /\ Sock(i) = c)
        BY <3>6, Positions DEF Given, IInv, Placed, Results2, Clients
      <4>4. com_key[c] = com_to_client_key[c] + Len(up[c]) - Len(down[c]) - 0
        BY <3>2, <4>1, <4>2
      <4> QED
        BY <4>3, <4>4
    <3>7. CASE ~Given(c) /\ Got(c)
      <4>1. com_key[c] = c + 2 * r - 1 /\ Len(up[c]) = 0 /\ Len(down[c]) = 0
        BY <3>2, <3>5, <3>7 DEF ClientAt
      <4> QED
        BY <3>1, <3>2, <3>3, <3>7, <4>1
    <3>8. CASE ~Given(c) /\ ~Got(c)
      <4>1. /\ com_key[c] = c + 2 * (r - 1) + Len(up[c]) - Len(down[c])
            /\ Len(up[c]) \in Int /\ Len(down[c]) \in Int
        <5>1. Between(c, r - 1) /\ r - 1 \in Int
          BY <3>2, <3>8 DEF ClientAt
        <5> QED
          BY <3>4, <5>1
      <4>2. com_to_client_key[c] = c + 2 * (r - 1)
        BY <3>1, <3>2, <3>3, <3>8
      <4>3. ~(spc = "writeOutput" /\ Sock(i) = c)
        BY <3>3, <3>8
      <4>4. com_key[c] = com_to_client_key[c] + Len(up[c]) - Len(down[c]) - 0
        BY <3>2, <4>1, <4>2
      <4> QED
        BY <4>3, <4>4
    <3> QED
      BY <3>6, <3>7, <3>8
  <2>3. opc \in {"connect", "prepare"} => ocom_key = com_key_program
    BY <2>1 DEF InRound, OwnerAt, OwnerBefore, OwnerSends, OwnerWaits, OwnerReady, OwnerExpects,
                OwnerGets, OwnerEvaluates, At, Done, EnclaveAt, ProgramKey, IInv, Placed,
                Middle, Program, Garbled, Inputs, Decoded, Results2
  <2>4. spc \in {"passProgram", "recvProgram"} /\ opc = "recvAck" =>
          ocom_key = com_key_program + 1
    BY <2>1 DEF InRound, OwnerAt, OwnerBefore, OwnerSends, OwnerReady, OwnerExpects, At, Done,
                EnclaveAt, ProgramKey, Program
  <2> QED
    BY <2>2, <2>3, <2>4 DEF KeyLockstep
<1> QED
  BY <1>1, Holds, PTL

(* The enclave uses no pointer that is null or dangling, in no round, and  *)
(* a round starts with nothing left over from the last one (Enclave.cpp).  *)
THEOREM HeapStaysSound == ASSUME Peaceful PROVE Spec => []HeapDiscipline
<1>1. IInv => HeapDiscipline
  <2> SUFFICES ASSUME IInv PROVE HeapDiscipline
    OBVIOUS
  <2>1. PICK r \in Nat \ {0} : InRound(r)
    BY DEF IInv
  <2>2. CircuitAt(r) /\ InputsAt(r) /\ ResultAt(r) /\ enclave = "running"
    BY <2>1 DEF IInv, InRound, EnclaveAt, Undisturbed
  <2>3. spc = "recvInput" =>
          /\ "live" \notin {C.gates, C.inpSizes, outGarblings.ptr, output.ptr}
          /\ i = 0 => datainput = NULL
    BY <2>2 DEF CircuitAt, InputsAt, ResultAt, Inputs, Before, Decoded, Garbled, Results2
  <2>4. spc = "getGCircuit" => C.gates = "live" /\ datainput # NULL
    <3>1. [c \in Clients |-> r] \in [Clients -> Nat \cup {Junk}]
      OBVIOUS
    <3> QED
      BY <2>2, <3>1, NullAssumption DEF CircuitAt, InputsAt, Middle
  <2>5. spc = "recvGoutput" => outGarblings.ptr = "live" /\ datainput # NULL
    <3>1. [c \in Clients |-> r] \in [Clients -> Nat \cup {Junk}]
      OBVIOUS
    <3> QED
      BY <2>2, <3>1, NullAssumption DEF ResultAt, InputsAt, Middle, Garbled
  <2>6. spc \in {"getOutput", "freeEnc"} => output.ptr = "live" /\ C.inpSizes = "live"
    BY <2>2 DEF CircuitAt, ResultAt, Decoded, Results2
  <2> QED
    BY <2>2, <2>3, <2>4, <2>5, <2>6 DEF HeapDiscipline
<1> QED
  BY <1>1, Holds, PTL

-----------------------------------------------------------------------------
(* Case 2 does what private function evaluation promises. *)

LEMMA EvaluatedIs ==
  ASSUME NEW r \in Nat \ {0}, InRound(r)
  PROVE  Evaluated = IF spc \in Decoded THEN r ELSE r - 1
<1>1. \A n \in Nat : AllOf(n) \in [program : Nat, inputs : [Clients -> Nat]]
                       /\ AllOf(n).program = n
  BY DEF AllOf, Result
<1>2. CASE spc \in Decoded
  <2>1. output.v = AllOf(r)
    BY <1>2 DEF InRound, EnclaveAt, ResultAt
  <2> QED
    BY <1>1, <1>2, <2>1, ResultsAssumption DEF Evaluated
<1>3. CASE spc \notin Decoded
  <2>1. output.v = IF r = 1 THEN Junk ELSE AllOf(r - 1)
    BY <1>3 DEF InRound, EnclaveAt, ResultAt
  <2>2. CASE r = 1
    BY <1>3, <2>1, <2>2 DEF Evaluated
  <2>3. CASE r # 1
    <3>1. r - 1 \in Nat
      OBVIOUS
    <3>2. output.v = AllOf(r - 1) /\ AllOf(r - 1) # Junk /\ AllOf(r - 1).program = r - 1
      BY <1>1, <2>1, <2>3, <3>1, ResultsAssumption
    <3> QED
      BY <1>3, <3>2 DEF Evaluated
  <2> QED
    BY <2>2, <2>3
<1> QED
  BY <1>2, <1>3

LEMMA SendInputSubmits ==
  ASSUME IInv, NEW c \in Clients, SendInput(c), UNCHANGED <<orounds, output>>
  PROVE  Promise!Submit(c)
<1>1. PICK r \in Nat \ {0} : InRound(r)
  BY DEF IInv
<1>2. PICK n \in Nat : Between(c, n) \/ Pending(c, n + 1)
  BY <1>1, ClientPlace DEF InRound, ClientsAt
<1>3. cpc[c] = "send"
  BY DEF SendInput
<1>4. crounds[c] = Len(results[c])
  BY <1>2, <1>3 DEF Between, Answering, OnItsWay, Pending, Awaits, Idle
<1> QED
  BY <1>4 DEF Promise!Submit, SendInput, Evaluated

LEMMA PrepareProgramSupplies == ASSUME IInv, PrepareProgram PROVE Promise!Supply
<1>1. PICK r \in Nat \ {0} : InRound(r)
  BY DEF IInv
<1>2. opc = "prepare"
  BY DEF PrepareProgram
<1>3. \/ spc \in Inputs \cup {"recvProgram"} /\ orounds = r - 1
      \/ spc \in Results2 \cup {"freeEnc"} /\ orounds = (r + 1) - 1
  BY <1>1, <1>2
     DEF InRound, OwnerAt, OwnerBefore, OwnerSends, OwnerWaits, OwnerReady, OwnerExpects,
         OwnerGets, OwnerEvaluates, At, Done, IInv, Placed, Middle, Program, Garbled, Inputs,
         Decoded
<1>4. orounds = Evaluated
  BY <1>1, <1>3, EvaluatedIs DEF Inputs, Before, Decoded, Results2
<1> QED
  BY <1>4
     DEF Promise!Supply, PrepareProgram, Evaluated, clientVars, enclaveVars, state

LEMMA RecvGoutputEvaluates == ASSUME IInv, RecvGoutput PROVE Promise!Evaluate
<1>1. PICK r \in Nat \ {0} : InRound(r)
  BY DEF IInv
<1>2. /\ spc = "recvGoutput" /\ UNCHANGED <<crounds, orounds, results>>
  BY DEF RecvGoutput, peerVars, clientVars, ownerVars
<1>3. Evaluated = r - 1
  BY <1>1, <1>2, EvaluatedIs DEF Decoded, Results2
<1>4. orounds = r /\ output' = [ptr |-> "live", v |-> AllOf(r)]
  BY <1>1, RecvGoutputDoes DEF Done
<1>5. AllOf(r) # Junk /\ AllOf(r).program = r
  <2>1. AllOf(r) \in [program : Nat, inputs : [Clients -> Nat]] /\ AllOf(r).program = r
    BY DEF AllOf, Result
  <2> QED
    BY <2>1, ResultsAssumption
<1>6. Evaluated' = r
  <2>1. output'.v = AllOf(r)
    BY <1>4
  <2> QED
    BY <1>5, <2>1 DEF Evaluated
<1>7. \A c \in Clients : crounds[c] = r
  BY <1>1, <1>2
     DEF InRound, ClientsAt, ClientAt, Given, Got, Middle, Garbled, Results2, Pending, Awaits
<1> QED
  BY <1>2, <1>3, <1>4, <1>6, <1>7 DEF Promise!Evaluate

LEMMA RecvResultAnswers ==
  ASSUME IInv, NEW c \in Clients, RecvResult(c), UNCHANGED <<orounds, output>>
  PROVE  Promise!Answer(c)
<1> USE PeersAssumption
<1>1. PICK r \in Nat \ {0} : InRound(r)
  BY DEF IInv
<1>2. /\ cpc[c] = "recv" /\ down[c] # <<>> /\ UNCHANGED crounds
      /\ results' = [results EXCEPT ![c] = Append(@, Decrypt(com_key[c], Head(down[c])))]
  BY DEF RecvResult, PeerGets, PeerRecvEnds, IInv, Undisturbed
<1>3. ClientAt(c, r)
  BY <1>1 DEF InRound, ClientsAt
<1>4. \/ Given(c) /\ Answering(c, r)
      \/ ~Given(c) /\ ~Got(c) /\ Answering(c, r - 1)
  BY <1>2, <1>3 DEF ClientAt, Between, Idle, OnItsWay, Pending
<1>5. com_key[c] = c + crounds[c] + Len(results[c])
  BY <1>1 DEF InRound, ClientKeys
<1>6. c \in Int /\ Len(results[c]) \in Nat
  BY ClientsAssumption DEF Clients, IInv, Typed
<1>7. Answering(c, Evaluated) /\ Evaluated \in Nat
  <2>1. CASE Given(c) /\ Answering(c, r)
    BY <1>1, <2>1, EvaluatedIs DEF Given, Decoded
  <2>2. CASE ~Given(c) /\ ~Got(c) /\ Answering(c, r - 1)
    BY <1>1, <2>2, EvaluatedIs DEF Got
  <2> QED
    BY <1>4, <2>1, <2>2
<1>8. PICK n \in Nat : n = Evaluated
  BY <1>7
<1>9. Answering(c, n)
  BY <1>7, <1>8
<1>10. com_key[c] = c + 2 * n - 1 /\ Len(results[c]) = n - 1
  BY <1>5, <1>6, <1>9 DEF Answering, Awaits
<1>11. Head(down[c]) = Reply(c, n)
  BY <1>9, Short DEF Answering
<1>12. Decrypt(com_key[c], Head(down[c])) = AllOf(n)
  BY <1>10, <1>11 DEF Reply, Encrypt, Decrypt
<1>13. AllOf(n) = Promise!Result(n)
  BY DEF AllOf, Result, Promise!Result
<1>14. results' = [results EXCEPT ![c] = Append(@, Promise!Result(n))]
  <2>1. results' = [results EXCEPT ![c] = Append(@, AllOf(n))]
    BY <1>2, <1>12
  <2> QED
    BY <1>13, <2>1
<1>15. Promise!Result(Evaluated) = Promise!Result(n) /\ Len(results[c]) < Evaluated
  BY <1>8, <1>10
<1>16. UNCHANGED <<crounds, orounds, Evaluated>>
  BY <1>2 DEF Evaluated
<1> QED
  BY <1>14, <1>15, <1>16 DEF Promise!Answer

(* The other steps are none of the promise's. *)
LEMMA OtherServerSteps ==
  ASSUME IInv, Server, ~RecvGoutput
  PROVE  UNCHANGED <<crounds, orounds, Evaluated, results>>
<1>1. ASSUME FreeEnc PROVE UNCHANGED <<crounds, orounds, Evaluated, results>>
  <2>1. output'.v = output.v
    <3>1. PICK r \in Nat \ {0} : InRound(r)
      BY DEF IInv
    <3>2. output = [ptr |-> "live", v |-> AllOf(r)]
      BY <1>1, <3>1 DEF FreeEnc, InRound, EnclaveAt, ResultAt, Decoded
    <3>3. output' = output \/ output' = [output EXCEPT !.ptr = "dangling"]
      BY <1>1 DEF FreeEnc, freeEnc, Crash, EcallFails, state
    <3> QED
      BY <3>2, <3>3
  <2> QED
    BY <1>1, <2>1 DEF FreeEnc, Evaluated, peerVars, clientVars, ownerVars
<1>2. ASSUME ~FreeEnc PROVE UNCHANGED <<crounds, orounds, output, results>>
  <2>1. ASSUME RecvInput PROVE UNCHANGED output
    BY <2>1 DEF RecvInput, passInput, Crash, EcallFails, state
  <2>2. ASSUME PassProgram PROVE UNCHANGED output
    BY <2>2 DEF PassProgram, passProgram, Crash, EcallFails, state
  <2>3. ASSUME GetGCircuit PROVE UNCHANGED output
    BY <2>3 DEF GetGCircuit, getGCircuit, Garble, RefuseInput, Crash, EcallFails, state
  <2>4. ASSUME GetOutput PROVE UNCHANGED output
    BY <2>4 DEF GetOutput, getOutputFromEnclave, Crash, EcallFails, state
  <2>5. UNCHANGED output
    BY <1>2, <2>1, <2>2, <2>3, <2>4
       DEF Server, Accept, AcceptOwner, RecvInputBreak, RecvProgram, AckProgram, SendGProgram,
           RecvGAck, SendSize, WriteOutput, ServerKilled, enclaveVars, state
  <2>6. UNCHANGED peerVars
    BY <1>2
       DEF Server, Accept, AcceptOwner, RecvInput, RecvInputBreak, RecvProgram, AckProgram,
           PassProgram, GetGCircuit, SendGProgram, RecvGAck, SendSize, GetOutput, WriteOutput,
           ServerKilled
  <2> QED
    BY <2>5, <2>6 DEF peerVars, clientVars, ownerVars
<1> QED
  BY <1>1, <1>2 DEF Evaluated

LEMMA StepsPromised == ASSUME Peaceful, IInv, [Next]_vars PROVE [Promise!Next]_(Promise!vars)
<1>1. ASSUME NEW c \in Clients, Client(c) PROVE [Promise!Next]_(Promise!vars)
  <2>1. UNCHANGED <<orounds, output>>
    BY <1>1 DEF Client, ownerVars, enclaveVars, state
  <2>2. CASE Connect(c)
    BY <2>1, <2>2 DEF Connect, Promise!vars, Evaluated
  <2>3. CASE SendInput(c)
    BY <2>1, <2>3, SendInputSubmits DEF Promise!Next
  <2>4. CASE RecvResult(c)
    BY <2>1, <2>4, RecvResultAnswers DEF Promise!Next
  <2> QED
    BY <1>1, <2>2, <2>3, <2>4, NobodyLeaves DEF Client, DataOwner
<1>2. ASSUME ProgramOwner PROVE [Promise!Next]_(Promise!vars)
  <2>1. CASE PrepareProgram
    BY <2>1, PrepareProgramSupplies DEF Promise!Next
  <2>2. CASE ~PrepareProgram
    <3>1. UNCHANGED <<orounds, clientVars, enclaveVars>>
      BY <1>2, <2>2
         DEF ProgramOwner, OwnerConnect, SendPiece, RecvAck, RecvPiece, SendAck, Evaluate,
             SendGoutput, RecvSize, OwnerLeave, OwnerBrokenPipe
    <3> QED
      BY <3>1 DEF Promise!vars, Evaluated, clientVars, enclaveVars, state
  <2> QED
    BY <2>1, <2>2
<1>3. ASSUME Server PROVE [Promise!Next]_(Promise!vars)
  <2>1. CASE RecvGoutput
    BY <2>1, RecvGoutputEvaluates DEF Promise!Next
  <2>2. CASE ~RecvGoutput
    BY <1>3, <2>2, OtherServerSteps DEF Promise!vars
  <2> QED
    BY <2>1, <2>2
<1>4. ~Network
  BY NobodyLeaves DEF Network
<1>5. ASSUME UNCHANGED vars PROVE UNCHANGED Promise!vars
  BY <1>5 DEF vars, Promise!vars, Evaluated, clientVars, ownerVars, enclaveVars, state
<1> QED
  BY <1>1, <1>2, <1>3, <1>4, <1>5 DEF Next

(* Case 2 implements the promise: every round is submitted, supplied,      *)
(* evaluated once on the inputs of that round, and answered, in that order *)
(* (the whole of client.c, program_owner.c, server.c and Enclave.cpp).     *)
THEOREM Promised == ASSUME Peaceful PROVE Spec => PromiseSpec
<1>1. Init => Promise!Init
  BY DEF Init, DataOwnerInit, EnclaveInit, Promise!Init, Evaluated
<1>2. IInv /\ [Next]_vars => [Promise!Next]_(Promise!vars)
  BY StepsPromised
<1> QED
  BY <1>1, <1>2, Holds, PTL DEF Spec, PromiseSpec, Promise!Spec
=============================================================================
