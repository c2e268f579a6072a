------------------------- MODULE PfeCase2FaultProofs -------------------------
(***************************************************************************)
(* What case 2 keeps to whoever leaves, whichever inputs are not binary,   *)
(* and however the enclave fails: the results that a client reads are not  *)
(* mixed from several rounds (NeverMixed), and what it reads under its own *)
(* counter in the round it is in was computed from its own input           *)
(* (OwnInput).  Neither needs an assumption on the constants.  If the      *)
(* enclave has room for all inputs, nothing that is computed from a        *)
(* refused input on is ever read (NothingAfterBadInput).                   *)
(*                                                                         *)
(* The invariant goes by r, the round that the server is in, as long as    *)
(* the server lives.  A client's turn is a message that the server should  *)
(* have read by now: either it has read as many messages of a client as    *)
(* there were turns, or somebody before that client has left too early.    *)
(* The program owner is in step with the server, or gone; the counters     *)
(* only fall behind.  From that follows what a result can be made of when  *)
(* it is garbled (Worth), and it keeps that on its way through the         *)
(* enclave, the server and the connection to the client.                   *)
(***************************************************************************)
EXTENDS PfeCase2Proofs

(* A client sends its bad inputs before it leaves. *)
BadInputsSent ==
  \A s \in Scenarios : \A bad \in s.badInputs : bad[2] <= s.quitAfter[bad[1]]

(* A message for a client, and one from a client. *)
Coded == [key : Int, v : Values]
FromClient(c) == [id : {c}, m : [key : Int, v : Nat \cup {Junk}]]

PeerKinds ==
  /\ scenario \in Scenarios
  /\ DOMAIN up = Peers /\ DOMAIN down = Peers /\ open \in [Peers -> BOOLEAN]
  /\ cpc \in [Clients -> {"connect", "send", "recv", "ended", "killed"}]
  /\ com_key \in [Clients -> Int] /\ crounds \in [Clients -> Nat]
  /\ results \in [Clients -> Seq(Values)]
  /\ \A c \in Clients : up[c] \in Seq(FromClient(c)) /\ down[c] \in Seq(Coded)
  /\ serving \in BOOLEAN

ServerKinds ==
  /\ DOMAIN rstS = Peers
  /\ sock_client_map \in [Clients -> Clients \cup {Unknown}]
  /\ reply \in Coded
  /\ ~serving => spc = "killed" /\ up = [p \in Peers |-> <<>>]

EnclaveKinds ==
  /\ datainput = NULL \/ datainput \in [Clients -> Nat \cup {Junk}]
  /\ freed \in [Clients -> Nat \cup {Junk}] /\ damaged \in BOOLEAN
  /\ com_to_client_key \in [Clients -> Int] /\ com_key_program \in Nat
  /\ C \in [program : Nat \cup {Junk}, gates : Pointer, inpSizes : Pointer]
  /\ outGarblings \in [ptr : Pointer, v : Values]
  /\ output \in [ptr : Pointer, v : Values]

(* The messages of a client that the server has read (or lost). *)
Reads(c) == crounds[c] - Len(up[c])

(* A client's counters go together, and are those of what it has sent. *)
ClientSide(c) ==
  /\ com_key[c] = c + crounds[c] + Len(results[c])
  /\ cpc[c] \in {"connect", "send"} => crounds[c] = Len(results[c])
  /\ cpc[c] = "recv" => crounds[c] = Len(results[c]) + 1
  /\ open[c] <=> cpc[c] \notin {"ended", "killed"}
  /\ Len(up[c]) <= crounds[c]
  /\ \A k \in 1..Len(up[c]) : up[c][k] = InputSent(c, Reads(c) + k)

(* A result that everybody took part in is not mixed; and none is computed *)
(* from a bad input, or after one. *)
Sound(v) ==
  v # Junk =>
    /\ v.program <= FirstToQuit => v = AllOf(v.program)
    /\ HasRoom /\ BadInputsSent => \A bad \in scenario.badInputs : v.program < bad[2]

(* What client c may have as its n-th result, and may be sent as such. *)
Fine(c, v, n) ==
  v # Junk => v.program <= n /\ (v.program = n => v.inputs[c] = n)

Due(c, m, n) ==
  m.v # Junk =>
    /\ m.v.program <= n
    /\ m.v.program = n => m.v.inputs[c] = n \/ m.key # c + 2 * n - 1

Flow(c) ==
  /\ \A n \in 1..Len(results[c]) : Sound(results[c][n]) /\ Fine(c, results[c][n], n)
  /\ \A k \in 1..Len(down[c]) :
       Sound(down[c][k].v) /\ Due(c, down[c][k], Len(results[c]) + k)

Clientele == \A c \in Clients : ClientSide(c) /\ Flow(c)

-----------------------------------------------------------------------------
(* A connection is reset by the end of the server, or closed by a peer     *)
(* that has done its rounds. *)
Ends ==
  /\ rstP = [p \in Peers |-> "none"]
  /\ \A p \in Peers : rstS[p] # "none" => ~open[p]
  /\ \A c \in Clients : crounds[c] <= QuitAfter(c) /\ (~open[c] => crounds[c] = QuitAfter(c))

(* The turns of client c up to now.  The server has missed client d if it  *)
(* has left with nothing more to read. *)
Turns(c, r) == IF Got(c) THEN r ELSE r - 1
Missed(d, r) == ~open[d] /\ up[d] = <<>> /\ crounds[d] < Turns(d, r)

Attended(c, r) ==
  /\ Reads(c) <= Turns(c, r)
  /\ \/ Reads(c) = Turns(c, r)
     \/ spc \notin Before /\ \E d \in Clients : Position(d) <= Position(c) /\ Missed(d, r)
  /\ spc = "recvInput" /\ Position(c) < i => Reads(c) = r

Known(c) == spc \notin Before /\ Reads(c) > 0 => sock_client_map[Position(c)] = c

Replied(c, r) ==
  open[c] => Len(results[c]) + Len(down[c]) >= IF Given(c) THEN r ELSE r - 1

Attend(r) ==
  /\ spc \in Before => r = 1
  /\ \A c \in Clients : Attended(c, r) /\ Known(c) /\ Replied(c, r)

-----------------------------------------------------------------------------
(* The program owner in its round n, with what is on its connection. *)
Row(pc, n, u, d) == opc = pc /\ orounds = n /\ up[Owner] = u /\ down[Owner] = d
RowAt(pc, n, k, u, d) == Row(pc, n, u, d) /\ oi = k

Begins(n) ==
  \/ Row("connect", n - 1, <<>>, <<>>)
  \/ Row("prepare", n - 1, <<>>, <<>>)
  \/ Row("recvSize", n - 1, <<>>, <<"size">>)
  \/ RowAt("sendPiece", n, 1, <<>>, <<>>)
  \/ RowAt("recvAck", n, 1, <<Piece(Plain(n), 1)>>, <<>>)

Sends(n, k) ==
  \/ k = 1 /\ Begins(n)
  \/ k > 1 /\ RowAt("recvAck", n, k - 1, <<>>, <<"ack">>)
  \/ k > 1 /\ RowAt("sendPiece", n, k, <<>>, <<>>)
  \/ k > 1 /\ RowAt("recvAck", n, k, <<Piece(Plain(n), k)>>, <<>>)

Ready(n, k) ==
  \/ k = 1 /\ RowAt("recvAck", n, Chunks, <<>>, <<"ack">>)
  \/ RowAt("recvPiece", n, k, <<>>, <<>>)

Evaluates(n, u) ==
  \/ Row("evaluate", n, u, <<>>)
  \/ Row("sendGoutput", n, u, <<>>)
  \/ \E x : Row("recvSize", n, Append(u, x), <<>>)

Gets(n, k) ==
  \/ k = 1 /\ RowAt("recvAck", n, Chunks, <<>>, <<"ack", Piece(prog, 1)>>)
  \/ RowAt("recvPiece", n, k, <<>>, <<Piece(prog, k)>>)
  \/ RowAt("sendAck", n, k, <<>>, <<>>)
  \/ k < Chunks /\ RowAt("recvPiece", n, k + 1, <<"ack">>, <<>>)
  \/ k = Chunks /\ Evaluates(n, <<"ack">>)

Here(r) ==
  /\ opc \notin {"ended", "killed"}
  /\ spc \in Inputs => Begins(r) /\ buffer = <<>>
  /\ spc = "recvProgram" => Sends(r, i) /\ buffer = Pieces(Plain(r), i - 1)
  /\ spc = "ackProgram" => RowAt("recvAck", r, i, <<>>, <<>>) /\ buffer = Pieces(Plain(r), i)
  /\ spc = "passProgram" => Ready(r, 1) /\ buffer = Pieces(Plain(r), Chunks)
  /\ spc = "getGCircuit" => Ready(r, 1)
  /\ spc = "sendGProgram" => Ready(r, i)
  /\ spc = "recvGAck" => Gets(r, i)
  /\ spc = "recvGoutput" => Evaluates(r, <<>>)
  /\ spc = "sendSize" => Row("recvSize", r, <<>>, <<>>)
  /\ spc \in Results2 \cup {"freeEnc"} => Begins(r + 1)

Gone ==
  /\ opc \in {"ended", "killed"}
  /\ up[Owner] = <<>> \/ (up[Owner] = <<"ack">> /\ spc = "recvGAck" /\ i = Chunks)
  /\ spc \in Inputs \cup Program => buffer = <<>>

OwnerKeys ==
  /\ open[Owner] <=> opc \notin {"ended", "killed"}
  /\ opc \in {"sendPiece", "recvAck", "recvPiece", "sendAck", "evaluate"} =>
       ocom_key = 2 * orounds - 1
  /\ opc \in {"connect", "prepare", "sendGoutput", "recvSize"} => ocom_key = 2 * orounds

OwnerTurn(r) == OwnerKeys /\ (Here(r) \/ Gone)

-----------------------------------------------------------------------------
(* The counter of a program owner that the enclave has followed. *)
Base(r) ==
  CASE spc \in Inputs \cup Program -> 2 * r - 2
    [] spc = "getGCircuit" -> 2 * r - 1
    [] OTHER -> 2 * r

On == enclave = "running"

(* All clients are known to the server, or it has not needed them yet: no  *)
(* number of a client was anything but one. *)
AllRead == \A c \in Clients : Reads(c) > 0
Sure(r) == AllRead \/ (r = 1 /\ spc \notin Decoded)

(* The enclave has the program of this round if its counter is in step,    *)
(* which it is not any more after a bad input. *)
Behind(r) ==
  \A bad \in scenario.badInputs :
    r > bad[2] \/ (r = bad[2] /\ spc \in Garbled \cup Decoded) => com_key_program < Base(r)

Programs(r) ==
  /\ On => com_key_program <= Base(r)
  /\ On /\ open[Owner] /\ spc = "getGCircuit" =>
       C.gates = "live" /\ C.program = IF com_key_program = 2 * r - 1 THEN r ELSE Junk
  /\ On /\ open[Owner] /\ HasRoom /\ BadInputsSent /\ Sure(r) => Behind(r)

(* What datainput holds of the client that was read in this round. *)
Entered(c, r) ==
  On /\ spc \in {"recvInput", "getGCircuit"} \cup Program /\ Got(c) /\ Reads(c) = r =>
    datainput # NULL /\ datainput[c] \in {Junk, Input(c, r)}

(* It holds nothing of a client that was never read. *)
Unread(c) == Reads(c) = 0 => freed[c] = Junk /\ (datainput # NULL => datainput[c] = Junk)

(* There is none at the beginning of a round; if there is one with the     *)
(* program, somebody was read. *)
Fresh == On /\ open[Owner] /\ (spc \in Before \cup Decoded \/ (spc = "recvInput" /\ i = 0))
           => datainput = NULL
Begun(r) ==
  On /\ open[Owner] /\ spc \in Program \cup {"getGCircuit"} /\ datainput # NULL
    => Reads(Sock(0)) = r

(* The counters of the clients, while all of them are known. *)
Counts(r) ==
  On /\ Sure(r) =>
    \A c \in Clients :
      com_to_client_key[c] = c + Reads(c) + (r - 1) + IF Taken(c) THEN 1 ELSE 0

Data(r) ==
  /\ \A c \in Clients : Entered(c, r) /\ Unread(c)
  /\ Fresh /\ Begun(r) /\ Counts(r)
  /\ On /\ HasRoom /\ Sure(r) => ~damaged

(* What a result is made of, and whether it is the one of this round. *)
Worth(v, r) ==
  v # Junk =>
    /\ v.program <= r /\ Sound(v) /\ AllRead
    /\ v.program = r => \A c \in Clients : v.inputs[c] = r \/ Reads(c) < r

Now(v, r) == v # Junk /\ v.program = r

Outputs(r) ==
  /\ open[Owner] => Worth(outGarblings.v, r)
  /\ open[Owner] /\ Now(outGarblings.v, r) =>
       spc \in Garbled \cup Decoded /\ (On => C.program # Junk)
  /\ Worth(output.v, r)
  /\ Now(output.v, r) => spc \in Decoded /\ On /\ output.ptr = "live" /\ C.program # Junk
  /\ Worth(reply.v, r)
  /\ Now(reply.v, r) => spc \in Results2 \cup {"freeEnc"} /\ Now(output.v, r)
  /\ spc = "writeOutput" => Due(Sock(i), reply, r)

Live(r) ==
  /\ Ends /\ Placed /\ Connected
  /\ Attend(r) /\ OwnerTurn(r) /\ Programs(r) /\ Data(r) /\ Outputs(r)

FInv ==
  /\ PeerKinds /\ ServerKinds /\ EnclaveKinds /\ Clientele
  /\ serving => \E r \in Nat \ {0} : Live(r)

-----------------------------------------------------------------------------
LEMMA SoundKept ==
  ASSUME UNCHANGED scenario
  PROVE  /\ \A v : Sound(v)' <=> Sound(v)
         /\ \A c, n : InputSent(c, n)' = InputSent(c, n) /\ Input(c, n)' = Input(c, n)
<1>1. FirstToQuit' = FirstToQuit
  BY DEF FirstToQuit, QuitAfter
<1> QED
  BY <1>1 DEF Sound, AllOf, Result, InputSent, Input, BadInput

LEMMA ResultsAre == Junk \notin [program : Nat, inputs : [Clients -> Nat]]
BY ResultsAssumption

LEMMA JunkIsSound ==
  /\ Sound(Junk) /\ \A c, n : Fine(c, Junk, n)
  /\ \A r : Worth(Junk, r) /\ ~Now(Junk, r)
  /\ Nothing.v = Junk /\ Nothing \in Coded
  /\ \A k \in Int, v \in Values : Encrypt(k, v) \in Coded /\ Encrypt(k, v).v = v
  /\ Junk \in Values
BY DEF Sound, Fine, Worth, Now, Nothing, Coded, Values, Encrypt

(* A step of client c leaves the other clients where they were. *)
LEMMA OtherClient ==
  ASSUME NEW d \in Clients, ClientSide(d), Flow(d), UNCHANGED scenario,
         cpc'[d] = cpc[d], com_key'[d] = com_key[d], crounds'[d] = crounds[d],
         results'[d] = results[d], up'[d] = up[d], down'[d] = down[d], open'[d] = open[d]
  PROVE  ClientSide(d)' /\ Flow(d)' /\ Reads(d)' = Reads(d)
<1>1. /\ \A v : Sound(v)' <=> Sound(v)
      /\ \A c, n : InputSent(c, n)' = InputSent(c, n) /\ Input(c, n)' = Input(c, n)
  BY SoundKept
<1>2. Reads(d)' = Reads(d)
  BY DEF Reads
<1>3. ClientSide(d)'
  BY <1>1, <1>2 DEF ClientSide
<1>4. Flow(d)'
  BY <1>1 DEF Flow, Fine, Due
<1> QED
  BY <1>2, <1>3, <1>4

-----------------------------------------------------------------------------
(* Steps that leave the enclave alone. *)

LEMMA SureKept ==
  ASSUME NEW r, \A c \in Clients : Reads(c)' = Reads(c),
         AllRead \/ (spc' \notin Decoded => spc \notin Decoded)
  PROVE  Sure(r)' => Sure(r)
BY DEF Sure, AllRead

LEMMA ProgramsKept ==
  ASSUME NEW r, Programs(r), UNCHANGED <<scenario, enclave, C, com_key_program>>,
         open'[Owner] => open[Owner], Base(r)' = Base(r), Sure(r)' => Sure(r),
         spc' = "getGCircuit" => spc = "getGCircuit",
         spc' \in Garbled \cup Decoded => spc \in Garbled \cup Decoded
  PROVE  Programs(r)'
BY DEF Programs, On, Behind

(* Entered, Unread and Counts. *)
LEMMA DataKept ==
  ASSUME NEW r, Data(r),
         UNCHANGED <<scenario, enclave, datainput, freed, damaged, com_to_client_key>>,
         \A c \in Clients : Reads(c)' = Reads(c),
         \A c \in Clients : Got(c)' /\ spc' \in {"recvInput", "getGCircuit"} \cup Program =>
           Got(c) /\ spc \in {"recvInput", "getGCircuit"} \cup Program,
         \A c \in Clients : Taken(c)' <=> Taken(c),
         AllRead \/ (spc' \notin Decoded => spc \notin Decoded),
         Fresh', Begun(r)'
  PROVE  Data(r)'
<1>1. \A c, n : Input(c, n)' = Input(c, n)
  BY SoundKept
<1>2. Sure(r)' => Sure(r)
  BY SureKept
<1>3. Counts(r)'
  BY <1>2 DEF Data, Counts, On
<1>4. \A c \in Clients : Entered(c, r)'
  BY <1>1 DEF Data, Entered, On
<1>5. \A c \in Clients : Unread(c)'
  BY DEF Data, Unread
<1> QED
  BY <1>2, <1>3, <1>4, <1>5 DEF Data, On

LEMMA BegunKept ==
  ASSUME NEW r, Data(r), UNCHANGED <<enclave, datainput, client_sock>>,
         Reads(Sock(0))' = Reads(Sock(0)), open'[Owner] => open[Owner],
         spc' \in Program \cup {"getGCircuit"} => spc \in Program \cup {"getGCircuit"}
  PROVE  Begun(r)'
BY DEF Data, Begun, On, Sock

LEMMA WorthKept ==
  ASSUME UNCHANGED scenario, \A c \in Clients : Reads(c)' = Reads(c)
  PROVE  \A v, r : Worth(v, r)' <=> Worth(v, r)
<1>1. /\ \A v : Sound(v)' <=> Sound(v)
      /\ AllRead' <=> AllRead
  BY SoundKept DEF AllRead
<1> QED
  BY <1>1 DEF Worth

LEMMA OutputsKept ==
  ASSUME NEW r, Outputs(r), UNCHANGED <<scenario, enclave, C, outGarblings, output, reply>>,
         \A c \in Clients : Reads(c)' = Reads(c), open'[Owner] => open[Owner],
         spc \in Garbled \cup Decoded => spc' \in Garbled \cup Decoded,
         spc \in Decoded => spc' \in Decoded,
         spc \in Results2 \cup {"freeEnc"} => spc' \in Results2 \cup {"freeEnc"},
         (spc = "writeOutput" => Due(Sock(i), reply, r)) =>
            (spc' = "writeOutput" => Due(Sock(i), reply, r)')
  PROVE  Outputs(r)'
<1>1. \A v : Worth(v, r)' <=> Worth(v, r)
  BY WorthKept
<1> QED
  BY <1>1 DEF Outputs, Now, On

-----------------------------------------------------------------------------
(* The clients. *)

LEMMA OwnerTurnKept ==
  ASSUME NEW r, OwnerTurn(r), UNCHANGED <<ownerVars, serverVars>>,
         up'[Owner] = up[Owner], down'[Owner] = down[Owner], open'[Owner] = open[Owner]
  PROVE  OwnerTurn(r)'
<1>1. UNCHANGED <<opc, ocom_key, orounds, oi, spc, i, buffer, prog>>
  BY DEF ownerVars, serverVars
<1>2. OwnerKeys'
  BY <1>1 DEF OwnerTurn, OwnerKeys
<1>3. ASSUME Here(r) PROVE Here(r)'
  BY <1>1, <1>3 DEF Here, Begins, Sends, Ready, Evaluates, Gets, RowAt, Row, Pieces, Piece,
                    Plain, Encrypt
<1>4. ASSUME Gone PROVE Gone'
  BY <1>1, <1>4 DEF Gone
<1> QED
  BY <1>2, <1>3, <1>4 DEF OwnerTurn

LEMMA PlacesKept ==
  ASSUME UNCHANGED <<spc, i, client_sock>>
  PROVE  /\ \A c : Position(c)' = Position(c) /\ (Got(c)' <=> Got(c))
         /\ \A c : (Taken(c)' <=> Taken(c)) /\ (Given(c)' <=> Given(c))
         /\ \A n : Sock(n)' = Sock(n)
         /\ \A c, r : Turns(c, r)' = Turns(c, r)
         /\ \A r : Base(r)' = Base(r)
<1>1. \A c : Position(c)' = Position(c)
  BY DEF Position, Sock
<1> QED
  BY <1>1 DEF Got, Taken, Given, Sock, Turns, Base

(* A step of a client leaves the owner, the server and the enclave alone.  *)
LEMMA ClientMoves ==
  ASSUME NEW r \in Nat \ {0}, Live(r),
         UNCHANGED <<scenario, ownerVars, serverVars, enclaveVars>>,
         up'[Owner] = up[Owner], down'[Owner] = down[Owner], open'[Owner] = open[Owner],
         \A d \in Clients : Reads(d)' = Reads(d),
         \A d \in Clients : Missed(d, r) => Missed(d, r)',
         \A d \in Clients : Replied(d, r)',
         Ends', Connected'
  PROVE  Live(r)'
<1>1. UNCHANGED <<spc, i, client_sock, sock_client_map, reply>>
  BY DEF serverVars
<1>2. /\ \A c : Position(c)' = Position(c) /\ (Got(c)' <=> Got(c))
      /\ \A c : (Taken(c)' <=> Taken(c)) /\ (Given(c)' <=> Given(c))
      /\ \A n : Sock(n)' = Sock(n)
      /\ \A c : Turns(c, r)' = Turns(c, r)
      /\ Base(r)' = Base(r)
  BY <1>1, PlacesKept
<1>3. UNCHANGED <<enclave, datainput, freed, damaged, com_to_client_key, com_key_program, C,
                  outGarblings, output>>
  BY DEF enclaveVars, state
<1>4. Attend(r)'
  BY <1>1, <1>2 DEF Live, Attend, Attended, Known
<1>5. OwnerTurn(r)' /\ Placed'
  BY <1>1, OwnerTurnKept DEF Live, Placed
<1>6. Programs(r)'
  <2>1. Sure(r)' => Sure(r)
    BY <1>1, SureKept
  <2> QED
    BY <1>1, <1>2, <1>3, <2>1, ProgramsKept DEF Live
<1>7. Data(r)'
  <2>1. Fresh'
    BY <1>1, <1>3 DEF Live, Data, Fresh, On
  <2>2. Begun(r)'
    <3>1. spc \in Program => Sock(0) \in Clients
      BY Positions, ClientsAssumption DEF Live, Program, Clients
    <3>2. spc = "getGCircuit" => Sock(0) \in Clients
      BY Positions, ClientsAssumption DEF Live, Clients
    <3> QED
      BY <1>1, <1>2, <1>3, <3>1, <3>2 DEF Live, Data, Begun, On
  <2> QED
    BY <1>1, <1>2, <1>3, <2>1, <2>2, DataKept DEF Live
<1>8. Outputs(r)'
  <2>1. (spc = "writeOutput" => Due(Sock(i), reply, r)) =>
            (spc' = "writeOutput" => Due(Sock(i), reply, r)')
    BY <1>1, <1>2 DEF Due
  <2> QED
    BY <1>1, <1>2, <1>3, <2>1, OutputsKept DEF Live
<1> QED
  BY <1>4, <1>5, <1>6, <1>7, <1>8 DEF Live

LEMMA ClientStep ==
  ASSUME FInv, NEW c \in Clients,
         UNCHANGED <<scenario, ownerVars, serverVars, enclaveVars, serving>>,
         PeerKinds', ServerKinds',
         \A d \in Clients : d # c =>
           /\ cpc'[d] = cpc[d] /\ com_key'[d] = com_key[d] /\ crounds'[d] = crounds[d]
           /\ results'[d] = results[d] /\ up'[d] = up[d] /\ down'[d] = down[d]
           /\ open'[d] = open[d],
         ClientSide(c)', Flow(c)',
         serving => Reads(c)' = Reads(c),
         serving => up'[Owner] = up[Owner],
         down'[Owner] = down[Owner], open'[Owner] = open[Owner],
         \A r \in Nat \ {0} : serving /\ Live(r) =>
           Ends' /\ Connected' /\ (Missed(c, r) => Missed(c, r)') /\ Replied(c, r)'
  PROVE  FInv'
<1>1. \A d \in Clients : d # c => ClientSide(d)' /\ Flow(d)' /\ Reads(d)' = Reads(d)
  BY OtherClient DEF FInv, Clientele
<1>2. Clientele'
  BY <1>1 DEF Clientele
<1>3. EnclaveKinds'
  BY DEF FInv, EnclaveKinds, enclaveVars, state
<1>4. ASSUME serving PROVE \E r \in Nat \ {0} : Live(r)'
  <2>1. PICK r \in Nat \ {0} : Live(r)
    BY <1>4 DEF FInv
  <2>2. \A d : Turns(d, r)' = Turns(d, r) /\ (Given(d)' <=> Given(d))
    BY PlacesKept DEF serverVars
  <2>3. \A d \in Clients : Missed(d, r) => Missed(d, r)'
    BY <1>4, <2>1, <2>2 DEF Missed
  <2>4. \A d \in Clients : Replied(d, r)'
    BY <1>4, <2>1, <2>2 DEF Replied, Live, Attend
  <2>5. Live(r)'
    BY <1>1, <1>4, <2>1, <2>3, <2>4, ClientMoves
  <2> QED
    BY <2>5
<1> QED
  BY <1>2, <1>3, <1>4 DEF FInv

LEMMA FaultyConnect ==
  ASSUME FInv, NEW c \in Clients, Connect(c), UNCHANGED <<ownerVars, serverVars, enclaveVars>>
  PROVE  FInv'
<1>1. /\ cpc[c] = "connect" /\ cpc' = [cpc EXCEPT ![c] = "send"]
      /\ UNCHANGED <<scenario, com_key, crounds, results, sockets>>
  BY DEF Connect
<1>2. UNCHANGED <<up, down, open, serving, rstS, rstP, spc, sock_client_map, reply>>
  BY <1>1 DEF sockets, serverVars
<1>3. cpc'[c] = "send" /\ \A d \in Clients : d # c => cpc'[d] = cpc[d]
  BY <1>1 DEF FInv, PeerKinds
<1>4. PeerKinds' /\ ServerKinds'
  BY <1>1, <1>2 DEF FInv, PeerKinds, ServerKinds
<1>5. ClientSide(c) /\ Flow(c)
  BY DEF FInv, Clientele
<1>6. ClientSide(c)' /\ Flow(c)' /\ Reads(c)' = Reads(c)
  <2>1. /\ \A v : Sound(v)' <=> Sound(v)
        /\ \A d, n : InputSent(d, n)' = InputSent(d, n)
    BY <1>1, SoundKept
  <2>2. Reads(c)' = Reads(c)
    BY <1>1, <1>2 DEF Reads
  <2>3. ClientSide(c)'
    BY <1>1, <1>2, <1>3, <1>5, <2>1, <2>2 DEF ClientSide
  <2>4. Flow(c)'
    BY <1>1, <1>2, <1>5, <2>1 DEF Flow, Fine, Due
  <2> QED
    BY <2>2, <2>3, <2>4
<1>7. ASSUME NEW r \in Nat \ {0}, Live(r)
      PROVE  Ends' /\ Connected' /\ (Missed(c, r) => Missed(c, r)') /\ Replied(c, r)'
  <2>1. \A d : Turns(d, r)' = Turns(d, r) /\ (Given(d)' <=> Given(d))
    BY PlacesKept DEF serverVars
  <2>2. Ends'
    BY <1>1, <1>2, <1>7 DEF Live, Ends, QuitAfter
  <2>3. Connected'
    <3>1. cpc = [d \in Clients |-> cpc[d]]
      BY DEF FInv, PeerKinds
    <3> QED
      BY <1>7, <3>1, ConnectConnects DEF Live
  <2>4. (Missed(c, r) => Missed(c, r)') /\ Replied(c, r)'
    BY <1>1, <1>2, <1>7, <2>1 DEF Missed, Live, Attend, Replied
  <2> QED
    BY <2>2, <2>3, <2>4
<1> QED
  BY <1>1, <1>2, <1>3, <1>4, <1>6, <1>7, ClientStep

(* A peer's send, close and receipt. *)
LEMMA ConnectedStays ==
  ASSUME FInv, NEW r, Live(r), NEW c \in Clients, NEW pc \in {"send", "recv", "ended", "killed"},
         cpc' = [cpc EXCEPT ![c] = pc], UNCHANGED <<serverVars, backlog>>
  PROVE  Connected'
<1>1. \A d \in Clients : cpc[d] # "connect" => cpc'[d] # "connect"
  BY DEF FInv, PeerKinds
<1> QED
  BY <1>1, ConnectedKept DEF Live, serverVars

LEMMA FaultySendInput ==
  ASSUME FInv, NEW c \in Clients, SendInput(c), UNCHANGED <<ownerVars, serverVars, enclaveVars>>
  PROVE  FInv'
<1> USE PeersAssumption
<1> DEFINE m == InputSent(c, crounds[c] + 1)
<1>0. crounds[c] \in Nat /\ com_key[c] \in Int /\ Len(results[c]) \in Nat /\ Len(up[c]) \in Nat
  BY DEF FInv, PeerKinds
<1>1. /\ ClientSide(c) /\ Flow(c)
      /\ com_key[c] = c + 2 * crounds[c]
      /\ cpc[c] = "send" /\ crounds[c] < QuitAfter(c)
  <2>1. ClientSide(c) /\ Flow(c) /\ cpc[c] = "send" /\ crounds[c] < QuitAfter(c)
    BY DEF FInv, Clientele, SendInput
  <2> QED
    BY <1>0, <2>1, ClientsAssumption DEF ClientSide, Clients
<1>2. PeerSends(c, m)
  <2>1. c + 2 * (crounds[c] + 1) - 2 = com_key[c]
    BY <1>0, <1>1, ClientsAssumption DEF Clients
  <2> QED
    BY <2>1 DEF SendInput, InputSent, Input
<1>3. m \in FromClient(c)
  <2>1. Input(c, crounds[c] + 1) \in Nat \cup {Junk}
    BY <1>0 DEF Input
  <2>2. c + 2 * (crounds[c] + 1) - 2 \in Int
    BY <1>0, ClientsAssumption DEF Clients
  <2> QED
    BY <2>1, <2>2 DEF InputSent, Encrypt, FromClient
<1> HIDE DEF m
<1>4. /\ com_key' = [com_key EXCEPT ![c] = @ + 1] /\ crounds' = [crounds EXCEPT ![c] = @ + 1]
      /\ cpc' = [cpc EXCEPT ![c] = "recv"]
      /\ UNCHANGED <<scenario, results, backlog, down, open, serving, rstS>>
      /\ UNCHANGED <<spc, i, client_sock, sock_client_map, reply>>
  BY <1>2 DEF SendInput, PeerSends, serverVars
<1>5. /\ cpc'[c] = "recv" /\ com_key'[c] = com_key[c] + 1 /\ crounds'[c] = crounds[c] + 1
      /\ \A d \in Clients : d # c =>
           cpc'[d] = cpc[d] /\ com_key'[d] = com_key[d] /\ crounds'[d] = crounds[d]
  BY <1>4 DEF FInv, PeerKinds
<1>6. /\ DOMAIN up' = Peers /\ \A p \in Peers : p # c => up'[p] = up[p]
      /\ serving => up'[c] = Append(up[c], m) /\ UNCHANGED rstP
      /\ ~serving => up' = up
  BY <1>2 DEF PeerSends, FInv, PeerKinds
<1>7. up[c] \in Seq(FromClient(c)) /\ up'[c] \in Seq(FromClient(c))
  <2>1. up[c] \in Seq(FromClient(c))
    BY DEF FInv, PeerKinds
  <2> QED
    BY <1>3, <1>6, <2>1
<1>8. PeerKinds'
  <2>1. ASSUME NEW d \in Clients PROVE up'[d] \in Seq(FromClient(d))
    BY <1>6, <1>7 DEF FInv, PeerKinds
  <2>2. /\ crounds' \in [Clients -> Nat] /\ com_key' \in [Clients -> Int]
        /\ cpc' \in [Clients -> {"connect", "send", "recv", "ended", "killed"}]
    BY <1>4 DEF FInv, PeerKinds
  <2> QED
    BY <1>4, <1>6, <2>1, <2>2 DEF FInv, PeerKinds, FromClient
<1>9. ServerKinds'
  BY <1>4, <1>6 DEF FInv, ServerKinds
<1>10. ASSUME serving
       PROVE  /\ Len(up'[c]) = Len(up[c]) + 1 /\ up'[c][Len(up[c]) + 1] = m
              /\ \A k \in 1..Len(up[c]) : up'[c][k] = up[c][k]
              /\ Reads(c)' = Reads(c)
  <2>1. up'[c] = Append(up[c], m)
    BY <1>6, <1>10
  <2>2. /\ Len(up'[c]) = Len(up[c]) + 1 /\ up'[c][Len(up[c]) + 1] = m
        /\ \A k \in 1..Len(up[c]) : up'[c][k] = up[c][k]
    BY <1>3, <1>7, <2>1
  <2>3. crounds'[c] = crounds[c] + 1 /\ Len(up'[c]) = Len(up[c]) + 1
    BY <1>5, <2>2
  <2>4. Reads(c)' = Reads(c)
    BY <1>0, <2>3 DEF Reads
  <2> QED
    BY <2>2, <2>4
<1>11. ASSUME ~serving PROVE up[c] = <<>> /\ up'[c] = <<>>
  BY <1>6, <1>11 DEF FInv, ServerKinds
<1>12. /\ \A v : Sound(v)' <=> Sound(v)
       /\ \A d, n : InputSent(d, n)' = InputSent(d, n)
  BY <1>4, SoundKept
<1>13. ClientSide(c)'
  <2>1. Len(up'[c]) <= crounds'[c]
    BY <1>0, <1>1, <1>5, <1>10, <1>11 DEF ClientSide
  <2>2. ASSUME NEW k \in 1..Len(up'[c]) PROVE up'[c][k] = InputSent(c, Reads(c)' + k)
    <3>1. serving
      BY <1>11
    <3>2. CASE k = Len(up[c]) + 1
      <4>1. Reads(c)' + k = crounds[c] + 1
        BY <1>0, <1>10, <3>1, <3>2 DEF Reads
      <4> QED
        BY <1>10, <3>1, <3>2, <4>1 DEF m
    <3>3. CASE k # Len(up[c]) + 1
      BY <1>0, <1>1, <1>10, <3>1, <3>3 DEF ClientSide
    <3> QED
      BY <3>2, <3>3
  <2>3. com_key'[c] = c + crounds'[c] + Len(results'[c])
    BY <1>0, <1>1, <1>4, <1>5, ClientsAssumption DEF ClientSide, Clients
  <2> QED
    BY <1>0, <1>1, <1>4, <1>5, <1>12, <2>1, <2>2, <2>3 DEF ClientSide
<1>14. Flow(c)'
  BY <1>1, <1>4, <1>12 DEF Flow, Fine, Due
<1>15. ASSUME NEW r \in Nat \ {0}, serving, Live(r)
       PROVE  Ends' /\ Connected' /\ (Missed(c, r) => Missed(c, r)') /\ Replied(c, r)'
  <2>1. Given(c)' <=> Given(c)
    BY <1>4, PlacesKept
  <2>2. open[c]
    BY <1>1 DEF ClientSide
  <2>3. Ends'
    <3>1. QuitAfter(c) \in Nat
      BY ScenarioSays DEF FInv, PeerKinds
    <3> QED
      BY <1>0, <1>1, <1>4, <1>5, <1>6, <1>15, <2>2, <3>1 DEF Live, Ends, QuitAfter
  <2>4. Connected'
    BY <1>4, <1>15, ConnectedStays
  <2>5. Replied(c, r)'
    BY <1>4, <1>15, <2>1 DEF Live, Attend, Replied
  <2> QED
    BY <2>2, <2>3, <2>4, <2>5 DEF Missed
<1>16. /\ down'[Owner] = down[Owner] /\ open'[Owner] = open[Owner] /\ up'[Owner] = up[Owner]
       /\ \A d \in Clients : d # c =>
            results'[d] = results[d] /\ up'[d] = up[d] /\ down'[d] = down[d] /\ open'[d] = open[d]
  BY <1>4, <1>6
<1> QED
  BY <1>4, <1>5, <1>8, <1>9, <1>10, <1>13, <1>14, <1>15, <1>16, ClientStep

(* Sums, which the provers do not see through when they are of lengths.    *)
LEMMA OneFurther == \A x, y, k \in Int : x = y + 1 => x + k = y + (k + 1)
OBVIOUS

LEMMA OneMoved == \A y, b \in Int : (y + 1) + (b - 1) = y + b
OBVIOUS

(* What a client decrypts is what it may have as its next result. *)
LEMMA NextResult ==
  ASSUME FInv, NEW c \in Clients, cpc[c] = "recv", down[c] # <<>>,
         NEW v, v = Decrypt(com_key[c], Head(down[c]))
  PROVE  v \in Values /\ Sound(v) /\ Fine(c, v, Len(results[c]) + 1)
<1> DEFINE n == Len(results[c]) + 1
<1>1. /\ n \in Nat \ {0} /\ c \in Int
      /\ down[c] \in Seq(Coded) /\ Head(down[c]) = down[c][1] /\ 1 \in 1..Len(down[c])
  BY ClientsAssumption DEF FInv, PeerKinds, Clients
<1>2. com_key[c] = c + 2 * n - 1 /\ Flow(c)
  BY <1>1 DEF FInv, PeerKinds, Clientele, ClientSide
<1>3. Sound(down[c][1].v) /\ Due(c, down[c][1], n)
  BY <1>1, <1>2 DEF Flow
<1>4. down[c][1] \in Coded
  BY <1>1
<1>5. CASE v = Junk
  BY <1>5, JunkIsSound
<1>6. CASE v # Junk
  <2>1. v = down[c][1].v /\ down[c][1].key = com_key[c]
    BY <1>1, <1>6 DEF Decrypt
  <2>2. v \in Values
    BY <1>4, <2>1 DEF Coded
  <2>3. Fine(c, v, n)
    BY <1>2, <1>3, <2>1 DEF Due, Fine
  <2> QED
    BY <1>3, <2>1, <2>2, <2>3
<1> QED
  BY <1>5, <1>6

LEMMA FaultyRecvResult ==
  ASSUME FInv, NEW c \in Clients, RecvResult(c), UNCHANGED <<ownerVars, serverVars, enclaveVars>>
  PROVE  FInv'
<1> USE PeersAssumption
<1>0. /\ crounds[c] \in Nat /\ com_key[c] \in Int /\ Len(results[c]) \in Nat /\ c \in Int
      /\ results[c] \in Seq(Values) /\ down[c] \in Seq(Coded) /\ Len(down[c]) \in Nat
  BY ClientsAssumption DEF FInv, PeerKinds, Clients
<1>1. ClientSide(c) /\ Flow(c) /\ cpc[c] = "recv"
  BY DEF FInv, Clientele, RecvResult
<1>2. PICK v \in Values :
        /\ Sound(v) /\ Fine(c, v, Len(results[c]) + 1)
        /\ results' = [results EXCEPT ![c] = Append(@, v)]
        /\ \/ PeerGets(c)
           \/ ~serving /\ down[c] = <<>> /\ UNCHANGED sockets
  <2>1. CASE PeerGets(c)
    <3> DEFINE v == Decrypt(com_key[c], Head(down[c]))
    <3>1. down[c] # <<>> /\ results' = [results EXCEPT ![c] = Append(@, v)]
      BY <2>1 DEF RecvResult, PeerGets, PeerRecvEnds
    <3>2. v \in Values /\ Sound(v) /\ Fine(c, v, Len(results[c]) + 1)
      BY <1>1, <3>1, NextResult
    <3> QED
      BY <2>1, <3>1, <3>2
  <2>2. CASE ~PeerGets(c)
    BY <2>2, JunkIsSound DEF RecvResult, PeerRecvEnds
  <2> QED
    BY <2>1, <2>2
<1>3. /\ com_key' = [com_key EXCEPT ![c] = @ + 1] /\ cpc' = [cpc EXCEPT ![c] = "send"]
      /\ UNCHANGED <<scenario, crounds, backlog, up, open, serving, rstS, rstP>>
      /\ UNCHANGED <<spc, i, client_sock, sock_client_map, reply>>
  BY <1>2 DEF RecvResult, PeerGets, sockets, serverVars
<1>4. /\ cpc'[c] = "send" /\ com_key'[c] = com_key[c] + 1
      /\ results'[c] = Append(results[c], v)
      /\ \A d \in Clients : d # c =>
           cpc'[d] = cpc[d] /\ com_key'[d] = com_key[d] /\ results'[d] = results[d]
  BY <1>2, <1>3 DEF FInv, PeerKinds
<1>5. /\ DOMAIN down' = Peers /\ \A p \in Peers : p # c => down'[p] = down[p]
      /\ \/ down[c] # <<>> /\ down'[c] = Tail(down[c])
         \/ ~serving /\ down[c] = <<>> /\ down'[c] = <<>>
  BY <1>2 DEF PeerGets, sockets, FInv, PeerKinds
<1>6. /\ results'[c] \in Seq(Values) /\ Len(results'[c]) = Len(results[c]) + 1
      /\ results'[c][Len(results[c]) + 1] = v
      /\ \A n \in 1..Len(results[c]) : results'[c][n] = results[c][n]
  BY <1>0, <1>4
<1>7. /\ down'[c] \in Seq(Coded)
      /\ \A k \in 1..Len(down'[c]) : k + 1 \in 1..Len(down[c]) /\ down'[c][k] = down[c][k + 1]
      /\ Len(down'[c]) \in Nat /\ (serving => Len(down'[c]) = Len(down[c]) - 1)
  <2>1. CASE down[c] # <<>> /\ down'[c] = Tail(down[c])
    BY <1>0, <2>1
  <2>2. CASE ~serving /\ down[c] = <<>> /\ down'[c] = <<>>
    BY <1>0, <2>2
  <2> QED
    BY <1>5, <2>1, <2>2
<1>8. PeerKinds'
  <2>1. ASSUME NEW d \in Clients
        PROVE  down'[d] \in Seq(Coded) /\ results'[d] \in Seq(Values)
    BY <1>4, <1>5, <1>6, <1>7 DEF FInv, PeerKinds
  <2>2. results' \in [Clients -> Seq(Values)]
    BY <1>2, <2>1 DEF FInv, PeerKinds
  <2>3. /\ com_key' \in [Clients -> Int]
        /\ cpc' \in [Clients -> {"connect", "send", "recv", "ended", "killed"}]
    BY <1>3 DEF FInv, PeerKinds
  <2> QED
    BY <1>3, <1>5, <2>1, <2>2, <2>3 DEF FInv, PeerKinds, FromClient, Coded, Values
<1>9. ServerKinds'
  BY <1>3 DEF FInv, ServerKinds, Coded, Values
<1>10. /\ \A w : Sound(w)' <=> Sound(w)
       /\ \A d, n : InputSent(d, n)' = InputSent(d, n)
       /\ Reads(c)' = Reads(c)
  BY <1>3, SoundKept DEF Reads
<1>11. ClientSide(c)'
  <2>1. Len(results'[c]) = Len(results[c]) + 1 /\ com_key'[c] = com_key[c] + 1
    BY <1>4, <1>6
  <2>2. crounds[c] = Len(results[c]) + 1 /\ com_key[c] = c + crounds[c] + Len(results[c])
    BY <1>1 DEF ClientSide
  <2>3. crounds[c] = Len(results'[c]) /\ com_key'[c] = c + crounds[c] + Len(results'[c])
    BY <1>0, <2>1, <2>2
  <2> QED
    BY <1>1, <1>3, <1>4, <1>10, <2>3 DEF ClientSide
<1>12. Flow(c)'
  <2>1. ASSUME NEW n \in 1..Len(results'[c])
        PROVE  Sound(results'[c][n]) /\ Fine(c, results'[c][n], n)
    <3>1. CASE n = Len(results[c]) + 1
      BY <1>2, <1>6, <3>1
    <3>2. CASE n # Len(results[c]) + 1
      BY <1>0, <1>1, <1>6, <3>2 DEF Flow
    <3> QED
      BY <3>1, <3>2
  <2>2. ASSUME NEW k \in 1..Len(down'[c])
        PROVE  Sound(down'[c][k].v) /\ Due(c, down'[c][k], Len(results'[c]) + k)
    <3>1. Len(results'[c]) + k = Len(results[c]) + (k + 1)
      <4>1. Len(results'[c]) = Len(results[c]) + 1
        BY <1>6
      <4>2. Len(results[c]) \in Int /\ Len(results'[c]) \in Int /\ k \in Int
        BY <1>0, <1>6, <1>7
      <4> QED
        BY <4>1, <4>2, OneFurther
    <3>2. Sound(down[c][k + 1].v) /\ Due(c, down[c][k + 1], Len(results[c]) + (k + 1))
      BY <1>1, <1>7 DEF Flow
    <3> QED
      BY <1>7, <3>1, <3>2
  <2> QED
    BY <1>10, <2>1, <2>2 DEF Flow, Fine, Due
<1>13. ASSUME NEW r \in Nat \ {0}, serving, Live(r)
       PROVE  Ends' /\ Connected' /\ (Missed(c, r) => Missed(c, r)') /\ Replied(c, r)'
  <2>1. (Given(c)' <=> Given(c)) /\ Turns(c, r)' = Turns(c, r)
    BY <1>3, PlacesKept
  <2>2. Ends'
    BY <1>3, <1>13 DEF Live, Ends, QuitAfter
  <2>3. Connected'
    BY <1>3, <1>13, ConnectedStays
  <2>4. Len(results'[c]) + Len(down'[c]) = Len(results[c]) + Len(down[c])
    <3>1. Len(results'[c]) = Len(results[c]) + 1 /\ Len(down'[c]) = Len(down[c]) - 1
      BY <1>6, <1>7, <1>13
    <3>2. /\ Len(results[c]) \in Int /\ Len(down[c]) \in Int
          /\ Len(results'[c]) \in Int /\ Len(down'[c]) \in Int
      BY <1>0, <1>6, <1>7
    <3> QED
      BY <3>1, <3>2, OneMoved
  <2>5. Replied(c, r)'
    BY <1>3, <1>13, <2>1, <2>4 DEF Live, Attend, Replied
  <2>6. Missed(c, r) => Missed(c, r)'
    BY <1>3, <2>1 DEF Missed
  <2> QED
    BY <2>2, <2>3, <2>5, <2>6
<1>14. /\ down'[Owner] = down[Owner] /\ open'[Owner] = open[Owner] /\ up'[Owner] = up[Owner]
       /\ \A d \in Clients : d # c =>
            crounds'[d] = crounds[d] /\ up'[d] = up[d] /\ down'[d] = down[d] /\ open'[d] = open[d]
  BY <1>3, <1>5
<1>15. DOMAIN rstS' = Peers
  BY <1>3 DEF FInv, ServerKinds
<1> QED
  BY <1>3, <1>4, <1>8, <1>9, <1>10, <1>11, <1>12, <1>13, <1>14, ClientStep

(* A client that leaves has done its rounds, as long as the server lives.  *)
LEMMA FaultyClose ==
  ASSUME FInv, NEW c \in Clients, NEW pc \in {"ended", "killed"},
         cpc' = [cpc EXCEPT ![c] = pc], PeerCloses(c), cpc[c] \in {"send", "recv"},
         serving /\ rstP = [p \in Peers |-> "none"] => crounds[c] = QuitAfter(c),
         UNCHANGED <<scenario, com_key, crounds, results, backlog>>,
         UNCHANGED <<ownerVars, serverVars, enclaveVars>>
  PROVE  FInv'
<1> USE PeersAssumption
<1>1. ClientSide(c) /\ Flow(c)
  BY DEF FInv, Clientele
<1>2. /\ open' = [open EXCEPT ![c] = FALSE] /\ down' = [down EXCEPT ![c] = <<>>]
      /\ UNCHANGED <<up, serving, rstP>>
      /\ rstS' = [rstS EXCEPT ![c] = IF down[c] # <<>> THEN ResetSent(rstS[c]) ELSE rstS[c]]
      /\ UNCHANGED <<spc, i, client_sock, sock_client_map, reply>>
  BY DEF PeerCloses, serverVars
<1>3. /\ ~open'[c] /\ down'[c] = <<>> /\ cpc'[c] = pc
      /\ \A p \in Peers : p # c =>
           open'[p] = open[p] /\ down'[p] = down[p] /\ rstS'[p] = rstS[p]
      /\ \A d \in Clients : d # c => cpc'[d] = cpc[d]
      /\ DOMAIN down' = Peers /\ DOMAIN rstS' = Peers
  BY <1>2 DEF FInv, PeerKinds, ServerKinds
<1>4. PeerKinds'
  <2>1. /\ open' \in [Peers -> BOOLEAN]
        /\ cpc' \in [Clients -> {"connect", "send", "recv", "ended", "killed"}]
    BY <1>2 DEF FInv, PeerKinds
  <2>2. ASSUME NEW d \in Clients PROVE down'[d] \in Seq(Coded)
    <3>1. CASE d = c
      BY <1>3, <3>1
    <3>2. CASE d # c
      BY <1>3, <3>2 DEF FInv, PeerKinds
    <3> QED
      BY <3>1, <3>2
  <2>3. \A d \in Clients : up'[d] \in Seq(FromClient(d))
    BY <1>2 DEF FInv, PeerKinds
  <2> QED
    BY <1>2, <1>3, <2>1, <2>2, <2>3 DEF FInv, PeerKinds
<1>5. ServerKinds'
  BY <1>2, <1>3 DEF FInv, ServerKinds, Coded, Values
<1>6. /\ \A v : Sound(v)' <=> Sound(v)
      /\ \A d, n : InputSent(d, n)' = InputSent(d, n)
      /\ Reads(c)' = Reads(c)
  BY <1>2, SoundKept DEF Reads
<1>7. ClientSide(c)'
  BY <1>1, <1>2, <1>3, <1>6 DEF ClientSide
<1>8. Flow(c)'
  BY <1>1, <1>3, <1>6 DEF Flow, Fine
<1>9. ASSUME NEW r \in Nat \ {0}, serving, Live(r)
      PROVE  Ends' /\ Connected' /\ (Missed(c, r) => Missed(c, r)') /\ Replied(c, r)'
  <2>1. Turns(c, r)' = Turns(c, r)
    BY <1>2, PlacesKept
  <2>2. Ends'
    BY <1>2, <1>3, <1>9 DEF Live, Ends, QuitAfter
  <2>3. Connected'
    BY <1>9, ConnectedStays
  <2>4. Replied(c, r)'
    BY <1>3 DEF Replied
  <2>5. Missed(c, r) => Missed(c, r)'
    BY <1>2, <1>3, <2>1 DEF Missed
  <2> QED
    BY <2>2, <2>3, <2>4, <2>5
<1> QED
  BY <1>2, <1>3, <1>4, <1>5, <1>6, <1>7, <1>8, <1>9, ClientStep

LEMMA FaultyLeave ==
  ASSUME FInv, NEW c \in Clients, Leave(c), UNCHANGED <<ownerVars, serverVars, enclaveVars>>
  PROVE  FInv'
<1>1. \/ cpc[c] = "send" /\ crounds[c] = QuitAfter(c)
      \/ cpc[c] = "recv" /\ rstP[c] = "arrived"
  BY DEF Leave, PeerRecvFails
<1>2. rstP = [p \in Peers |-> "none"] => rstP[c] # "arrived"
  BY PeersAssumption
<1> QED
  BY <1>1, <1>2, FaultyClose DEF Leave

LEMMA FaultyBrokenPipe ==
  ASSUME FInv, NEW c \in Clients, ClientBrokenPipe(c),
         UNCHANGED <<ownerVars, serverVars, enclaveVars>>
  PROVE  FInv'
<1>1. rstP = [p \in Peers |-> "none"] => rstP[c] # "arrived"
  BY PeersAssumption
<1> QED
  BY <1>1, FaultyClose DEF ClientBrokenPipe

-----------------------------------------------------------------------------
(* The program owner. *)

OwnerChannelStep ==
  \/ \E m : PeerSends(Owner, m)
  \/ PeerGets(Owner) \/ PeerCloses(Owner) \/ UNCHANGED sockets

LEMMA OwnerMoves ==
  ASSUME FInv, OwnerChannelStep,
         UNCHANGED <<scenario, clientVars, serverVars, backlog, enclaveVars>>,
         \A r \in Nat \ {0} : serving /\ Live(r) => OwnerTurn(r)'
  PROVE  FInv'
<1> USE PeersAssumption
<1>1. /\ DOMAIN up' = Peers /\ DOMAIN down' = Peers /\ DOMAIN rstS' = Peers
      /\ open' \in [Peers -> BOOLEAN] /\ serving' = serving
      /\ \A p \in Peers : p # Owner =>
           up'[p] = up[p] /\ down'[p] = down[p] /\ open'[p] = open[p] /\ rstS'[p] = rstS[p]
      /\ open'[Owner] => open[Owner] /\ rstS'[Owner] = rstS[Owner]
      /\ serving => rstP' = rstP
      /\ ~serving => up' = up
  <2> USE DEF FInv, PeerKinds, ServerKinds
  <2>1. CASE \E m : PeerSends(Owner, m)
    BY <2>1 DEF PeerSends
  <2>2. CASE PeerGets(Owner)
    BY <2>2 DEF PeerGets
  <2>3. CASE PeerCloses(Owner)
    BY <2>3 DEF PeerCloses
  <2>4. CASE UNCHANGED sockets
    BY <2>4 DEF sockets
  <2> QED
    BY <2>1, <2>2, <2>3, <2>4 DEF OwnerChannelStep
<1>2. /\ UNCHANGED <<spc, i, client_sock, sock_client_map, reply>>
      /\ UNCHANGED <<cpc, com_key, crounds, results>>
      /\ UNCHANGED <<enclave, datainput, freed, damaged, com_to_client_key, com_key_program, C,
                     outGarblings, output>>
  BY DEF serverVars, clientVars, enclaveVars, state
<1>3. \A c \in Clients :
        c # Owner /\ up'[c] = up[c] /\ down'[c] = down[c] /\ open'[c] = open[c]
  BY <1>1
<1>4. PeerKinds' /\ ServerKinds' /\ EnclaveKinds'
  <2>1. PeerKinds'
    <3>1. \A c \in Clients : up'[c] \in Seq(FromClient(c)) /\ down'[c] \in Seq(Coded)
      BY <1>3 DEF FInv, PeerKinds
    <3> QED
      BY <1>1, <1>2, <3>1 DEF FInv, PeerKinds
  <2>2. ServerKinds'
    BY <1>1, <1>2 DEF FInv, ServerKinds
  <2>3. EnclaveKinds'
    BY <1>2 DEF FInv, EnclaveKinds
  <2> QED
    BY <2>1, <2>2, <2>3
<1>5. \A c \in Clients : ClientSide(c)' /\ Flow(c)' /\ Reads(c)' = Reads(c)
  BY <1>2, <1>3, OtherClient DEF FInv, Clientele
<1>6. ASSUME serving PROVE \E r \in Nat \ {0} : Live(r)'
  <2>1. PICK r \in Nat \ {0} : Live(r)
    BY <1>6 DEF FInv
  <2>2. /\ \A c : Position(c)' = Position(c) /\ (Got(c)' <=> Got(c))
        /\ \A c : (Taken(c)' <=> Taken(c)) /\ (Given(c)' <=> Given(c))
        /\ \A n : Sock(n)' = Sock(n)
        /\ \A c : Turns(c, r)' = Turns(c, r)
        /\ Base(r)' = Base(r)
    BY <1>2, PlacesKept
  <2>3. Ends'
    BY <1>1, <1>2, <1>3, <1>6, <2>1 DEF Live, Ends, QuitAfter
  <2>4. Placed' /\ Connected'
    BY <1>2, <2>1, ConnectedKept DEF Live, Placed
  <2>5. Attend(r)'
    BY <1>2, <1>3, <1>5, <2>1, <2>2 DEF Live, Attend, Attended, Known, Replied, Missed
  <2>6. Programs(r)'
    <3>1. Sure(r)' => Sure(r)
      BY <1>2, <1>5, SureKept
    <3> QED
      BY <1>1, <1>2, <2>1, <2>2, <3>1, ProgramsKept DEF Live
  <2>7. Data(r)'
    <3>1. Fresh'
      BY <1>1, <1>2, <2>1 DEF Live, Data, Fresh, On
    <3>2. Begun(r)'
      <4>1. spc \in Program \cup {"getGCircuit"} => Sock(0) \in Clients
        BY <2>1, Positions, ClientsAssumption DEF Live, Program, Clients
      <4> QED
        BY <1>1, <1>2, <1>5, <2>1, <2>2, <4>1 DEF Live, Data, Begun, On
    <3> QED
      BY <1>2, <1>5, <2>1, <2>2, <3>1, <3>2, DataKept DEF Live
  <2>8. Outputs(r)'
    <3>1. (spc = "writeOutput" => Due(Sock(i), reply, r)) =>
            (spc' = "writeOutput" => Due(Sock(i), reply, r)')
      BY <1>2, <2>2 DEF Due
    <3> QED
      BY <1>1, <1>2, <1>5, <2>1, <3>1, OutputsKept DEF Live
  <2>9. OwnerTurn(r)'
    BY <1>6, <2>1
  <2> QED
    BY <2>3, <2>4, <2>5, <2>6, <2>7, <2>8, <2>9 DEF Live
<1> QED
  BY <1>1, <1>4, <1>5, <1>6 DEF FInv, Clientele

(* What the owner's sends and receipts do while the server lives. *)
LEMMA OwnerDoes ==
  ASSUME FInv, serving, NEW r \in Nat \ {0}, Live(r)
  PROVE  /\ ~OwnerRecvNothing /\ rstP[Owner] # "arrived"
         /\ OwnerRecv => /\ down[Owner] # <<>> /\ down'[Owner] = Tail(down[Owner])
                         /\ up' = up /\ open' = open
         /\ \A m : PeerSends(Owner, m) =>
              up'[Owner] = Append(up[Owner], m) /\ down' = down /\ open' = open
<1> USE PeersAssumption DEF FInv, Live, Ends, PeerKinds
<1>1. rstP[Owner] = "none"
  OBVIOUS
<1>2. ~OwnerRecvNothing
  BY <1>1 DEF OwnerRecvNothing, PeerRecvEnds, PeerRecvFails
<1>3. OwnerRecv => /\ down[Owner] # <<>> /\ down'[Owner] = Tail(down[Owner])
                   /\ up' = up /\ open' = open
  BY DEF OwnerRecv, PeerGets
<1>4. ASSUME NEW m, PeerSends(Owner, m)
      PROVE  up'[Owner] = Append(up[Owner], m) /\ down' = down /\ open' = open
  BY <1>4 DEF PeerSends
<1> QED
  BY <1>1, <1>2, <1>3, <1>4

(* An owner that is at one of its calls is where the server expects it.    *)
LEMMA OwnerIsHere ==
  ASSUME NEW r, Live(r), opc \notin {"ended", "killed"}
  PROVE  /\ Here(r) /\ OwnerKeys /\ open[Owner]
         /\ spc \in Inputs \cup Middle \cup Decoded
         /\ spc \in {"recvProgram", "ackProgram", "sendGProgram", "recvGAck"} => i \in 1..Chunks
BY DEF Live, OwnerTurn, Gone, OwnerKeys, Placed

LEMMA FaultyOwnerConnect == ASSUME FInv, OwnerConnect PROVE FInv'
<1>1. /\ opc = "connect" /\ opc' = "prepare"
      /\ UNCHANGED <<scenario, clientVars, ocom_key, orounds, oi, serverVars, backlog,
                     enclaveVars, sockets>>
  BY DEF OwnerConnect
<1>2. ASSUME NEW r \in Nat \ {0}, serving, Live(r) PROVE OwnerTurn(r)'
  <2>1. Here(r) /\ OwnerKeys /\ open[Owner]
    BY <1>1, <1>2, OwnerIsHere
  <2>2. UNCHANGED <<up, down, open, spc, i, buffer, prog>>
    BY <1>1 DEF sockets, serverVars
  <2>3. \A n : Begins(n) => Begins(n)'
    BY <1>1, <2>2 DEF Begins, Row, RowAt
  <2>4. /\ \A n, k : ~Ready(n, k) /\ ~Gets(n, k)
        /\ \A n, u : ~Evaluates(n, u)
        /\ \A n, k, u, d : ~RowAt("recvAck", n, k, u, d) /\ ~Row("recvSize", n, u, d)
        /\ \A n, k : Sends(n, k) => k = 1 /\ Begins(n)
    BY <1>1 DEF Ready, Gets, Evaluates, Row, RowAt, Sends
  <2>5. Here(r)'
    BY <1>1, <2>1, <2>2, <2>3, <2>4 DEF Here, Sends, Pieces, Piece, Plain, Encrypt
  <2> QED
    BY <1>1, <2>1, <2>2, <2>5 DEF OwnerTurn, OwnerKeys
<1> QED
  BY <1>1, <1>2, OwnerMoves DEF OwnerChannelStep

(* A step of the owner takes it from one row of the server's place to      *)
(* another. *)
LEMMA HereStays ==
  ASSUME NEW r \in Int, Here(r), Live(r), UNCHANGED <<spc, i, buffer, prog>>,
         opc' \notin {"ended", "killed"},
         \A n \in Int : Begins(n) => Begins(n)',
         \A k \in 2..Chunks : Sends(r, k) => Sends(r, k)',
         \A k \in 1..Chunks : ~RowAt("recvAck", r, k, <<>>, <<>>),
         \A k \in 1..Chunks : Ready(r, k) => Ready(r, k)',
         \A k \in 1..Chunks : Gets(r, k) => Gets(r, k)',
         Evaluates(r, <<>>) => Evaluates(r, <<>>)',
         ~Row("recvSize", r, <<>>, <<>>)
  PROVE  Here(r)'
<1>1. spc \in {"recvProgram", "ackProgram", "sendGProgram", "recvGAck"} => i \in 1..Chunks
  BY DEF Live, Placed
<1>2. 1 \in 1..Chunks /\ r + 1 \in Int
  BY ChunksAssumption
<1>3. ASSUME spc = "recvProgram" PROVE Sends(r, i)'
  <2>1. CASE i = 1
    <3>1. Begins(r)
      BY <1>3, <2>1 DEF Here, Sends
    <3> QED
      BY <2>1, <3>1 DEF Sends
  <2>2. CASE i # 1
    <3>1. i \in 2..Chunks
      BY <1>1, <1>3, <2>2, ChunksAssumption
    <3> QED
      BY <1>3, <3>1 DEF Here
  <2> QED
    BY <2>1, <2>2
<1> QED
  BY <1>1, <1>2, <1>3 DEF Here, Pieces, Piece, Plain, Encrypt

LEMMA FaultyPrepareProgram == ASSUME FInv, PrepareProgram PROVE FInv'
<1>1. /\ opc = "prepare" /\ opc' = "sendPiece" /\ oi' = 1
      /\ orounds' = orounds + 1 /\ ocom_key' = ocom_key + 1
      /\ UNCHANGED <<scenario, clientVars, serverVars, backlog, enclaveVars, sockets>>
  BY DEF PrepareProgram
<1>2. ASSUME NEW r \in Nat \ {0}, serving, Live(r) PROVE OwnerTurn(r)'
  <2>1. Here(r) /\ OwnerKeys /\ open[Owner]
    BY <1>1, <1>2, OwnerIsHere
  <2>2. UNCHANGED <<up, down, open, spc, i, buffer, prog>>
    BY <1>1 DEF sockets, serverVars
  <2>3. \A n \in Int : Begins(n) => Begins(n)'
    BY <1>1, <2>2 DEF Begins, Row, RowAt
  <2>4. /\ \A n, k : ~Ready(n, k) /\ ~Gets(n, k)
        /\ \A n, u : ~Evaluates(n, u)
        /\ \A n, k, u, d : ~RowAt("recvAck", n, k, u, d) /\ ~Row("recvSize", n, u, d)
        /\ \A k \in 2..Chunks : ~Sends(r, k)
    BY <1>1, ChunksAssumption DEF Ready, Gets, Evaluates, Row, RowAt, Sends
  <2>5. Here(r)'
    BY <1>1, <1>2, <2>1, <2>2, <2>3, <2>4, HereStays
  <2>6. orounds \in Int
    <3>1. spc \in Inputs \cup Middle \cup Decoded
      BY <1>1, <1>2, OwnerIsHere
    <3>2. Begins(r) \/ Begins(r + 1)
      BY <2>1, <2>4, <3>1, <1>1
         DEF Here, Sends, RowAt, Row, Inputs, Before, Middle, Program, Garbled, Decoded
    <3> QED
      BY <1>1, <3>2 DEF Begins, Row, RowAt
  <2> QED
    BY <1>1, <2>1, <2>2, <2>5, <2>6 DEF OwnerTurn, OwnerKeys
<1> QED
  BY <1>1, <1>2, OwnerMoves DEF OwnerChannelStep

LEMMA FaultySendPiece == ASSUME FInv, SendPiece PROVE FInv'
<1> DEFINE m == Piece(Encrypt(ocom_key - 1, orounds), oi)
<1>1. /\ opc = "sendPiece" /\ opc' = "recvAck" /\ PeerSends(Owner, m)
      /\ UNCHANGED <<scenario, clientVars, ocom_key, orounds, oi, serverVars, backlog,
                     enclaveVars>>
  BY DEF SendPiece
<1>2. ASSUME NEW r \in Nat \ {0}, serving, Live(r) PROVE OwnerTurn(r)'
  <2>1. Here(r) /\ OwnerKeys /\ open[Owner]
    BY <1>1, <1>2, OwnerIsHere
  <2>2. UNCHANGED <<spc, i, buffer, prog>>
    BY <1>1 DEF serverVars
  <2>3. up'[Owner] = Append(up[Owner], m) /\ down' = down /\ open' = open
    BY <1>1, <1>2, OwnerDoes
  <2>4. \A n \in Int : orounds = n => m = Piece(Plain(n), oi)
    BY <1>1, <2>1 DEF OwnerKeys, Plain
  <2>5. Append(<<>>, m) = <<m>>
    BY Short
  <2> HIDE DEF m
  <2>6. \A n \in Int : Begins(n) => Begins(n)'
    BY <1>1, <2>3, <2>4, <2>5 DEF Begins, Row, RowAt, Plain
  <2>7. ASSUME NEW k \in 2..Chunks, Sends(r, k) PROVE Sends(r, k)'
    <3>1. RowAt("sendPiece", r, k, <<>>, <<>>)
      BY <1>1, <2>7, ChunksAssumption DEF Sends, Row, RowAt
    <3>2. RowAt("recvAck", r, k, <<Piece(Plain(r), k)>>, <<>>)'
      BY <1>1, <2>3, <2>4, <2>5, <3>1 DEF Row, RowAt, Plain
    <3> QED
      BY <3>2, ChunksAssumption DEF Sends, Plain
  <2>8. /\ \A n, k : ~Ready(n, k) /\ ~Gets(n, k)
        /\ \A n, u : ~Evaluates(n, u)
        /\ \A n, k, u, d : ~RowAt("recvAck", n, k, u, d) /\ ~Row("recvSize", n, u, d)
    BY <1>1 DEF Ready, Gets, Evaluates, Row, RowAt
  <2>9. Here(r)'
    BY <1>1, <1>2, <2>1, <2>2, <2>6, <2>7, <2>8, HereStays
  <2> QED
    BY <1>1, <2>1, <2>3, <2>9 DEF OwnerTurn, OwnerKeys
<1> QED
  BY <1>1, <1>2, OwnerMoves DEF OwnerChannelStep

LEMMA FaultyRecvAck == ASSUME FInv, RecvAck PROVE FInv'
<1>1. /\ opc = "recvAck" /\ (OwnerRecv \/ OwnerRecvNothing)
      /\ oi < Chunks => oi' = oi + 1 /\ opc' = "sendPiece"
      /\ ~(oi < Chunks) => oi' = 1 /\ opc' = "recvPiece"
      /\ UNCHANGED <<scenario, clientVars, ocom_key, orounds, serverVars, backlog,
                     enclaveVars>>
  BY DEF RecvAck, NextPiece
<1>2. ASSUME NEW r \in Nat \ {0}, serving, Live(r) PROVE OwnerTurn(r)'
  <2>1. Here(r) /\ OwnerKeys /\ open[Owner]
    BY <1>1, <1>2, OwnerIsHere
  <2>2. UNCHANGED <<spc, i, buffer, prog>>
    BY <1>1 DEF serverVars
  <2>3. /\ down[Owner] # <<>> /\ down'[Owner] = Tail(down[Owner])
        /\ up' = up /\ open' = open
    BY <1>1, <1>2, OwnerDoes
  <2>4. \A n \in Int : ~Begins(n)
    BY <1>1, <2>3 DEF Begins, Row, RowAt
  <2>5. Tail(<<"ack">>) = <<>> /\ \A x : Tail(<<"ack", x>>) = <<x>>
    BY Short
  <2>6. ASSUME NEW k \in 2..Chunks, Sends(r, k) PROVE Sends(r, k)'
    <3>1. RowAt("recvAck", r, k - 1, <<>>, <<"ack">>)
      BY <1>1, <2>3, <2>4, <2>6 DEF Sends, Row, RowAt
    <3>2. RowAt("sendPiece", r, k, <<>>, <<>>)'
      BY <1>1, <2>3, <2>5, <3>1, ChunksAssumption DEF Row, RowAt
    <3> QED
      BY <3>2, ChunksAssumption DEF Sends
  <2>7. ASSUME NEW k \in 1..Chunks, Ready(r, k) PROVE Ready(r, k)'
    <3>1. k = 1 /\ RowAt("recvAck", r, Chunks, <<>>, <<"ack">>)
      BY <1>1, <2>7 DEF Ready, Row, RowAt
    <3>2. RowAt("recvPiece", r, k, <<>>, <<>>)'
      BY <1>1, <2>3, <2>5, <3>1, ChunksAssumption DEF Row, RowAt
    <3> QED
      BY <3>2 DEF Ready
  <2>8. ASSUME NEW k \in 1..Chunks, Gets(r, k) PROVE Gets(r, k)'
    <3>1. k = 1 /\ RowAt("recvAck", r, Chunks, <<>>, <<"ack", Piece(prog, 1)>>)
      BY <1>1, <2>3, <2>8 DEF Gets, Evaluates, Row, RowAt
    <3>2. RowAt("recvPiece", r, 1, <<>>, <<Piece(prog, 1)>>)'
      BY <1>1, <2>2, <2>3, <2>5, <3>1, ChunksAssumption DEF RowAt, Row, Piece
    <3> QED
      BY <3>1, <3>2 DEF Gets
  <2>9. /\ \A n, u : ~Evaluates(n, u)
        /\ \A n, k : ~RowAt("recvAck", n, k, <<>>, <<>>) /\ ~Row("recvSize", n, <<>>, <<>>)
    BY <1>1, <2>3 DEF Evaluates, Row, RowAt
  <2>10. opc' \in {"sendPiece", "recvPiece"}
    BY <1>1
  <2>11. Here(r)'
    BY <1>2, <2>1, <2>2, <2>4, <2>6, <2>7, <2>8, <2>9, <2>10, HereStays
  <2> QED
    BY <1>1, <2>1, <2>3, <2>10, <2>11 DEF OwnerTurn, OwnerKeys
<1>3. OwnerChannelStep
  BY <1>1 DEF OwnerChannelStep, OwnerRecv, OwnerRecvNothing
<1> QED
  BY <1>1, <1>2, <1>3, OwnerMoves

LEMMA FaultyRecvPiece == ASSUME FInv, RecvPiece PROVE FInv'
<1>1. /\ opc = "recvPiece" /\ (OwnerRecv \/ OwnerRecvNothing) /\ opc' = "sendAck"
      /\ UNCHANGED <<scenario, clientVars, ocom_key, orounds, oi, serverVars, backlog,
                     enclaveVars>>
  BY DEF RecvPiece
<1>2. ASSUME NEW r \in Nat \ {0}, serving, Live(r) PROVE OwnerTurn(r)'
  <2>1. Here(r) /\ OwnerKeys /\ open[Owner]
    BY <1>1, <1>2, OwnerIsHere
  <2>2. UNCHANGED <<spc, i, buffer, prog>>
    BY <1>1 DEF serverVars
  <2>3. /\ down[Owner] # <<>> /\ down'[Owner] = Tail(down[Owner])
        /\ up' = up /\ open' = open
    BY <1>1, <1>2, OwnerDoes
  <2>4. /\ \A n : ~Begins(n)
        /\ \A n, k : ~Sends(n, k) /\ ~Ready(n, k)
        /\ \A n, u : ~Evaluates(n, u)
        /\ \A n, k, u, d : ~RowAt("recvAck", n, k, u, d) /\ ~Row("recvSize", n, u, d)
    BY <1>1, <2>3 DEF Begins, Sends, Ready, Evaluates, Row, RowAt
  <2>5. ASSUME NEW k \in 1..Chunks, Gets(r, k) PROVE Gets(r, k)'
    <3>1. RowAt("recvPiece", r, k, <<>>, <<Piece(prog, k)>>)
      BY <1>1, <2>3, <2>4, <2>5 DEF Gets, Row, RowAt
    <3>2. Tail(<<Piece(prog, k)>>) = <<>>
      BY Short
    <3>3. RowAt("sendAck", r, k, <<>>, <<>>)'
      BY <1>1, <2>3, <3>1, <3>2 DEF Row, RowAt
    <3> QED
      BY <3>3 DEF Gets
  <2>6. Here(r)'
    BY <1>1, <1>2, <2>1, <2>2, <2>4, <2>5, HereStays
  <2> QED
    BY <1>1, <2>1, <2>3, <2>6 DEF OwnerTurn, OwnerKeys
<1>3. OwnerChannelStep
  BY <1>1 DEF OwnerChannelStep, OwnerRecv, OwnerRecvNothing
<1> QED
  BY <1>1, <1>2, <1>3, OwnerMoves

LEMMA FaultySendAck == ASSUME FInv, SendAck PROVE FInv'
<1>1. /\ opc = "sendAck" /\ PeerSends(Owner, "ack")
      /\ oi < Chunks => oi' = oi + 1 /\ opc' = "recvPiece"
      /\ ~(oi < Chunks) => oi' = 1 /\ opc' = "evaluate"
      /\ UNCHANGED <<scenario, clientVars, ocom_key, orounds, serverVars, backlog,
                     enclaveVars>>
  BY DEF SendAck, NextPiece
<1>2. ASSUME NEW r \in Nat \ {0}, serving, Live(r) PROVE OwnerTurn(r)'
  <2>1. Here(r) /\ OwnerKeys /\ open[Owner]
    BY <1>1, <1>2, OwnerIsHere
  <2>2. UNCHANGED <<spc, i, buffer, prog>>
    BY <1>1 DEF serverVars
  <2>3. up'[Owner] = Append(up[Owner], "ack") /\ down' = down /\ open' = open
    BY <1>1, <1>2, OwnerDoes
  <2>4. /\ \A n : ~Begins(n)
        /\ \A n, k : ~Sends(n, k) /\ ~Ready(n, k)
        /\ \A n, u : ~Evaluates(n, u)
        /\ \A n, k, u, d : ~RowAt("recvAck", n, k, u, d) /\ ~Row("recvSize", n, u, d)
    BY <1>1 DEF Begins, Sends, Ready, Evaluates, Row, RowAt
  <2>5. ASSUME NEW k \in 1..Chunks, Gets(r, k) PROVE Gets(r, k)'
    <3>1. RowAt("sendAck", r, k, <<>>, <<>>)
      BY <1>1, <2>4, <2>5 DEF Gets, Row, RowAt
    <3>2. up'[Owner] = <<"ack">> /\ down'[Owner] = <<>> /\ orounds' = r
      BY <1>1, <2>3, <3>1, Short DEF Row, RowAt
    <3>3. CASE k < Chunks
      <4>1. RowAt("recvPiece", r, k + 1, <<"ack">>, <<>>)'
        BY <1>1, <3>1, <3>2, <3>3 DEF Row, RowAt
      <4> QED
        BY <3>3, <4>1 DEF Gets
    <3>4. CASE ~(k < Chunks)
      <4>1. k = Chunks /\ Row("evaluate", r, <<"ack">>, <<>>)'
        BY <1>1, <3>1, <3>2, <3>4, ChunksAssumption DEF Row, RowAt
      <4> QED
        BY <4>1 DEF Gets, Evaluates
    <3> QED
      BY <3>3, <3>4
  <2>6. opc' \in {"recvPiece", "evaluate"}
    BY <1>1
  <2>7. Here(r)'
    BY <1>2, <2>1, <2>2, <2>4, <2>5, <2>6, HereStays
  <2> QED
    BY <1>1, <2>1, <2>3, <2>6, <2>7 DEF OwnerTurn, OwnerKeys
<1> QED
  BY <1>1, <1>2, OwnerMoves DEF OwnerChannelStep

(* Where the owner has all pieces, the server may yet have to read that.   *)
LEMMA EvaluatesAt ==
  ASSUME NEW r \in Nat \ {0}, Live(r), Here(r),
         opc \in {"evaluate", "sendGoutput"} \/ (opc = "recvSize" /\ down[Owner] = <<>>)
  PROVE  \/ spc = "recvGAck" /\ i = Chunks /\ Evaluates(r, <<"ack">>)
         \/ spc = "recvGoutput" /\ Evaluates(r, <<>>)
         \/ spc = "sendSize"
BY DEF Here, Begins, Sends, Ready, Gets, Row, RowAt, Live, Placed, Inputs, Middle, Program,
       Garbled, Decoded

LEMMA EvaluatesStays ==
  ASSUME NEW r \in Nat \ {0}, UNCHANGED <<spc, i>>, opc' \notin {"ended", "killed"},
         \/ spc = "recvGAck" /\ i = Chunks /\ Evaluates(r, <<"ack">>)'
         \/ spc = "recvGoutput" /\ Evaluates(r, <<>>)'
  PROVE  Here(r)'
BY DEF Here, Gets, Inputs, Before, Results2

LEMMA FaultySendGoutput == ASSUME FInv, SendGoutput PROVE FInv'
<1>1. /\ opc = "sendGoutput" /\ PeerSends(Owner, goutput) /\ opc' = "recvSize"
      /\ UNCHANGED <<scenario, clientVars, ocom_key, orounds, oi, serverVars, backlog,
                     enclaveVars>>
  BY DEF SendGoutput
<1>2. ASSUME NEW r \in Nat \ {0}, serving, Live(r) PROVE OwnerTurn(r)'
  <2>1. Here(r) /\ OwnerKeys /\ open[Owner]
    BY <1>1, <1>2, OwnerIsHere
  <2>2. UNCHANGED <<spc, i, buffer, prog>>
    BY <1>1 DEF serverVars
  <2>3. up'[Owner] = Append(up[Owner], goutput) /\ down' = down /\ open' = open
    BY <1>1, <1>2, OwnerDoes
  <2>4. ASSUME NEW u, Evaluates(r, u) PROVE Evaluates(r, u)'
    <3>1. Row("sendGoutput", r, u, <<>>)
      BY <1>1, <2>4 DEF Evaluates, Row
    <3>2. opc' = "recvSize" /\ orounds' = r /\ up'[Owner] = Append(u, goutput)
          /\ down'[Owner] = <<>>
      BY <1>1, <2>3, <3>1 DEF Row
    <3> QED
      BY <3>2 DEF Evaluates, Row
  <2>5. spc # "sendSize"
    BY <1>1, <2>1 DEF Here, Row
  <2>6. Here(r)'
    BY <1>1, <1>2, <2>1, <2>2, <2>4, <2>5, EvaluatesAt, EvaluatesStays
  <2> QED
    BY <1>1, <2>1, <2>3, <2>6 DEF OwnerTurn, OwnerKeys
<1> QED
  BY <1>1, <1>2, OwnerMoves DEF OwnerChannelStep

(* Evaluating something meaningless may bring the owner down; the server   *)
(* has then read all there is, but for an acknowledgement. *)
LEMMA FaultyEvaluate == ASSUME FInv, Evaluate PROVE FInv'
<1> USE PeersAssumption
<1>1. /\ opc = "evaluate"
      /\ \/ ocom_key' = ocom_key + 1 /\ opc' = "sendGoutput" /\ UNCHANGED sockets
         \/ opc' = "killed" /\ PeerCloses(Owner)
      /\ UNCHANGED <<scenario, clientVars, orounds, oi, serverVars, backlog, enclaveVars>>
  BY DEF Evaluate
<1>2. ASSUME NEW r \in Nat \ {0}, serving, Live(r) PROVE OwnerTurn(r)'
  <2>1. Here(r) /\ OwnerKeys /\ open[Owner]
    BY <1>1, <1>2, OwnerIsHere
  <2>2. UNCHANGED <<spc, i, buffer, prog>>
    BY <1>1 DEF serverVars
  <2>3. \/ spc = "recvGAck" /\ i = Chunks /\ Evaluates(r, <<"ack">>)
        \/ spc = "recvGoutput" /\ Evaluates(r, <<>>)
    <3>1. spc # "sendSize"
      BY <1>1, <2>1 DEF Here, Row
    <3> QED
      BY <1>1, <1>2, <2>1, <3>1, EvaluatesAt
  <2>4. \A u : Evaluates(r, u) => orounds = r /\ up[Owner] = u /\ down[Owner] = <<>>
    BY <1>1 DEF Evaluates, Row
  <2>5. CASE ocom_key' = ocom_key + 1 /\ opc' = "sendGoutput" /\ UNCHANGED sockets
    <3>1. \A u : Evaluates(r, u) => Evaluates(r, u)'
      BY <1>1, <2>4, <2>5 DEF Evaluates, Row, sockets
    <3>2. Here(r)'
      BY <2>2, <2>3, <2>5, <3>1, EvaluatesStays
    <3>3. open' = open /\ orounds' = orounds /\ orounds \in Int
      BY <1>1, <2>3, <2>4, <2>5 DEF sockets
    <3> QED
      BY <1>1, <2>1, <2>5, <3>2, <3>3 DEF OwnerTurn, OwnerKeys
  <2>6. CASE opc' = "killed" /\ PeerCloses(Owner)
    <3>1. up' = up /\ ~open'[Owner]
      BY <2>6 DEF PeerCloses, FInv, PeerKinds
    <3>2. Gone'
      BY <2>2, <2>3, <2>4, <2>6, <3>1 DEF Gone, Inputs, Before, Program
    <3> QED
      BY <2>6, <3>1, <3>2 DEF OwnerTurn, OwnerKeys
  <2> QED
    BY <1>1, <2>5, <2>6
<1>3. OwnerChannelStep
  BY <1>1 DEF OwnerChannelStep
<1> QED
  BY <1>1, <1>2, <1>3, OwnerMoves

LEMMA FaultyRecvSize == ASSUME FInv, RecvSize PROVE FInv'
<1>1. /\ opc = "recvSize" /\ (OwnerRecv \/ OwnerRecvNothing) /\ opc' = "prepare"
      /\ UNCHANGED <<scenario, clientVars, ocom_key, orounds, oi, serverVars, backlog,
                     enclaveVars>>
  BY DEF RecvSize
<1>2. ASSUME NEW r \in Nat \ {0}, serving, Live(r) PROVE OwnerTurn(r)'
  <2>1. Here(r) /\ OwnerKeys /\ open[Owner]
    BY <1>1, <1>2, OwnerIsHere
  <2>2. UNCHANGED <<spc, i, buffer, prog>>
    BY <1>1 DEF serverVars
  <2>3. /\ down[Owner] # <<>> /\ down'[Owner] = Tail(down[Owner])
        /\ up' = up /\ open' = open
    BY <1>1, <1>2, OwnerDoes
  <2>4. ASSUME NEW n \in Int, Begins(n) PROVE Begins(n)'
    <3>1. Row("recvSize", n - 1, <<>>, <<"size">>)
      BY <1>1, <2>4 DEF Begins, Row, RowAt
    <3>2. Tail(<<"size">>) = <<>>
      BY Short
    <3>3. Row("prepare", n - 1, <<>>, <<>>)'
      BY <1>1, <2>3, <3>1, <3>2 DEF Row
    <3> QED
      BY <3>3 DEF Begins
  <2>5. /\ \A k \in 2..Chunks : ~Sends(r, k)
        /\ \A n, k : ~Ready(n, k) /\ ~Gets(n, k)
        /\ \A n, u : ~Evaluates(n, u)
        /\ \A n, k, u, d : ~RowAt("recvAck", n, k, u, d)
        /\ \A n, u : ~Row("recvSize", n, u, <<>>)
    BY <1>1, <2>3, ChunksAssumption DEF Sends, Ready, Gets, Evaluates, Row, RowAt
  <2>6. Here(r)'
    BY <1>1, <1>2, <2>1, <2>2, <2>4, <2>5, HereStays
  <2> QED
    BY <1>1, <2>1, <2>3, <2>6 DEF OwnerTurn, OwnerKeys
<1>3. OwnerChannelStep
  BY <1>1 DEF OwnerChannelStep, OwnerRecv, OwnerRecvNothing
<1> QED
  BY <1>1, <1>2, <1>3, OwnerMoves

LEMMA FaultyOwnerLeave == ASSUME FInv, OwnerLeave PROVE FInv'
<1> USE PeersAssumption
<1>1. /\ opc = "prepare" /\ opc' = "ended" /\ PeerCloses(Owner)
      /\ UNCHANGED <<scenario, clientVars, ocom_key, orounds, oi, serverVars, backlog,
                     enclaveVars>>
  BY DEF OwnerLeave
<1>2. ASSUME NEW r \in Nat \ {0}, serving, Live(r) PROVE OwnerTurn(r)'
  <2>1. Here(r) /\ spc \in Inputs \cup Middle \cup Decoded
    BY <1>1, <1>2, OwnerIsHere
  <2>2. UNCHANGED <<spc, i, buffer, prog>>
    BY <1>1 DEF serverVars
  <2>3. up' = up /\ ~open'[Owner]
    BY <1>1 DEF PeerCloses, FInv, PeerKinds
  <2>4. /\ \A n : Begins(n) => up[Owner] = <<>>
        /\ \A n, k : ~Ready(n, k) /\ ~Gets(n, k) /\ (Sends(n, k) => k = 1 /\ Begins(n))
        /\ \A n, u : ~Evaluates(n, u)
        /\ \A n, k, u, d : ~RowAt("recvAck", n, k, u, d) /\ ~Row("recvSize", n, u, d)
    BY <1>1 DEF Begins, Sends, Ready, Gets, Evaluates, Row, RowAt
  <2>5. \/ spc \in Inputs /\ Begins(r) /\ buffer = <<>>
        \/ spc = "recvProgram" /\ i = 1 /\ Begins(r) /\ buffer = Pieces(Plain(r), i - 1)
        \/ spc \in Results2 \cup {"freeEnc"} /\ Begins(r + 1)
    BY <2>1, <2>4 DEF Here, Middle, Program, Garbled, Decoded
  <2>6. Pieces(Plain(r), 0) = <<>>
    BY PiecesGrow
  <2>7. up[Owner] = <<>> /\ (spc \in Inputs \cup Program => buffer = <<>>)
    BY <2>4, <2>5, <2>6 DEF Results2, Inputs, Before, Program
  <2> QED
    BY <1>1, <2>2, <2>3, <2>7 DEF OwnerTurn, OwnerKeys, Gone
<1> QED
  BY <1>1, <1>2, OwnerMoves DEF OwnerChannelStep

LEMMA FaultyOwnerBrokenPipe == ASSUME FInv, OwnerBrokenPipe PROVE FInv'
<1>1. /\ rstP[Owner] = "arrived" /\ PeerCloses(Owner)
      /\ UNCHANGED <<scenario, clientVars, ocom_key, orounds, oi, serverVars, backlog,
                     enclaveVars>>
  BY DEF OwnerBrokenPipe
<1>2. \A r \in Nat \ {0} : serving /\ Live(r) => OwnerTurn(r)'
  BY <1>1, OwnerDoes
<1> QED
  BY <1>1, <1>2, OwnerMoves DEF OwnerChannelStep

-----------------------------------------------------------------------------
(* The server. *)

(* A step of the server on the owner's connection, or on none. *)
OwnerExchange ==
  ServerGets(Owner) \/ (\E m : ServerSends(Owner, m)) \/ UNCHANGED sockets

LEMMA ServerPeers ==
  ASSUME FInv, Ends, UNCHANGED peerVars, OwnerExchange
  PROVE  /\ PeerKinds' /\ Clientele' /\ Ends' /\ DOMAIN rstS' = Peers
         /\ \A c \in Clients :
              Reads(c)' = Reads(c) /\ up'[c] = up[c] /\ down'[c] = down[c]
         /\ UNCHANGED <<open, serving, cpc, crounds, results, ownerVars>>
<1> USE PeersAssumption
<1>1. UNCHANGED <<scenario, cpc, com_key, crounds, results, ownerVars>>
  BY DEF peerVars, clientVars
<1>2. /\ DOMAIN up' = Peers /\ DOMAIN down' = Peers /\ DOMAIN rstS' = Peers
      /\ UNCHANGED <<open, serving, rstP>>
      /\ \A p \in Peers : p # Owner => up'[p] = up[p] /\ down'[p] = down[p] /\ rstS'[p] = rstS[p]
      /\ open[Owner] => rstS'[Owner] = rstS[Owner]
  <2> USE DEF FInv, PeerKinds, ServerKinds
  <2>1. CASE ServerGets(Owner)
    BY <2>1 DEF ServerGets
  <2>2. CASE \E m : ServerSends(Owner, m)
    BY <2>2 DEF ServerSends
  <2>3. CASE UNCHANGED sockets
    BY <2>3 DEF sockets
  <2> QED
    BY <2>1, <2>2, <2>3 DEF OwnerExchange
<1>3. \A c \in Clients : c # Owner /\ up'[c] = up[c] /\ down'[c] = down[c]
  BY <1>2
<1>4. PeerKinds'
  <2>1. \A c \in Clients : up'[c] \in Seq(FromClient(c)) /\ down'[c] \in Seq(Coded)
    BY <1>3 DEF FInv, PeerKinds
  <2> QED
    BY <1>1, <1>2, <2>1 DEF FInv, PeerKinds
<1>5. \A c \in Clients : ClientSide(c)' /\ Flow(c)' /\ Reads(c)' = Reads(c)
  BY <1>1, <1>2, <1>3, OtherClient DEF FInv, Clientele
<1>6. Ends'
  BY <1>1, <1>2 DEF Ends, QuitAfter
<1> QED
  BY <1>1, <1>2, <1>3, <1>4, <1>5, <1>6 DEF Clientele

LEMMA AttendKept ==
  ASSUME NEW r, NEW q, Attend(r), UNCHANGED <<open, client_sock, crounds, sock_client_map>>,
         spc \notin Before, spc' \notin Before,
         \A c \in Clients : Reads(c)' = Reads(c) /\ up'[c] = up[c],
         \A c \in Clients : Turns(c, q)' = Turns(c, r),
         \A c \in Clients : Replied(c, q)',
         spc' = "recvInput" => \A c \in Clients : Position(c) < i' => Reads(c) = q
  PROVE  Attend(q)'
<1>1. \A c : Position(c)' = Position(c)
  BY PositionKept
<1>2. \A d \in Clients : Missed(d, r) => Missed(d, q)'
  BY DEF Missed
<1> QED
  BY <1>1, <1>2 DEF Attend, Attended, Known

(* Once the server has all connections, they stay as they are. *)
LEMMA ConnectedOn ==
  ASSUME Connected, spc # "accept", spc' # "accept",
         UNCHANGED <<client_sock, backlog, cpc>>
  PROVE  Connected'
BY DEF Connected

(* A step of the server within one round, and with the owner or on its own. *)
LEMMA ServerStep ==
  ASSUME FInv, NEW r \in Nat \ {0}, Live(r),
         UNCHANGED <<peerVars, backlog, client_sock, sock_client_map>>, OwnerExchange,
         spc \notin Before, spc' \notin Before, spc' # "recvInput",
         \A c \in Clients : (Got(c)' <=> Got(c)) /\ (Given(c)' <=> Given(c)),
         reply' \in Coded, EnclaveKinds', Placed', serving,
         Here(r) => Here(r)', Gone => Gone',
         Programs(r)', Data(r)', Outputs(r)'
  PROVE  FInv'
<1>1. /\ PeerKinds' /\ Clientele' /\ Ends' /\ DOMAIN rstS' = Peers
      /\ \A c \in Clients : Reads(c)' = Reads(c) /\ up'[c] = up[c] /\ down'[c] = down[c]
      /\ UNCHANGED <<open, serving, cpc, crounds, results, ownerVars>>
  BY ServerPeers DEF Live
<1>2. ServerKinds'
  BY <1>1 DEF FInv, ServerKinds
<1>3. Connected'
  BY <1>1, ConnectedOn DEF Live, Before
<1>4. Attend(r)'
  <2>1. \A c \in Clients : Turns(c, r)' = Turns(c, r)
    BY DEF Turns
  <2>2. \A c \in Clients : Replied(c, r)'
    BY <1>1 DEF Live, Attend, Replied
  <2> QED
    BY <1>1, <2>1, <2>2, AttendKept DEF Live
<1>5. OwnerTurn(r)'
  BY <1>1 DEF Live, OwnerTurn, OwnerKeys, ownerVars
<1>6. Live(r)'
  BY <1>1, <1>3, <1>4, <1>5 DEF Live
<1> QED
  BY <1>1, <1>2, <1>6 DEF FInv

(* What the server's sends and receipts do to the owner's connection. *)
LEMMA ServerDoes ==
  ASSUME FInv
  PROVE  /\ ServerGets(Owner) => /\ up[Owner] # <<>> /\ up'[Owner] = Tail(up[Owner])
                                 /\ down' = down /\ open' = open
         /\ \A m : ServerSends(Owner, m) =>
              /\ up' = up /\ open' = open
              /\ open[Owner] => down'[Owner] = Append(down[Owner], m)
<1>1. ServerGets(Owner) => /\ up[Owner] # <<>> /\ up'[Owner] = Tail(up[Owner])
                           /\ down' = down /\ open' = open
  BY PeersAssumption DEF ServerGets, FInv, PeerKinds
<1>2. ASSUME NEW m, ServerSends(Owner, m)
      PROVE  /\ up' = up /\ open' = open
             /\ open[Owner] => down'[Owner] = Append(down[Owner], m)
  BY <1>2, PeersAssumption DEF ServerSends, FInv, PeerKinds
<1> QED
  BY <1>1, <1>2

(* While the server lives, a receive fails only after the end of the peer. *)
LEMMA FailsWhenClosed ==
  ASSUME Ends, NEW p \in Peers, ServerRecvFails(p)
  PROVE  up[p] = <<>> /\ ~open[p]
BY DEF Ends, ServerRecvFails

(* A step of the server that leaves the enclave alone, within one phase.   *)
LEMMA QuietStep ==
  ASSUME FInv, NEW r \in Nat \ {0}, Live(r),
         UNCHANGED <<peerVars, backlog, client_sock, sock_client_map, reply, enclaveVars>>,
         OwnerExchange, serving, Placed',
         Here(r) => Here(r)', Gone => Gone',
         \/ spc \in Program /\ spc' \in Program
         \/ spc \in Garbled /\ spc' \in Garbled
         \/ spc = "sendSize" /\ spc' = "getOutput" /\ i' = 0
  PROVE  FInv'
<1> USE ClientsAssumption
<1>1. /\ \A c \in Clients : Reads(c)' = Reads(c)
      /\ UNCHANGED <<open, serving, scenario>>
  BY ServerPeers DEF Live, peerVars
<1>2. UNCHANGED <<enclave, datainput, freed, damaged, com_to_client_key, com_key_program, C,
                  outGarblings, output>>
  BY DEF enclaveVars, state
<1>3. /\ spc \notin Before /\ spc' \notin Before /\ spc' # "recvInput" /\ spc # "recvInput"
      /\ spc # "accept" /\ spc' \notin {"getGCircuit", "writeOutput", "freeEnc"}
      /\ spc' \in Garbled \cup Decoded <=> spc \in Garbled \cup Decoded
      /\ spc' \in Decoded <=> spc \in Decoded
      /\ spc' \in Program <=> spc \in Program
      /\ spc \notin Results2 \cup {"freeEnc"}
      /\ spc \in Middle \cup Decoded /\ spc' \in Middle \cup Decoded
  BY DEF Before, Program, Garbled, Decoded, Results2, Middle
<1>4. ASSUME NEW c \in Clients
      PROVE  (Got(c)' <=> Got(c)) /\ ~Given(c) /\ ~Given(c)' /\ ~Taken(c) /\ ~Taken(c)'
  <2>1. Position(c) \in Clients /\ Position(c)' = Position(c)
    BY <1>3, Positions, PositionKept DEF Live
  <2>2. spc' = "getOutput" => i' = 0 /\ ~(Position(c) < 0)
    BY <2>1, <1>3 DEF Program, Garbled, Clients
  <2> QED
    BY <1>3, <2>1, <2>2 DEF Got, Given, Taken, Results2
<1>5. Base(r)' = Base(r)
  BY <1>3 DEF Base, Inputs, Before, Program, Garbled
<1>6. Programs(r)'
  <2>1. Sure(r)' => Sure(r)
    BY <1>1, <1>2, <1>3, SureKept
  <2> QED
    BY <1>1, <1>2, <1>3, <1>5, <2>1, ProgramsKept DEF Live
<1>7. Data(r)'
  <2>1. Fresh'
    BY <1>1, <1>2, <1>3 DEF Live, Data, Fresh, On
  <2>2. Begun(r)'
    <3>1. Sock(0) \in Clients /\ Sock(0)' = Sock(0)
      BY <1>3, Positions DEF Live, Clients, Sock
    <3> QED
      BY <1>1, <1>2, <1>3, <3>1, BegunKept DEF Live
  <2> QED
    BY <1>1, <1>2, <1>3, <1>4, <2>1, <2>2, DataKept DEF Live
<1>8. Outputs(r)'
  BY <1>1, <1>2, <1>3, OutputsKept DEF Live
<1>9. EnclaveKinds' /\ reply' \in Coded
  BY <1>2 DEF FInv, EnclaveKinds, ServerKinds
<1> QED
  BY <1>3, <1>4, <1>6, <1>7, <1>8, <1>9, ServerStep

(* Every step of the server is one of a living server. *)
LEMMA ServerLives ==
  ASSUME FInv, spc # "killed"
  PROVE  serving /\ \E r \in Nat \ {0} : Live(r)
BY DEF FInv, ServerKinds

LEMMA FaultyRecvProgram == ASSUME FInv, RecvProgram PROVE FInv'
<1> USE PeersAssumption
<1>1. /\ spc = "recvProgram" /\ spc' = "ackProgram" /\ i' = i
      /\ \/ ServerGets(Owner) /\ buffer' = Append(buffer, Head(up[Owner]))
         \/ ServerRecvFails(Owner) /\ UNCHANGED <<buffer, sockets>>
      /\ UNCHANGED <<peerVars, backlog, client_sock, sock_client_map, prog, reply, enclaveVars>>
  BY DEF RecvProgram, Goto
<1>2. PICK r \in Nat \ {0} : Live(r)
  BY <1>1, ServerLives
<1>3. i \in 1..Chunks /\ serving
  BY <1>1, <1>2, ServerLives DEF Live, Placed
<1>4. UNCHANGED <<opc, orounds, oi>>
  BY <1>1 DEF peerVars, ownerVars
<1>5. Placed'
  BY <1>1, <1>3 DEF Placed, Inputs, Before, Middle, Program, Results2
<1>6. ASSUME Here(r) PROVE Here(r)'
  <2>1. Sends(r, i) /\ buffer = Pieces(Plain(r), i - 1) /\ opc \notin {"ended", "killed"}
    BY <1>1, <1>6 DEF Here
  <2>2. open[Owner]
    BY <1>2, <2>1 DEF Live, OwnerTurn, OwnerKeys
  <2>3. /\ up[Owner] # <<>> /\ up'[Owner] = Tail(up[Owner]) /\ down' = down
        /\ buffer' = Append(buffer, Head(up[Owner]))
    BY <1>1, <1>2, <2>2, ServerDoes, FailsWhenClosed DEF Live
  <2>4. RowAt("recvAck", r, i, <<Piece(Plain(r), i)>>, <<>>)
    BY <2>1, <2>3, <1>3 DEF Sends, Begins, RowAt, Row
  <2>5. /\ Head(<<Piece(Plain(r), i)>>) = Piece(Plain(r), i)
        /\ Tail(<<Piece(Plain(r), i)>>) = <<>>
    BY Short
  <2>6. i - 1 \in Nat /\ (i - 1) + 1 = i
    BY <1>3
  <2>7. buffer' = Pieces(Plain(r), i)
    BY <2>1, <2>3, <2>4, <2>5, <2>6, PiecesGrow DEF RowAt, Row
  <2>8. RowAt("recvAck", r, i, <<>>, <<>>)'
    BY <1>1, <1>4, <2>3, <2>4, <2>5 DEF RowAt, Row
  <2> QED
    BY <1>1, <1>4, <2>1, <2>7, <2>8
       DEF Here, Inputs, Before, Results2, Pieces, Piece, Plain, Encrypt
<1>7. ASSUME Gone PROVE Gone'
  <2>1. up[Owner] = <<>> /\ buffer = <<>>
    BY <1>1, <1>7 DEF Gone, Program
  <2>2. buffer' = buffer /\ up' = up
    BY <1>1, <2>1, ServerDoes DEF sockets
  <2> QED
    BY <1>4, <1>7, <2>1, <2>2 DEF Gone
<1>8. OwnerExchange
  BY <1>1 DEF OwnerExchange
<1> QED
  BY <1>1, <1>2, <1>3, <1>5, <1>6, <1>7, <1>8, QuietStep DEF Program

LEMMA FaultyAckProgram == ASSUME FInv, AckProgram PROVE FInv'
<1> USE PeersAssumption
<1>1. /\ spc = "ackProgram" /\ ServerSends(Owner, "ack")
      /\ IF i < Chunks THEN spc' = "recvProgram" /\ i' = i + 1
                       ELSE spc' = "passProgram" /\ i' = 0
      /\ UNCHANGED <<peerVars, backlog, client_sock, sock_client_map, buffer, prog, reply,
                     enclaveVars>>
  BY DEF AckProgram, Goto
<1>2. PICK r \in Nat \ {0} : Live(r)
  BY <1>1, ServerLives
<1>3. i \in 1..Chunks /\ serving
  BY <1>1, <1>2, ServerLives DEF Live, Placed
<1>4. UNCHANGED <<opc, orounds, oi>>
  BY <1>1 DEF peerVars, ownerVars
<1>5. Placed'
  BY <1>1, <1>3, ChunksAssumption DEF Placed, Inputs, Before, Middle, Program, Results2
<1>6. ASSUME Here(r) PROVE Here(r)'
  <2>1. /\ RowAt("recvAck", r, i, <<>>, <<>>) /\ buffer = Pieces(Plain(r), i)
        /\ opc \notin {"ended", "killed"}
    BY <1>1, <1>6 DEF Here
  <2>2. open[Owner]
    BY <1>2, <2>1 DEF Live, OwnerTurn, OwnerKeys
  <2>3. up' = up /\ down'[Owner] = <<"ack">>
    BY <1>1, <2>1, <2>2, ServerDoes, Short DEF RowAt, Row
  <2>4. /\ opc' = "recvAck" /\ orounds' = r /\ oi' = i
        /\ up'[Owner] = <<>> /\ down'[Owner] = <<"ack">>
    BY <1>4, <2>1, <2>3 DEF RowAt, Row
  <2>5. CASE i < Chunks
    <3>1. i + 1 > 1 /\ (i + 1) - 1 = i
      BY <1>3
    <3>2. spc' = "recvProgram" /\ i' = i + 1
      BY <1>1, <2>5
    <3>3. i' > 1 /\ oi' = i' - 1 /\ buffer' = Pieces(Plain(r), i' - 1)
      BY <1>1, <2>1, <2>4, <3>1, <3>2
    <3>4. Sends(r, i)'
      BY <2>4, <3>3 DEF Sends, RowAt, Row
    <3> QED
      BY <1>4, <2>1, <3>2, <3>3, <3>4
         DEF Here, Inputs, Before, Results2, Pieces, Piece, Plain, Encrypt
  <2>6. CASE ~(i < Chunks)
    <3>1. i = Chunks
      BY <1>3, <2>6, ChunksAssumption
    <3>2. spc' = "passProgram"
      BY <1>1, <2>6
    <3>3. oi' = Chunks
      BY <2>4, <3>1
    <3>4. Ready(r, 1)'
      BY <2>4, <3>3 DEF Ready, RowAt, Row
    <3> QED
      BY <1>1, <1>4, <2>1, <3>1, <3>2, <3>4
         DEF Here, Inputs, Before, Results2, Pieces, Piece, Plain, Encrypt
  <2> QED
    BY <2>5, <2>6
<1>7. ASSUME Gone PROVE Gone'
  <2>1. up[Owner] = <<>> /\ buffer = <<>>
    BY <1>1, <1>7 DEF Gone, Program
  <2>2. buffer' = buffer /\ up' = up
    BY <1>1, <2>1, ServerDoes
  <2> QED
    BY <1>4, <1>7, <2>1, <2>2 DEF Gone
<1>8. OwnerExchange
  BY <1>1 DEF OwnerExchange
<1> QED
  BY <1>1, <1>2, <1>3, <1>5, <1>6, <1>7, <1>8, QuietStep DEF Program

LEMMA FaultySendGProgram == ASSUME FInv, SendGProgram PROVE FInv'
<1> USE PeersAssumption
<1>1. /\ spc = "sendGProgram" /\ ServerSends(Owner, Piece(prog, i))
      /\ spc' = "recvGAck" /\ i' = i
      /\ UNCHANGED <<peerVars, backlog, client_sock, sock_client_map, buffer, prog, reply,
                     enclaveVars>>
  BY DEF SendGProgram, Goto
<1>2. PICK r \in Nat \ {0} : Live(r)
  BY <1>1, ServerLives
<1>3. i \in 1..Chunks /\ serving
  BY <1>1, <1>2, ServerLives DEF Live, Placed
<1>4. UNCHANGED <<opc, orounds, oi>>
  BY <1>1 DEF peerVars, ownerVars
<1>5. Placed'
  BY <1>1, <1>3 DEF Placed, Inputs, Before, Middle, Garbled, Results2
<1>6. ASSUME Here(r) PROVE Here(r)'
  <2>1. Ready(r, i) /\ opc \notin {"ended", "killed"}
    BY <1>1, <1>6 DEF Here
  <2>2. open[Owner]
    BY <1>2, <2>1 DEF Live, OwnerTurn, OwnerKeys
  <2>3. up' = up /\ down'[Owner] = Append(down[Owner], Piece(prog, i))
    BY <1>1, <2>2, ServerDoes
  <2>4. /\ Append(<<>>, Piece(prog, i)) = <<Piece(prog, i)>>
        /\ Append(<<"ack">>, Piece(prog, i)) = <<"ack", Piece(prog, i)>>
    BY Short
  <2>5. Piece(prog, i)' = Piece(prog, i) /\ Piece(prog, 1)' = Piece(prog, 1)
    BY <1>1 DEF Piece
  <2>6. CASE i = 1 /\ RowAt("recvAck", r, Chunks, <<>>, <<"ack">>)
    <3>1. opc' = "recvAck" /\ orounds' = r /\ oi' = Chunks /\ up'[Owner] = <<>>
          /\ down'[Owner] = <<"ack", Piece(prog, 1)>>
      BY <1>4, <2>3, <2>4, <2>6 DEF RowAt, Row
    <3> QED
      BY <1>1, <2>5, <2>6, <3>1 DEF Here, Gets, RowAt, Row, Inputs, Before, Results2
  <2>7. CASE RowAt("recvPiece", r, i, <<>>, <<>>)
    <3>1. opc' = "recvPiece" /\ orounds' = r /\ oi' = i /\ up'[Owner] = <<>>
          /\ down'[Owner] = <<Piece(prog, i)>>
      BY <1>4, <2>3, <2>4, <2>7 DEF RowAt, Row
    <3> QED
      BY <1>1, <2>5, <3>1 DEF Here, Gets, RowAt, Row, Inputs, Before, Results2
  <2> QED
    BY <2>1, <2>6, <2>7 DEF Ready
<1>7. ASSUME Gone PROVE Gone'
  <2>1. up'[Owner] = <<>>
    BY <1>1, <1>7, ServerDoes DEF Gone
  <2> QED
    BY <1>1, <1>4, <1>7, <2>1 DEF Gone, Inputs, Before, Program
<1>8. OwnerExchange
  BY <1>1 DEF OwnerExchange
<1> QED
  BY <1>1, <1>2, <1>3, <1>5, <1>6, <1>7, <1>8, QuietStep DEF Garbled

LEMMA FaultyRecvGAck == ASSUME FInv, RecvGAck PROVE FInv'
<1> USE PeersAssumption
<1>1. /\ spc = "recvGAck"
      /\ ServerGets(Owner) \/ (ServerRecvFails(Owner) /\ UNCHANGED sockets)
      /\ i < Chunks => spc' = "sendGProgram" /\ i' = i + 1
      /\ ~(i < Chunks) => spc' = "recvGoutput" /\ i' = 0
      /\ UNCHANGED <<peerVars, backlog, client_sock, sock_client_map, buffer, reply,
                     enclaveVars>>
  BY DEF RecvGAck, Goto
<1>2. PICK r \in Nat \ {0} : Live(r)
  BY <1>1, ServerLives
<1>3. i \in 1..Chunks /\ serving
  BY <1>1, <1>2, ServerLives DEF Live, Placed
<1>4. UNCHANGED <<opc, orounds, oi>>
  BY <1>1 DEF peerVars, ownerVars
<1>5. Placed'
  BY <1>1, <1>3, ChunksAssumption DEF Placed, Inputs, Before, Middle, Garbled, Results2
<1>6. ASSUME Here(r) PROVE Here(r)'
  <2>1. Gets(r, i) /\ opc \notin {"ended", "killed"}
    BY <1>1, <1>6 DEF Here
  <2>2. open[Owner]
    BY <1>2, <2>1 DEF Live, OwnerTurn, OwnerKeys
  <2>3. up[Owner] # <<>> /\ up'[Owner] = Tail(up[Owner]) /\ down' = down
    BY <1>1, <1>2, <2>2, ServerDoes, FailsWhenClosed DEF Live
  <2>4. \/ i < Chunks /\ RowAt("recvPiece", r, i + 1, <<"ack">>, <<>>)
        \/ i = Chunks /\ Evaluates(r, <<"ack">>)
    BY <2>1, <2>3 DEF Gets, RowAt, Row
  <2>5. Tail(<<"ack">>) = <<>>
    BY Short
  <2>6. CASE i < Chunks /\ RowAt("recvPiece", r, i + 1, <<"ack">>, <<>>)
    <3>1. opc' = "recvPiece" /\ orounds' = r /\ oi' = i' /\ up'[Owner] = <<>>
          /\ down'[Owner] = <<>> /\ spc' = "sendGProgram"
      BY <1>1, <1>4, <2>3, <2>5, <2>6 DEF RowAt, Row
    <3> QED
      BY <3>1 DEF Here, Ready, RowAt, Row, Inputs, Before, Results2
  <2>7. CASE i = Chunks /\ Evaluates(r, <<"ack">>)
    <3>1. spc' = "recvGoutput"
      BY <1>1, <1>3, <2>7
    <3>2. Evaluates(r, <<>>)'
      <4>1. CASE Row("evaluate", r, <<"ack">>, <<>>) \/ Row("sendGoutput", r, <<"ack">>, <<>>)
        BY <1>4, <2>3, <2>5, <4>1 DEF Evaluates, Row
      <4>2. CASE \E x : Row("recvSize", r, Append(<<"ack">>, x), <<>>)
        <5>1. PICK x : Row("recvSize", r, Append(<<"ack">>, x), <<>>)
          BY <4>2
        <5>2. Tail(Append(<<"ack">>, x)) = Append(<<>>, x)
          <6>1. Append(<<"ack">>, x) = <<"ack", x>> /\ Append(<<>>, x) = <<x>>
            BY Short
          <6>2. Tail(<<"ack", x>>) = <<x>>
            BY Short
          <6> QED
            BY <6>1, <6>2
        <5>3. opc' = "recvSize" /\ orounds' = r /\ up'[Owner] = Append(<<>>, x)
              /\ down'[Owner] = <<>>
          BY <1>4, <2>3, <5>1, <5>2 DEF Row
        <5> QED
          BY <5>3 DEF Evaluates, Row
      <4> QED
        BY <2>7, <4>1, <4>2 DEF Evaluates
    <3> QED
      BY <1>4, <2>1, <3>1, <3>2 DEF Here, Inputs, Before, Results2
  <2> QED
    BY <2>4, <2>6, <2>7
<1>7. ASSUME Gone PROVE Gone'
  <2>1. up'[Owner] = <<>>
    <3>1. CASE up[Owner] = <<>>
      BY <1>1, <3>1, ServerDoes DEF sockets
    <3>2. CASE up[Owner] = <<"ack">>
      <4>1. up[Owner] # <<>> /\ Tail(<<"ack">>) = <<>>
        BY <3>2, Short
      <4> QED
        BY <1>1, <3>2, <4>1, ServerDoes DEF ServerRecvFails
    <3> QED
      BY <1>7, <3>1, <3>2 DEF Gone
  <2> QED
    BY <1>1, <1>4, <1>7, <2>1 DEF Gone, Inputs, Before, Program
<1>8. OwnerExchange
  BY <1>1 DEF OwnerExchange
<1> QED
  BY <1>1, <1>2, <1>3, <1>5, <1>6, <1>7, <1>8, QuietStep DEF Garbled

LEMMA FaultySendSize == ASSUME FInv, SendSize PROVE FInv'
<1> USE PeersAssumption
<1>1. /\ spc = "sendSize" /\ ServerSends(Owner, "size")
      /\ spc' = "getOutput" /\ i' = 0
      /\ UNCHANGED <<peerVars, backlog, client_sock, sock_client_map, buffer, prog, reply,
                     enclaveVars>>
  BY DEF SendSize, Goto
<1>2. PICK r \in Nat \ {0} : Live(r)
  BY <1>1, ServerLives
<1>3. serving
  BY <1>1, ServerLives
<1>4. UNCHANGED <<opc, orounds, oi>>
  BY <1>1 DEF peerVars, ownerVars
<1>5. Placed'
  BY <1>1, ClientsAssumption DEF Placed, Inputs, Before, Middle, Decoded, Results2, Clients
<1>6. ASSUME Here(r) PROVE Here(r)'
  <2>1. Row("recvSize", r, <<>>, <<>>) /\ opc \notin {"ended", "killed"}
    BY <1>1, <1>6 DEF Here
  <2>2. open[Owner]
    BY <1>2, <2>1 DEF Live, OwnerTurn, OwnerKeys
  <2>3. up' = up /\ down'[Owner] = <<"size">>
    BY <1>1, <2>1, <2>2, ServerDoes, Short DEF Row
  <2>4. opc' = "recvSize" /\ orounds' = (r + 1) - 1 /\ up'[Owner] = <<>>
    BY <1>4, <2>1, <2>3 DEF Row
  <2>5. Begins(r + 1)'
    BY <2>3, <2>4 DEF Begins, Row
  <2> QED
    BY <1>1, <2>4, <2>5 DEF Here, Inputs, Before, Results2
<1>7. ASSUME Gone PROVE Gone'
  <2>1. up'[Owner] = <<>>
    BY <1>1, <1>7, ServerDoes DEF Gone
  <2> QED
    BY <1>1, <1>4, <1>7, <2>1 DEF Gone, Inputs, Before, Program
<1>8. OwnerExchange
  BY <1>1 DEF OwnerExchange
<1> QED
  BY <1>1, <1>2, <1>3, <1>5, <1>6, <1>7, <1>8, QuietStep


(* An enclave that has crashed promises little. *)
LEMMA Crashed ==
  ASSUME NEW r, Data(r), ~On', UNCHANGED <<datainput, freed>>,
         \A c \in Clients : Reads(c)' = Reads(c)
  PROVE  Programs(r)' /\ Data(r)'
BY DEF Programs, Data, Entered, Unread, Fresh, Begun, Counts

(* Before this round's program is garbled, there is no result of the round. *)
LEMMA OutputsWait ==
  ASSUME NEW r, Outputs(r), UNCHANGED <<scenario, outGarblings, output, reply>>,
         AllRead => AllRead', open'[Owner] => open[Owner],
         spc \notin Garbled \cup Decoded, spc' # "writeOutput"
  PROVE  Outputs(r)'
<1>1. \A v : Sound(v)' <=> Sound(v)
  BY SoundKept
<1>2. /\ open[Owner] => ~Now(outGarblings.v, r)
      /\ ~Now(output.v, r) /\ ~Now(reply.v, r)
  BY DEF Outputs, Decoded
<1>3. \A v : Worth(v, r) /\ ~Now(v, r) => Worth(v, r)'
  BY <1>1 DEF Worth, Now
<1> QED
  BY <1>2, <1>3 DEF Outputs, Now

(* Where the counter of the enclave and the owner agree, the program is    *)
(* this round's, if there is one. *)
LEMMA ProgramPasses ==
  ASSUME FInv, NEW r \in Nat \ {0}, Live(r), PassProgram
  PROVE  /\ UNCHANGED <<datainput, freed, damaged, com_to_client_key, outGarblings, output>>
         /\ On' => On
         /\ C' \in [program : Nat \cup {Junk}, gates : Pointer, inpSizes : Pointer]
         /\ com_key_program' \in Nat
         /\ On' => com_key_program' <= 2 * r - 1
         /\ On' /\ open[Owner] =>
              /\ com_key_program' = com_key_program + 1
              /\ C'.gates = "live"
              /\ C'.program = IF com_key_program = 2 * r - 2 THEN r ELSE Junk
<1> DEFINE m == Assembled(buffer)
           v == Decrypt(com_key_program, m)
<1>1. spc = "passProgram" /\ passProgram(m)
  BY DEF PassProgram
<1>2. com_key_program \in Nat /\ (On => com_key_program <= 2 * r - 2)
  BY <1>1 DEF FInv, EnclaveKinds, Live, Programs, Base, Inputs, Before, Program
<1>3. Here(r) => m = Plain(r)
  BY <1>1, PiecesAssemble DEF Here
<1>4. Gone => m = Nothing
  <2>1. Gone => buffer = <<>>
    BY <1>1 DEF Gone, Program
  <2>2. Len(<<>>) # Chunks
    BY ChunksAssumption
  <2> QED
    BY <2>1, <2>2 DEF Assembled
<1>5. Here(r) \/ Gone
  BY DEF Live, OwnerTurn
<1>6. open[Owner] => Here(r)
  BY DEF Live, OwnerTurn, OwnerKeys, Gone
<1>7. m = Plain(r) => v = (IF com_key_program = 2 * r - 2 THEN r ELSE Junk) /\ m # Nothing
  <2>1. Plain(r).key = 2 * r - 2 /\ Plain(r).v = r
    BY DEF Plain, Encrypt
  <2> QED
    BY <2>1, JunkAssumption DEF Decrypt, Nothing
<1>8. v \in Nat \cup {Junk}
  BY <1>3, <1>4, <1>5, <1>7 DEF Decrypt, Nothing
<1>9. CASE /\ Running /\ C' = [program |-> v, gates |-> "live", inpSizes |-> "live"]
           /\ com_key_program' = com_key_program + 1
           /\ UNCHANGED <<com_to_client_key, datainput, freed, damaged, outGarblings, output,
                          outbuf>>
  BY <1>2, <1>3, <1>6, <1>7, <1>8, <1>9 DEF Running, On, Pointer
<1>10. CASE Crash \/ EcallFails
  BY <1>2, <1>10 DEF Crash, EcallFails, On, state, FInv, EnclaveKinds
<1>11. CASE m = Nothing /\ Running /\ UNCHANGED <<state, outbuf>>
  BY <1>2, <1>3, <1>6, <1>7, <1>11 DEF Running, On, state, FInv, EnclaveKinds
<1> QED
  BY <1>1, <1>9, <1>10, <1>11 DEF passProgram

LEMMA FaultyPassProgram == ASSUME FInv, PassProgram PROVE FInv'
<1> USE PeersAssumption
<1>1. /\ spc = "passProgram" /\ spc' = "getGCircuit" /\ i' = 0
      /\ UNCHANGED <<peerVars, backlog, client_sock, sock_client_map, buffer, prog, reply,
                     sockets>>
  BY DEF PassProgram, Goto
<1>2. PICK r \in Nat \ {0} : Live(r)
  BY <1>1, ServerLives
<1>3. /\ UNCHANGED <<datainput, freed, damaged, com_to_client_key, outGarblings, output>>
      /\ On' => On
      /\ C' \in [program : Nat \cup {Junk}, gates : Pointer, inpSizes : Pointer]
      /\ com_key_program' \in Nat
      /\ On' => com_key_program' <= 2 * r - 1
      /\ On' /\ open[Owner] =>
           /\ com_key_program' = com_key_program + 1
           /\ C'.gates = "live"
           /\ C'.program = IF com_key_program = 2 * r - 2 THEN r ELSE Junk
  BY <1>2, ProgramPasses
<1>4. UNCHANGED <<opc, orounds, oi, up, down, open, scenario>> /\ serving
  BY <1>1, ServerLives DEF peerVars, ownerVars, sockets
<1>5. \A c \in Clients : Reads(c)' = Reads(c)
  BY <1>1, <1>2, ServerPeers DEF Live, OwnerExchange
<1>6. Placed' /\ EnclaveKinds' /\ reply' \in Coded
  BY <1>1, <1>3 DEF Placed, Inputs, Before, Middle, Results2, FInv, EnclaveKinds, ServerKinds
<1>7. Here(r) => Here(r)'
  <2>1. Here(r) => Ready(r, 1) /\ opc \notin {"ended", "killed"}
    BY <1>1 DEF Here
  <2>2. Ready(r, 1) => Ready(r, 1)'
    BY <1>4 DEF Ready, RowAt, Row
  <2> QED
    BY <1>1, <1>4, <2>1, <2>2 DEF Here, Inputs, Before, Results2
<1>8. Gone => Gone'
  BY <1>1, <1>4 DEF Gone, Inputs, Before, Program
<1>9. Programs(r)' /\ Data(r)'
  <2>1. CASE ~On'
    BY <1>2, <1>3, <1>5, <2>1, Crashed DEF Live
  <2>2. CASE On'
    <3>1. UNCHANGED enclave /\ On
      BY <1>3, <2>2 DEF On
    <3>2. Base(r) = 2 * r - 2 /\ Base(r)' = 2 * r - 1
      BY <1>1 DEF Base, Inputs, Before, Program
    <3>3. com_key_program \in Nat
      BY DEF FInv, EnclaveKinds
    <3>4. Behind(r) /\ open[Owner] => Behind(r)'
      BY <1>1, <1>2, <1>3, <1>4, <2>2, <3>1, <3>2, <3>3
         DEF Behind, Garbled, Decoded, Results2
    <3>5. open[Owner] =>
            C'.gates = "live" /\ C'.program = IF com_key_program' = 2 * r - 1 THEN r ELSE Junk
      BY <1>3, <2>2, <3>3
    <3>6. Programs(r)'
      <4>1. Sure(r)' => Sure(r)
        BY <1>1, <1>5, SureKept DEF Decoded, Results2
      <4> QED
        BY <1>1, <1>2, <1>3, <1>4, <2>2, <3>1, <3>2, <3>4, <3>5, <4>1 DEF Live, Programs
    <3>7. Fresh' /\ Begun(r)'
      <4>1. Sock(0) \in Clients /\ Sock(0)' = Sock(0)
        BY <1>1, <1>2, Positions, ClientsAssumption DEF Live, Clients, Sock
      <4>2. Begun(r)'
        BY <1>1, <1>2, <1>3, <1>4, <1>5, <3>1, <4>1 DEF Live, Data, Begun, On, Program
      <4> QED
        BY <1>1, <4>2 DEF Fresh, Before, Decoded, Results2
    <3>8. \A c \in Clients : ~Taken(c) /\ ~Taken(c)' /\ Got(c)
      BY <1>1 DEF Taken, Got, Middle, Program
    <3>9. Data(r)'
      BY <1>1, <1>2, <1>3, <1>4, <1>5, <3>1, <3>7, <3>8, DataKept
         DEF Live, Program, Decoded, Results2
    <3> QED
      BY <3>6, <3>9
  <2> QED
    BY <2>1, <2>2
<1>10. Outputs(r)'
  <2>1. AllRead' <=> AllRead
    BY <1>5 DEF AllRead
  <2> QED
    BY <1>1, <1>2, <1>3, <1>4, <2>1, OutputsWait DEF Live, Garbled, Decoded, Results2
<1>11. \A c \in Clients : (Got(c)' <=> Got(c)) /\ (Given(c)' <=> Given(c))
  BY <1>1 DEF Got, Given, Middle, Program, Results2
<1> QED
  BY <1>1, <1>2, <1>4, <1>6, <1>7, <1>8, <1>9, <1>10, <1>11, ServerStep
     DEF OwnerExchange, Before

-----------------------------------------------------------------------------
(* What is garbled is the program of this round on inputs of this round,   *)
(* those that were read. *)

LEMMA ReadsAre ==
  ASSUME FInv, NEW c \in Clients
  PROVE  Reads(c) \in Nat /\ crounds[c] \in Nat /\ Len(up[c]) \in Nat
<1>1. up[c] \in Seq(FromClient(c)) /\ crounds[c] \in Nat /\ Len(up[c]) <= crounds[c]
  BY DEF FInv, PeerKinds, Clientele, ClientSide
<1>2. Len(up[c]) \in Nat
  BY <1>1
<1> QED
  BY <1>1, <1>2 DEF Reads

(* Whoever was not read in this round was missed, or somebody before. *)
LEMMA ReadOrMissed ==
  ASSUME FInv, NEW r \in Nat \ {0}, Live(r), NEW c \in Clients,
         spc \in Program \cup {"getGCircuit"}
  PROVE  /\ Reads(c) <= r
         /\ \/ Reads(c) = r
            \/ \E d \in Clients :
                 /\ Position(d) <= Position(c) /\ up[d] = <<>>
                 /\ crounds[d] = QuitAfter(d) /\ crounds[d] < r /\ Reads(d) = crounds[d]
<1>1. spc \notin Before /\ \A d : Got(d) /\ Turns(d, r) = r
  BY DEF Got, Turns, Before, Middle, Program
<1>2. Attended(c, r)
  BY DEF Live, Attend
<1>3. ASSUME NEW d \in Clients, Missed(d, r)
      PROVE  /\ up[d] = <<>> /\ crounds[d] = QuitAfter(d) /\ crounds[d] < r
             /\ Reads(d) = crounds[d]
  <2>1. up[d] = <<>> /\ crounds[d] = QuitAfter(d) /\ crounds[d] < r
    BY <1>1, <1>3 DEF Missed, Live, Ends
  <2>2. Len(<<>>) = 0 /\ crounds[d] \in Nat
    BY ReadsAre
  <2> QED
    BY <2>1, <2>2 DEF Reads
<1> QED
  BY <1>1, <1>2, <1>3 DEF Attended

LEMMA GarblesInputs ==
  ASSUME FInv, NEW r \in Nat \ {0}, Live(r), spc = "getGCircuit", On, datainput # NULL,
         \A c \in Clients : datainput[c] # Junk
  PROVE  /\ datainput \in [Clients -> Nat] /\ AllRead
         /\ \A c \in Clients : Reads(c) = r => datainput[c] = r /\ ~BadInput(c, r)
         /\ \A c \in Clients : Reads(c) <= r
<1>1. datainput \in [Clients -> Nat]
  <2>1. datainput \in [Clients -> Nat \cup {Junk}]
    BY DEF FInv, EnclaveKinds
  <2> QED
    BY <2>1
<1>2. AllRead
  <2> SUFFICES ASSUME NEW c \in Clients PROVE Reads(c) > 0
    BY DEF AllRead
  <2>1. Reads(c) # 0
    BY DEF Live, Data, Unread
  <2> QED
    BY <2>1, ReadsAre
<1>3. ASSUME NEW c \in Clients, Reads(c) = r
      PROVE  datainput[c] = r /\ ~BadInput(c, r)
  <2>1. Got(c)
    BY DEF Got, Middle
  <2>2. datainput[c] \in {Junk, Input(c, r)}
    BY <1>3, <2>1 DEF Live, Data, Entered
  <2> QED
    BY <2>2 DEF Input
<1>4. \A c \in Clients : Reads(c) <= r
  BY ReadOrMissed
<1> QED
  BY <1>1, <1>2, <1>3, <1>4

(* With room for two clients at most, a bad input that is sent is read in  *)
(* its round, if anything is. *)
LEMMA BadInputIsRead ==
  ASSUME FInv, NEW r \in Nat \ {0}, Live(r), spc = "getGCircuit", On, open[Owner],
         datainput # NULL, HasRoom, BadInputsSent,
         NEW bad \in scenario.badInputs, bad[2] = r
  PROVE  Reads(bad[1]) = r
<1> DEFINE b == bad[1]
<1>1. b \in Clients /\ scenario \in Scenarios
  BY ScenarioSays DEF FInv, PeerKinds
<1>2. r <= QuitAfter(b)
  BY <1>1 DEF BadInputsSent, QuitAfter
<1>3. Reads(Sock(0)) = r
  BY DEF Live, Data, Begun
<1>4. 0 \in Clients /\ Clients \subseteq {0, 1}
  BY ClientsAssumption DEF HasRoom, Room, Clients
<1>5. /\ \A d \in Clients : Position(d) \in Clients /\ Sock(Position(d)) = d
      /\ Sock(0) \in Clients /\ Position(Sock(0)) = 0
  BY <1>4, Positions DEF Live
<1>6. SUFFICES ASSUME Reads(b) # r PROVE FALSE
  OBVIOUS
<1>7. PICK d \in Clients :
        Position(d) <= Position(b) /\ crounds[d] = QuitAfter(d) /\ crounds[d] < r
          /\ Reads(d) = crounds[d]
  BY <1>1, <1>6, ReadOrMissed
<1>8. d # Sock(0) /\ Position(d) # 0
  BY <1>3, <1>5, <1>7, ReadsAre
<1>9. Position(d) = 1 /\ Position(b) = 1
  <2>1. Position(d) \in {0, 1} /\ Position(b) \in {0, 1}
    BY <1>1, <1>4, <1>5
  <2>2. Position(d) <= Position(b) /\ Position(d) # 0
    BY <1>7, <1>8
  <2> HIDE DEF b
  <2> QED
    BY <2>1, <2>2
<1>10. d = b
  BY <1>1, <1>5, <1>9
<1> QED
  BY <1>1, <1>2, <1>7, <1>10, ScenarioSays, PeersAssumption

LEMMA GarbledIsWorth ==
  ASSUME FInv, NEW r \in Nat \ {0}, Live(r), spc = "getGCircuit", On, open[Owner],
         C.program # Junk, datainput # NULL, \A c \in Clients : datainput[c] # Junk
  PROVE  Worth(Result(C.program, datainput), r)
<1> DEFINE v == Result(C.program, datainput)
<1> USE PeersAssumption
<1>1. C.program = r /\ com_key_program = 2 * r - 1
  BY DEF Live, Programs
<1>2. v.program = r /\ v.inputs = datainput /\ v = Result(r, datainput)
  BY <1>1 DEF Result
<1>3. /\ datainput \in [Clients -> Nat] /\ AllRead
      /\ \A c \in Clients : Reads(c) = r => datainput[c] = r /\ ~BadInput(c, r)
      /\ \A c \in Clients : Reads(c) <= r
  BY GarblesInputs
<1>4. ASSUME r <= FirstToQuit PROVE v = AllOf(r)
  <2>1. scenario \in Scenarios
    BY DEF FInv, PeerKinds
  <2>2. ASSUME NEW c \in Clients PROVE Reads(c) = r
    <3>1. \A d \in Clients : ~(crounds[d] = QuitAfter(d) /\ crounds[d] < r)
      <4> SUFFICES ASSUME NEW d \in Clients, crounds[d] = QuitAfter(d), crounds[d] < r
                   PROVE  FALSE
        OBVIOUS
      <4>1. FirstToQuit \in Nat /\ FirstToQuit <= QuitAfter(d)
        BY <2>1, FirstQuits
      <4> QED
        BY <1>4, <4>1, ReadsAre
    <3> QED
      BY <3>1, ReadOrMissed
  <2>3. datainput = [c \in Clients |-> r]
    BY <1>3, <2>2
  <2> QED
    BY <1>2, <2>3 DEF AllOf
<1>5. ASSUME HasRoom, BadInputsSent, NEW bad \in scenario.badInputs PROVE r < bad[2]
  <2>1. bad[1] \in Clients /\ bad[2] \in Nat /\ BadInput(bad[1], bad[2])
    BY ScenarioSays, RoundsAssumption DEF FInv, PeerKinds
  <2>2. ~(r > bad[2])
    <3>1. Base(r) = 2 * r - 1
      BY DEF Base, Inputs, Before, Program
    <3>2. r > bad[2] => com_key_program < 2 * r - 1
      BY <1>3, <1>5, <3>1 DEF Live, Programs, Behind, Sure
    <3> QED
      BY <1>1, <3>2
  <2>3. r # bad[2]
    <3>1. r = bad[2] => Reads(bad[1]) = r
      BY <1>5, BadInputIsRead
    <3> QED
      BY <1>3, <2>1, <3>1
  <2> QED
    BY <2>1, <2>2, <2>3
<1>6. Sound(v)
  BY <1>2, <1>4, <1>5 DEF Sound
<1>7. \A c \in Clients : v.inputs[c] = r \/ Reads(c) < r
  BY <1>2, <1>3, ReadsAre
<1> QED
  BY <1>2, <1>3, <1>6, <1>7 DEF Worth

(* What getGCircuit does to the enclave. *)
LEMMA GCircuitIs ==
  ASSUME FInv, getGCircuit
  PROVE  /\ UNCHANGED <<com_to_client_key, datainput, freed, damaged, output>>
         /\ On' => On
         /\ C' \in [program : Nat \cup {Junk}, gates : Pointer, inpSizes : Pointer]
         /\ C'.program = C.program
         /\ \/ /\ On /\ C.program # Junk /\ C.gates = "live" /\ datainput # NULL
               /\ \A c \in Clients : datainput[c] # Junk
               /\ outGarblings' = [ptr |-> "live", v |-> Result(C.program, datainput)]
               /\ com_key_program' = com_key_program + 1
            \/ /\ On /\ (C.program = Junk \/ C.gates # "live" \/ damaged)
               /\ outGarblings' = [ptr |-> "live", v |-> Junk]
               /\ com_key_program' = com_key_program + 1
            \/ UNCHANGED <<outGarblings, com_key_program>>
<1> DEFINE usable == C.program # Junk /\ C.gates = "live"
           binary == datainput # NULL /\ \A c \in Clients : datainput[c] # Junk
<1>1. C \in [program : Nat \cup {Junk}, gates : Pointer, inpSizes : Pointer]
  BY DEF FInv, EnclaveKinds
<1>2. \A v : Garble(v) =>
        /\ UNCHANGED <<com_to_client_key, datainput, freed, damaged, output>>
        /\ On /\ On' /\ C' = [C EXCEPT !.gates = "dangling"]
        /\ outGarblings' = [ptr |-> "live", v |-> v]
        /\ com_key_program' = com_key_program + 1
  BY DEF Garble, Running, On
<1>3. C' = [C EXCEPT !.gates = "dangling"] =>
        /\ C' \in [program : Nat \cup {Junk}, gates : Pointer, inpSizes : Pointer]
        /\ C'.program = C.program
  BY <1>1 DEF Pointer
<1>4. RefuseInput \/ Crash \/ EcallFails =>
        /\ UNCHANGED <<com_to_client_key, datainput, freed, damaged, output, C, outGarblings,
                       com_key_program>>
        /\ On' => On
  BY DEF RefuseInput, Crash, EcallFails, Running, On, state
<1>5. \/ usable /\ binary /\ Garble(Result(C.program, datainput))
      \/ (~usable \/ damaged) /\ Garble(Junk)
      \/ RefuseInput \/ Crash \/ EcallFails
  BY DEF getGCircuit
<1>6. CASE usable /\ binary /\ Garble(Result(C.program, datainput))
  BY <1>2, <1>3, <1>6
<1>7. CASE (~usable \/ damaged) /\ Garble(Junk)
  BY <1>2, <1>3, <1>7
<1>8. CASE RefuseInput \/ Crash \/ EcallFails
  BY <1>1, <1>4, <1>8
<1> QED
  BY <1>5, <1>6, <1>7, <1>8

LEMMA FaultyGetGCircuit == ASSUME FInv, GetGCircuit PROVE FInv'
<1> USE PeersAssumption
<1>1. /\ spc = "getGCircuit" /\ spc' = "sendGProgram" /\ i' = 1 /\ getGCircuit
      /\ UNCHANGED <<peerVars, backlog, client_sock, sock_client_map, buffer, reply, sockets>>
  BY DEF GetGCircuit, Goto
<1>2. PICK r \in Nat \ {0} : Live(r)
  BY <1>1, ServerLives
<1> DEFINE garbles == /\ On /\ C.program # Junk /\ C.gates = "live" /\ datainput # NULL
                      /\ \A c \in Clients : datainput[c] # Junk
                      /\ outGarblings' = [ptr |-> "live", v |-> Result(C.program, datainput)]
                      /\ com_key_program' = com_key_program + 1
           fails == /\ On /\ (C.program = Junk \/ C.gates # "live" \/ damaged)
                    /\ outGarblings' = [ptr |-> "live", v |-> Junk]
                    /\ com_key_program' = com_key_program + 1
           refuses == UNCHANGED <<outGarblings, com_key_program>>
<1>3. /\ UNCHANGED <<com_to_client_key, datainput, freed, damaged, output>>
      /\ On' => On
      /\ C' \in [program : Nat \cup {Junk}, gates : Pointer, inpSizes : Pointer]
      /\ C'.program = C.program
      /\ garbles \/ fails \/ refuses
  BY <1>1, GCircuitIs
<1>4. UNCHANGED <<opc, orounds, oi, up, down, open, scenario>> /\ serving
  BY <1>1, ServerLives DEF peerVars, ownerVars, sockets
<1>5. \A c \in Clients : Reads(c)' = Reads(c)
  BY <1>1, <1>2, ServerPeers DEF Live, OwnerExchange
<1>6. outGarblings' \in [ptr : Pointer, v : Values] /\ com_key_program' \in Nat
  <2>1. outGarblings \in [ptr : Pointer, v : Values] /\ com_key_program \in Nat
    BY DEF FInv, EnclaveKinds
  <2>2. CASE garbles
    <3>1. datainput \in [Clients -> Nat] /\ C.program \in Nat
      BY <1>1, <1>2, <2>2, GarblesInputs DEF FInv, EnclaveKinds
    <3>2. Result(C.program, datainput) \in Values
      BY <3>1 DEF Result, Values
    <3> QED
      BY <2>1, <2>2, <3>2 DEF Pointer
  <2>3. CASE fails
    BY <2>1, <2>3, JunkIsSound DEF Pointer
  <2> QED
    BY <1>3, <2>1, <2>2, <2>3
<1>7. Placed' /\ EnclaveKinds' /\ reply' \in Coded
  BY <1>1, <1>3, <1>6, ChunksAssumption
     DEF Placed, Inputs, Before, Middle, Garbled, Results2, FInv, EnclaveKinds, ServerKinds
<1>8. Here(r) => Here(r)'
  <2>1. Here(r) => Ready(r, 1) /\ opc \notin {"ended", "killed"}
    BY <1>1 DEF Here
  <2>2. Ready(r, 1) => Ready(r, i)'
    BY <1>1, <1>4 DEF Ready, RowAt, Row
  <2> QED
    BY <1>1, <1>4, <2>1, <2>2 DEF Here, Inputs, Before, Results2
<1>9. Gone => Gone'
  BY <1>1, <1>4 DEF Gone, Inputs, Before, Program
<1>10. Programs(r)'
  <2>1. Base(r) = 2 * r - 1 /\ Base(r)' = 2 * r
    BY <1>1 DEF Base, Inputs, Before, Program, Garbled
  <2>2. com_key_program \in Nat /\ (On => com_key_program <= 2 * r - 1)
    BY <1>2, <2>1 DEF FInv, EnclaveKinds, Live, Programs
  <2>3. com_key_program' \in {com_key_program, com_key_program + 1}
    BY <1>3
  <2>4. On' => com_key_program' <= 2 * r
    BY <1>3, <2>2, <2>3
  <2>s. Sure(r)' => Sure(r)
    BY <1>1, <1>5, SureKept DEF Decoded, Results2
  <2>5. ASSUME On', open[Owner], HasRoom, BadInputsSent, Sure(r), NEW bad \in scenario.badInputs,
               bad[2] <= r
        PROVE  com_key_program' < 2 * r
    <3>1. bad[2] \in Nat /\ bad[1] \in Clients /\ BadInput(bad[1], bad[2])
      BY ScenarioSays, RoundsAssumption DEF FInv, PeerKinds
    <3>2. CASE bad[2] < r
      <4>1. com_key_program < 2 * r - 1
        BY <1>1, <1>2, <1>3, <2>1, <2>5, <3>1, <3>2 DEF Live, Programs, Behind
      <4> QED
        BY <2>2, <2>3, <4>1
    <3>3. CASE bad[2] = r
      <4>1. ASSUME com_key_program = 2 * r - 1, ~refuses PROVE FALSE
        <5>1. C.program = r /\ C.gates = "live" /\ ~damaged
          BY <1>1, <1>2, <1>3, <2>5, <4>1 DEF Live, Programs, Data
        <5>2. garbles
          BY <1>3, <4>1, <5>1, JunkAssumption
        <5>3. Reads(bad[1]) = r
          BY <1>1, <1>2, <2>5, <3>3, <5>2, BadInputIsRead
        <5>4. ~BadInput(bad[1], r)
          BY <1>1, <1>2, <3>1, <5>2, <5>3, GarblesInputs
        <5> QED
          BY <3>1, <3>3, <5>4
      <4>2. refuses => com_key_program' = com_key_program
        OBVIOUS
      <4>3. com_key_program <= 2 * r - 1 /\ com_key_program \in Nat
        BY <1>3, <2>2, <2>5
      <4>4. CASE refuses
        BY <4>2, <4>3, <4>4
      <4>5. CASE com_key_program # 2 * r - 1
        BY <2>3, <4>3, <4>5
      <4> QED
        BY <4>1, <4>4, <4>5
    <3> QED
      BY <2>5, <3>1, <3>2, <3>3
  <2>6. On' /\ open[Owner] /\ HasRoom /\ BadInputsSent /\ Sure(r) => Behind(r)'
    <3>1. \A bad \in scenario.badInputs : bad[2] \in Nat
      BY ScenarioSays, RoundsAssumption DEF FInv, PeerKinds
    <3> QED
      BY <1>4, <2>1, <2>5, <3>1 DEF Behind
  <2>7. BadInputsSent' <=> BadInputsSent
    BY DEF BadInputsSent
  <2> QED
    BY <1>1, <1>4, <2>1, <2>4, <2>6, <2>7, <2>s DEF Programs
<1>11. Data(r)'
  <2>1. CASE ~On'
    BY <1>2, <1>3, <1>5, <2>1, Crashed DEF Live
  <2>2. CASE On'
    <3>1. UNCHANGED enclave
      BY <1>3, <2>2 DEF On
    <3>2. Fresh' /\ Begun(r)'
      BY <1>1 DEF Fresh, Begun, Before, Decoded, Results2, Program
    <3>3. \A c \in Clients : ~Taken(c) /\ ~Taken(c)' /\ Got(c)
      BY <1>1 DEF Taken, Got, Middle, Program
    <3> QED
      BY <1>1, <1>2, <1>3, <1>4, <1>5, <3>1, <3>2, <3>3, DataKept
         DEF Live, Program, Decoded, Results2
  <2> QED
    BY <2>1, <2>2
<1>12. Outputs(r)'
  <2>1. \A v : Worth(v, r)' <=> Worth(v, r)
    BY <1>4, <1>5, WorthKept
  <2>2. /\ open[Owner] => ~Now(outGarblings.v, r)
        /\ ~Now(output.v, r) /\ ~Now(reply.v, r)
    BY <1>1, <1>2 DEF Live, Outputs, Garbled, Decoded, Results2
  <2>3. ASSUME open[Owner]
        PROVE  Worth(outGarblings'.v, r) /\ (Now(outGarblings'.v, r) => C.program # Junk)
    <3>1. CASE garbles
      BY <1>1, <1>2, <2>3, <3>1, GarbledIsWorth
    <3>2. CASE fails
      BY <3>2, JunkIsSound
    <3>3. CASE refuses
      BY <1>2, <2>2, <2>3, <3>3 DEF Live, Outputs
    <3> QED
      BY <1>3, <3>1, <3>2, <3>3
  <2>4. /\ open[Owner]' => Worth(outGarblings.v, r)'
        /\ open[Owner]' /\ Now(outGarblings.v, r)' => spc' \in Garbled /\ C'.program # Junk
    BY <1>1, <1>3, <1>4, <2>1, <2>3 DEF Garbled, Now
  <2>5. ~Now(output.v, r)' /\ ~Now(reply.v, r)' /\ Worth(output.v, r)' /\ Worth(reply.v, r)'
    BY <1>1, <1>2, <1>3, <2>1, <2>2 DEF Live, Outputs, Now
  <2> QED
    BY <1>1, <2>4, <2>5 DEF Outputs
<1>13. \A c \in Clients : (Got(c)' <=> Got(c)) /\ (Given(c)' <=> Given(c))
  BY <1>1 DEF Got, Given, Middle, Garbled, Results2
<1> QED
  BY <1>1, <1>2, <1>4, <1>7, <1>8, <1>9, <1>10, <1>11, <1>12, <1>13, ServerStep
     DEF OwnerExchange, Before

(* What passGoutput does to the enclave. *)
LEMMA GoutputIs ==
  ASSUME FInv, NEW x, passGoutput(x)
  PROVE  /\ UNCHANGED <<com_to_client_key, com_key_program, damaged, C>>
         /\ On' => On
         /\ outGarblings' \in [ptr : Pointer, v : Values] /\ outGarblings'.v = outGarblings.v
         /\ output' \in [ptr : Pointer, v : Values]
         /\ \/ /\ On /\ On' /\ datainput' = NULL
               /\ freed' = IF datainput = NULL THEN freed ELSE datainput
               /\ output'.ptr = "live" /\ output'.v \in {outGarblings.v, Junk}
            \/ ~On' /\ UNCHANGED <<datainput, freed, output>>
<1>1. /\ outGarblings \in [ptr : Pointer, v : Values]
      /\ output \in [ptr : Pointer, v : Values]
  BY DEF FInv, EnclaveKinds
<1>2. CASE Crash \/ EcallFails
  BY <1>1, <1>2 DEF Crash, EcallFails, On, state
<1>3. CASE /\ Running /\ outGarblings.ptr # "null"
           /\ output' = [ptr |-> "live", v |-> IF outGarblings.ptr = "live" /\ x = outGarblings.v
                                               THEN x ELSE Junk]
           /\ freed' = IF datainput = NULL THEN freed ELSE datainput
           /\ datainput' = NULL
           /\ outGarblings' = [outGarblings EXCEPT !.ptr = "dangling"]
           /\ UNCHANGED <<com_to_client_key, com_key_program, damaged, C, outbuf>>
  <2>1. output'.ptr = "live" /\ output'.v \in {outGarblings.v, Junk}
    BY <1>3
  <2>2. output' \in [ptr : Pointer, v : Values]
    BY <1>1, <1>3, JunkIsSound DEF Pointer
  <2>3. outGarblings' \in [ptr : Pointer, v : Values] /\ outGarblings'.v = outGarblings.v
    BY <1>1, <1>3 DEF Pointer
  <2> QED
    BY <1>3, <2>1, <2>2, <2>3 DEF Running, On
<1> QED
  BY <1>2, <1>3 DEF passGoutput

LEMMA FaultyRecvGoutput == ASSUME FInv, RecvGoutput PROVE FInv'
<1> USE PeersAssumption
<1>1. /\ spc = "recvGoutput" /\ spc' = "sendSize" /\ i' = 0
      /\ \/ ServerGets(Owner) /\ passGoutput(Head(up[Owner]))
         \/ ServerRecvFails(Owner) /\ UNCHANGED <<sockets, enclaveVars>>
      /\ UNCHANGED <<peerVars, backlog, client_sock, sock_client_map, buffer, prog, reply>>
  BY DEF RecvGoutput, Goto
<1>2. PICK r \in Nat \ {0} : Live(r)
  BY <1>1, ServerLives
<1>3. UNCHANGED <<opc, orounds, oi, open, scenario>> /\ serving
  BY <1>1, ServerLives, ServerDoes DEF peerVars, ownerVars, sockets
<1>4. \A c \in Clients : Reads(c)' = Reads(c)
  BY <1>1, <1>2, ServerPeers DEF Live, OwnerExchange
<1>5. \/ /\ ServerGets(Owner) /\ passGoutput(Head(up[Owner])) /\ Here(r) /\ open[Owner]
      \/ UNCHANGED <<sockets, enclaveVars>> /\ Gone /\ ~open[Owner]
  <2>1. Gone => up[Owner] = <<>>
    BY <1>1 DEF Gone
  <2>2. (open[Owner] <=> ~Gone) /\ (Here(r) \/ Gone)
    BY <1>2 DEF Live, OwnerTurn, OwnerKeys, Here, Gone
  <2>3. ServerRecvFails(Owner) => ~open[Owner]
    BY <1>2, FailsWhenClosed DEF Live
  <2> QED
    BY <1>1, <2>1, <2>2, <2>3 DEF ServerGets
<1>6. Here(r) => Here(r)'
  <2>1. SUFFICES ASSUME Here(r), ServerGets(Owner) PROVE Here(r)'
    BY <1>5 DEF Here, Gone
  <2>2. Evaluates(r, <<>>) /\ opc \notin {"ended", "killed"}
    BY <1>1, <2>1 DEF Here
  <2>3. up[Owner] # <<>> /\ up'[Owner] = Tail(up[Owner]) /\ down' = down
    BY <2>1, ServerDoes
  <2>4. PICK x : Row("recvSize", r, Append(<<>>, x), <<>>)
    BY <2>2, <2>3 DEF Evaluates, Row
  <2>5. Tail(Append(<<>>, x)) = <<>>
    BY Short
  <2>6. Row("recvSize", r, <<>>, <<>>)'
    BY <1>3, <2>3, <2>4, <2>5 DEF Row
  <2> QED
    BY <1>1, <1>3, <2>2, <2>6 DEF Here, Inputs, Before, Results2
<1>7. Gone => Gone'
  <2>1. Gone => UNCHANGED up
    BY <1>5 DEF Here, Gone, sockets
  <2> QED
    BY <1>1, <1>3, <2>1 DEF Gone, Inputs, Before, Program
<1>8. Placed'
  BY <1>1 DEF Placed, Inputs, Before, Decoded, Results2
<1>9. Base(r)' = Base(r)
  BY <1>1 DEF Base, Inputs, Before, Program
<1>10. \A v : Worth(v, r)' <=> Worth(v, r)
  BY <1>3, <1>4, WorthKept
<1>11. ~Now(output.v, r) /\ ~Now(reply.v, r)
  BY <1>1, <1>2 DEF Live, Outputs, Decoded, Results2
<1>12. \A c \in Clients : ~Taken(c) /\ ~Taken(c)' /\ Got(c) /\ Got(c)' /\ ~Given(c) /\ ~Given(c)'
  BY <1>1 DEF Taken, Got, Given, Middle, Garbled, Decoded, Results2
<1>13. OwnerExchange /\ reply' \in Coded
  BY <1>1 DEF OwnerExchange, FInv, ServerKinds
<1>s. Sure(r)' => Sure(r)
  BY <1>1, <1>4, SureKept DEF Decoded, Results2
<1>14. CASE UNCHANGED enclaveVars /\ ~open[Owner]
  <2>1. UNCHANGED <<enclave, datainput, freed, damaged, com_to_client_key, com_key_program, C,
                    outGarblings, output>>
    BY <1>14 DEF enclaveVars, state
  <2>2. EnclaveKinds'
    BY <2>1 DEF FInv, EnclaveKinds
  <2>3. Programs(r)'
    BY <1>1, <1>2, <1>3, <1>9, <1>s, <2>1, ProgramsKept DEF Live, Garbled
  <2>4. Data(r)'
    <3>1. \A c \in Clients : Entered(c, r)' /\ Unread(c)'
      BY <1>1, <1>2, <1>4, <2>1 DEF Live, Data, Entered, Unread, Program
    <3>2. Fresh' /\ Begun(r)'
      BY <1>3, <1>14 DEF Fresh, Begun
    <3>3. Counts(r)'
      BY <1>1, <1>2, <1>4, <1>12, <1>s, <2>1 DEF Live, Data, Counts, On
    <3> QED
      BY <1>2, <1>s, <2>1, <3>1, <3>2, <3>3 DEF Live, Data, On
  <2>5. Outputs(r)'
    BY <1>1, <1>2, <1>3, <1>10, <1>11, <1>14, <2>1 DEF Live, Outputs, Now
  <2> QED
    BY <1>1, <1>2, <1>3, <1>6, <1>7, <1>8, <1>12, <1>13, <2>2, <2>3, <2>4, <2>5, ServerStep
       DEF Before
<1>15. CASE passGoutput(Head(up[Owner])) /\ open[Owner]
  <2>1. /\ UNCHANGED <<com_to_client_key, com_key_program, damaged, C>>
        /\ On' => On
        /\ outGarblings' \in [ptr : Pointer, v : Values] /\ outGarblings'.v = outGarblings.v
        /\ output' \in [ptr : Pointer, v : Values]
        /\ \/ /\ On /\ On' /\ datainput' = NULL
              /\ freed' = IF datainput = NULL THEN freed ELSE datainput
              /\ output'.ptr = "live" /\ output'.v \in {outGarblings.v, Junk}
           \/ ~On' /\ UNCHANGED <<datainput, freed, output>>
    BY <1>15, GoutputIs
  <2>2. EnclaveKinds'
    BY <2>1 DEF FInv, EnclaveKinds
  <2>3. Programs(r)' /\ Data(r)'
    <3>1. CASE ~On'
      BY <1>2, <1>4, <2>1, <3>1, Crashed DEF Live
    <3>2. CASE On'
      <4>1. UNCHANGED enclave
        BY <2>1, <3>2 DEF On
      <4>2. Programs(r)'
        BY <1>1, <1>2, <1>3, <1>9, <1>s, <2>1, <4>1, ProgramsKept DEF Live, Garbled
      <4>3. \A c \in Clients : Entered(c, r)' /\ Unread(c)'
        BY <1>1, <1>2, <1>4, <2>1, <3>2 DEF Live, Data, Entered, Unread, Program
      <4>4. Fresh' /\ Begun(r)'
        BY <1>1, <2>1, <3>2 DEF Fresh, Begun, Program
      <4>5. Counts(r)'
        BY <1>1, <1>2, <1>4, <1>12, <1>s, <2>1, <4>1 DEF Live, Data, Counts, On
      <4> QED
        BY <1>2, <1>s, <2>1, <4>1, <4>2, <4>3, <4>4, <4>5 DEF Live, Data, On
    <3> QED
      BY <3>1, <3>2
  <2>4. Outputs(r)'
    <3>1. Worth(outGarblings.v, r) /\ (Now(outGarblings.v, r) /\ On => C.program # Junk)
      BY <1>2, <1>15 DEF Live, Outputs
    <3>2. Worth(output'.v, r)
      BY <1>2, <2>1, <3>1, JunkIsSound DEF Live, Outputs
    <3>3. Now(output'.v, r) => On' /\ output'.ptr = "live" /\ C.program # Junk
      BY <1>11, <2>1, <3>1, JunkIsSound
    <3>4. spc' \in Decoded
      BY <1>1 DEF Decoded
    <3>5. /\ Worth(outGarblings.v, r)' /\ Worth(output.v, r)' /\ Worth(reply.v, r)'
          /\ ~Now(reply.v, r)'
      BY <1>1, <1>2, <1>10, <1>11, <2>1, <3>1, <3>2 DEF Live, Outputs, Now
    <3> QED
      BY <1>1, <2>1, <3>1, <3>3, <3>4, <3>5 DEF Outputs, Now
  <2> QED
    BY <1>1, <1>2, <1>3, <1>6, <1>7, <1>8, <1>12, <1>13, <2>2, <2>3, <2>4, ServerStep
       DEF Before
<1> QED
  BY <1>5, <1>14, <1>15

(* What getOutputFromEnclave does. *)
LEMMA OutputIs ==
  ASSUME FInv, NEW id, getOutputFromEnclave(id)
  PROVE  /\ UNCHANGED <<com_key_program, datainput, freed, C, outGarblings, output>>
         /\ On' => On
         /\ damaged' \in BOOLEAN /\ (id \in Clients => damaged' = damaged)
         /\ \/ /\ On /\ On' /\ id \in Clients
               /\ com_to_client_key' = [com_to_client_key EXCEPT ![id] = @ + 1]
               /\ outbuf' \in Coded /\ outbuf'.key = com_to_client_key[id]
               /\ outbuf'.v \in {output.v, Junk}
               /\ output.ptr = "live" => outbuf'.v = output.v
            \/ /\ outbuf' = Nothing /\ UNCHANGED com_to_client_key
               /\ On' => id \notin Clients
               /\ ~(id \in Clients /\ On /\ output.ptr = "live" /\ C.program # Junk)
<1>1. output.v \in Values /\ com_to_client_key \in [Clients -> Int] /\ damaged \in BOOLEAN
  BY DEF FInv, EnclaveKinds
<1>2. CASE /\ Running
           /\ id \in Clients /\ output.ptr # "null"
           /\ \E v \in IF output.ptr = "live" THEN {output.v} ELSE {output.v, Junk} :
                outbuf' = Encrypt(com_to_client_key[id], v)
           /\ com_to_client_key' = [com_to_client_key EXCEPT ![id] = @ + 1]
           /\ UNCHANGED <<com_key_program, datainput, freed, damaged, C, outGarblings, output>>
  <2>1. PICK v \in {output.v, Junk} :
          outbuf' = Encrypt(com_to_client_key[id], v) /\ (output.ptr = "live" => v = output.v)
    BY <1>2
  <2>2. outbuf' \in Coded /\ outbuf'.key = com_to_client_key[id] /\ outbuf'.v = v
    BY <1>1, <1>2, <2>1, JunkIsSound DEF Encrypt
  <2> QED
    BY <1>1, <1>2, <2>1, <2>2 DEF Running, On
<1>3. CASE /\ Running
           /\ id \notin Clients /\ output.ptr # "null"
           /\ outbuf' = Nothing
           /\ damaged' \in {damaged, TRUE}
           /\ UNCHANGED <<com_to_client_key, com_key_program, datainput, freed, C,
                          outGarblings, output>>
  BY <1>1, <1>3 DEF Running, On
<1>4. CASE (id \notin Clients \/ output.ptr # "live" \/ C.program = Junk) /\ Crash
  BY <1>1, <1>4 DEF Crash, On, state
<1>5. CASE EcallFails
  BY <1>1, <1>5 DEF EcallFails, On, state
<1> QED
  BY <1>2, <1>3, <1>4, <1>5 DEF getOutputFromEnclave

(* If every client was read, the server knows them all. *)
LEMMA AllKnown ==
  ASSUME FInv, NEW r \in Nat \ {0}, Live(r), AllRead, spc \notin Before, NEW n \in Clients
  PROVE  /\ Sock(n) \in Clients /\ sock_client_map[n] = Sock(n)
         /\ Indices(sock_client_map[n]) = {Sock(n)}
<1>1. Sock(n) \in Clients /\ Position(Sock(n)) = n
  BY Positions DEF Live, Before
<1>2. sock_client_map[n] = Sock(n)
  BY <1>1 DEF AllRead, Live, Attend, Known
<1> QED
  BY <1>1, <1>2, UnknownAssumption DEF Indices

LEMMA FaultyGetOutput == ASSUME FInv, GetOutput PROVE FInv'
<1> USE PeersAssumption
<1>1. /\ spc = "getOutput" /\ spc' = "writeOutput" /\ i' = i
      /\ UNCHANGED <<peerVars, backlog, client_sock, sock_client_map, buffer, prog, sockets>>
  BY DEF GetOutput, Goto
<1>2. PICK r \in Nat \ {0} : Live(r)
  BY <1>1, ServerLives
<1>3. PICK index \in Indices(sock_client_map[i]) : getOutputFromEnclave(index)
  BY DEF GetOutput
<1>4. reply' \in IF outbuf' = Nothing THEN {reply, Nothing} ELSE {outbuf'}
  BY DEF GetOutput
<1> DEFINE gives == /\ On /\ On' /\ index \in Clients
                    /\ com_to_client_key' = [com_to_client_key EXCEPT ![index] = @ + 1]
                    /\ outbuf' \in Coded /\ outbuf'.key = com_to_client_key[index]
                    /\ outbuf'.v \in {output.v, Junk}
                    /\ output.ptr = "live" => outbuf'.v = output.v
           fails == /\ outbuf' = Nothing /\ UNCHANGED com_to_client_key
                    /\ On' => index \notin Clients
                    /\ ~(index \in Clients /\ On /\ output.ptr = "live" /\ C.program # Junk)
<1>5. /\ UNCHANGED <<com_key_program, datainput, freed, C, outGarblings, output>>
      /\ On' => On
      /\ damaged' \in BOOLEAN /\ (index \in Clients => damaged' = damaged)
      /\ gives \/ fails
  BY <1>3, OutputIs
<1>6. UNCHANGED <<opc, orounds, oi, up, down, open, scenario>> /\ serving
  BY <1>1, ServerLives DEF peerVars, ownerVars, sockets
<1>7. \A c \in Clients : Reads(c)' = Reads(c)
  BY <1>1, <1>2, ServerPeers DEF Live, OwnerExchange
<1>8. /\ i \in Clients /\ Sock(i) \in Clients /\ Position(Sock(i)) = i
      /\ \A c \in Clients : Position(c) \in Clients /\ Position(c)' = Position(c)
                            /\ Sock(Position(c)) = c
      /\ Sock(i)' = Sock(i)
  BY <1>1, <1>2, Positions, PositionKept DEF Live, Placed, Results2, Sock
<1>9. AllRead => index = Sock(i)
  BY <1>1, <1>2, <1>3, <1>8, AllKnown DEF Before
<1>10. reply' \in Coded /\ (reply' = reply \/ reply'.v = Junk \/ (gives /\ reply' = outbuf'))
  BY <1>4, <1>5, JunkIsSound DEF FInv, ServerKinds
<1>11. EnclaveKinds' /\ Placed'
  <2>1. com_to_client_key \in [Clients -> Int]
    BY DEF FInv, EnclaveKinds
  <2>2. com_to_client_key' \in [Clients -> Int]
    BY <1>5, <2>1
  <2>3. Placed'
    BY <1>1, <1>8 DEF Placed, Inputs, Before, Decoded, Results2
  <2> QED
    BY <1>5, <2>2, <2>3 DEF FInv, EnclaveKinds
<1>12. Here(r) => Here(r)'
  <2>1. Here(r) => Begins(r + 1) /\ opc \notin {"ended", "killed"}
    BY <1>1 DEF Here, Results2
  <2>2. Begins(r + 1) => Begins(r + 1)'
    BY <1>6 DEF Begins, RowAt, Row, Piece, Plain, Encrypt
  <2> QED
    BY <1>1, <1>6, <2>1, <2>2 DEF Here, Inputs, Before, Results2
<1>13. Gone => Gone'
  BY <1>1, <1>6 DEF Gone, Inputs, Before, Program
<1>14. /\ spc \in Decoded /\ spc' \in Decoded /\ spc \notin Before /\ spc' \notin Before
       /\ spc' \in Results2
  BY <1>1 DEF Decoded, Before, Results2
<1>15. Base(r)' = Base(r)
  BY <1>1 DEF Base, Inputs, Before, Program
<1>16. Programs(r)' /\ Data(r)'
  <2>1. CASE ~On'
    BY <1>2, <1>5, <1>7, <2>1, Crashed DEF Live
  <2>2. CASE On'
    <3>1. UNCHANGED enclave
      BY <1>5, <2>2 DEF On
    <3>s. Sure(r)' => Sure(r)
      BY <1>7, <1>14, SureKept
    <3>2. Programs(r)'
      BY <1>1, <1>2, <1>5, <1>6, <1>14, <1>15, <3>1, <3>s, ProgramsKept DEF Live
    <3>3. \A c \in Clients : Entered(c, r)' /\ Unread(c)'
      BY <1>1, <1>2, <1>5, <1>7 DEF Live, Data, Entered, Unread, Program
    <3>4. Fresh' /\ Begun(r)'
      BY <1>1, <1>2, <1>5, <1>6, <1>14, <3>1 DEF Live, Data, Fresh, Begun, On, Program
    <3>5. Counts(r)'
      <4>1. SUFFICES ASSUME AllRead', NEW c \in Clients
                     PROVE  com_to_client_key'[c] = c + Reads(c)' + (r - 1)
                                                      + IF Taken(c)' THEN 1 ELSE 0
        BY <1>14 DEF Counts, Sure
      <4>2. AllRead
        BY <1>7, <4>1 DEF AllRead
      <4>3. index = Sock(i) /\ gives
        BY <1>5, <1>8, <1>9, <2>2, <4>2
      <4>4. com_to_client_key[c] = c + Reads(c) + (r - 1) + IF Taken(c) THEN 1 ELSE 0
        BY <1>2, <1>5, <2>2, <4>2 DEF Live, Data, Counts, Sure
      <4>5. /\ com_to_client_key \in [Clients -> Int] /\ c \in Int /\ Reads(c) \in Int
            /\ r \in Int /\ i \in Int /\ Position(c) \in Int
        <5>1. com_to_client_key \in [Clients -> Int]
          BY DEF FInv, EnclaveKinds
        <5>2. c \in Int /\ i \in Int /\ Position(c) \in Int
          BY <1>8, ClientsAssumption DEF Clients
        <5>3. Reads(c) \in Int
          BY ReadsAre
        <5> QED
          BY <5>1, <5>2, <5>3
      <4>6. (Taken(c) <=> Position(c) < i) /\ (Taken(c)' <=> Position(c) <= i)
        BY <1>1, <1>8 DEF Taken
      <4>7. CASE c = Sock(i)
        <5>1. ~Taken(c) /\ Taken(c)'
          BY <1>8, <4>5, <4>6, <4>7
        <5>2. com_to_client_key'[c] = com_to_client_key[c] + 1
          BY <4>3, <4>5, <4>7
        <5> QED
          BY <1>7, <4>4, <4>5, <5>1, <5>2
      <4>8. CASE c # Sock(i)
        <5>1. Position(c) # i
          BY <1>8, <4>8
        <5>2. Taken(c) <=> Taken(c)'
          BY <4>5, <4>6, <5>1
        <5>3. com_to_client_key'[c] = com_to_client_key[c]
          BY <4>3, <4>5, <4>8
        <5> QED
          BY <1>7, <4>4, <5>2, <5>3
      <4> QED
        BY <4>7, <4>8
    <3>7. HasRoom /\ Sure(r)' => ~damaged'
      <4> SUFFICES ASSUME HasRoom, Sure(r)' PROVE ~damaged'
        OBVIOUS
      <4>1. AllRead /\ Sure(r)
        BY <1>14, <3>s DEF Sure
      <4>2. index \in Clients
        BY <1>8, <1>9, <4>1
      <4> QED
        BY <1>2, <1>5, <2>2, <4>1, <4>2 DEF Live, Data
    <3> QED
      BY <1>2, <1>5, <3>2, <3>3, <3>4, <3>5, <3>7 DEF Live, Data
  <2> QED
    BY <2>1, <2>2
<1>17. Outputs(r)'
  <2>1. \A v : Worth(v, r)' <=> Worth(v, r)
    BY <1>6, <1>7, WorthKept
  <2>2. Worth(output.v, r) /\ Worth(reply.v, r)
    BY <1>2 DEF Live, Outputs
  <2>3. ASSUME Now(output.v, r)
        PROVE  On /\ On' /\ output.ptr = "live" /\ C.program # Junk /\ gives /\ AllRead
    <3>1. On /\ output.ptr = "live" /\ C.program # Junk /\ AllRead
      BY <1>2, <2>2, <2>3 DEF Live, Outputs, Now, Worth
    <3>2. index \in Clients
      BY <1>8, <1>9, <3>1
    <3> QED
      BY <1>5, <3>1, <3>2
  <2>4. reply'.v \in {reply.v, output.v, Junk}
    BY <1>10
  <2>5. Worth(reply'.v, r)
    BY <2>2, <2>4, JunkIsSound
  <2>6. Now(reply'.v, r) => Now(output.v, r)
    BY <1>2, <2>4, JunkIsSound DEF Live, Outputs
  <2>7. ASSUME Now(reply'.v, r)
        PROVE  reply'.v.inputs[Sock(i)] = r \/ reply'.key # Sock(i) + 2 * r - 1
    <3>1. Now(output.v, r)
      BY <2>6, <2>7
    <3>2. gives /\ AllRead /\ On
      BY <2>3, <3>1
    <3>3. index = Sock(i)
      BY <1>9, <3>2
    <3>4. reply'.key = com_to_client_key[Sock(i)]
      <4>1. outbuf'.v = output.v
        BY <2>3, <3>1
      <4>2. outbuf' # Nothing
        BY <3>1, <4>1, JunkIsSound
      <4> QED
        BY <1>4, <3>2, <3>3, <4>2
    <3>5. ~Taken(Sock(i))
      <4>1. i \in Int
        BY <1>8, ClientsAssumption DEF Clients
      <4> QED
        BY <1>1, <1>8, <4>1 DEF Taken
    <3>6. com_to_client_key[Sock(i)] = Sock(i) + Reads(Sock(i)) + (r - 1)
      <4>1. com_to_client_key[Sock(i)] = Sock(i) + Reads(Sock(i)) + (r - 1) + 0
        BY <1>2, <1>8, <3>2, <3>5 DEF Live, Data, Counts, Sure
      <4>2. Sock(i) \in Int /\ Reads(Sock(i)) \in Int
        BY <1>8, ReadsAre, ClientsAssumption DEF Clients
      <4> QED
        BY <4>1, <4>2
    <3>7. reply'.v.inputs[Sock(i)] = r \/ Reads(Sock(i)) < r
      BY <1>8, <2>5, <2>7 DEF Worth, Now
    <3>8. Sock(i) \in Int /\ Reads(Sock(i)) \in Int
      BY <1>8, ReadsAre, ClientsAssumption DEF Clients
    <3> QED
      BY <3>4, <3>6, <3>7, <3>8
  <2>8. Due(Sock(i), reply', r)
    BY <2>5, <2>7 DEF Due, Worth, Now
  <2>9. Due(Sock(i), reply, r)'
    BY <1>8, <2>8 DEF Due
  <2>10. Worth(outGarblings.v, r)' <=> Worth(outGarblings.v, r)
    BY <1>5, <2>1
  <2>11. Worth(output.v, r)' /\ Worth(reply.v, r)'
    BY <1>5, <2>1, <2>2, <2>5
  <2>12. (Now(reply.v, r)' => Now(output.v, r)') /\ (Now(output.v, r)' => Now(output.v, r))
    BY <1>5, <2>6 DEF Now
  <2> QED
    BY <1>2, <1>5, <1>6, <1>14, <2>3, <2>9, <2>10, <2>11, <2>12
       DEF Live, Outputs, Now
<1>18. \A c \in Clients : (Got(c)' <=> Got(c)) /\ (Given(c)' <=> Given(c))
  BY <1>1, <1>8, <1>14 DEF Got, Given, Results2
<1> QED
  BY <1>1, <1>2, <1>6, <1>10, <1>11, <1>12, <1>13, <1>14, <1>16, <1>17, <1>18, ServerStep
     DEF OwnerExchange

-----------------------------------------------------------------------------
(* The server and the clients. *)

(* What is sent to client c lasts until it is read. *)
LEMMA SumsMove ==
  /\ \A x, y, z, q \in Int : z = y + 1 /\ x + y >= q - 1 => x + z >= q
  /\ \A x, y, q \in Nat : x + y >= q - 1 => x + y + 1 \in Nat /\ x + y + 1 >= q
OBVIOUS

LEMMA FlowGrows ==
  ASSUME FInv, NEW c \in Clients, NEW m \in Coded, UNCHANGED scenario,
         results'[c] = results[c], down'[c] = Append(down[c], m),
         Sound(m.v), \A n \in Nat : n = Len(results[c]) + Len(down[c]) + 1 => Due(c, m, n)
  PROVE  /\ Flow(c)' /\ down'[c] \in Seq(Coded) /\ Len(down'[c]) = Len(down[c]) + 1
<1>1. \A v : Sound(v)' <=> Sound(v)
  BY SoundKept
<1>2. down[c] \in Seq(Coded) /\ Len(down[c]) \in Nat /\ Len(results[c]) \in Nat /\ Flow(c)
  BY DEF FInv, PeerKinds, Clientele
<1>3. /\ down'[c] \in Seq(Coded) /\ Len(down'[c]) = Len(down[c]) + 1
      /\ down'[c][Len(down[c]) + 1] = m
      /\ \A k \in 1..Len(down[c]) : down'[c][k] = down[c][k]
  BY <1>2
<1>4. ASSUME NEW k \in 1..Len(down'[c])
      PROVE  Sound(down'[c][k].v) /\ Due(c, down'[c][k], Len(results[c]) + k)
  <2>1. CASE k = Len(down[c]) + 1
    <3>1. Len(results[c]) + k = Len(results[c]) + Len(down[c]) + 1
          /\ Len(results[c]) + k \in Nat
      <4>1. k \in Nat
        BY <1>2, <2>1
      <4> DEFINE x == Len(results[c])
                 y == Len(down[c])
      <4>2. x \in Nat /\ y \in Nat /\ k = y + 1
        BY <1>2, <2>1
      <4> HIDE DEF x, y
      <4>3. x + k = x + y + 1 /\ x + k \in Nat
        BY <4>1, <4>2
      <4> QED
        BY <4>3 DEF x, y
    <3> QED
      BY <1>3, <2>1, <3>1
  <2>2. CASE k # Len(down[c]) + 1
    <3>1. k \in 1..Len(down[c])
      BY <1>2, <1>3, <2>2
    <3> QED
      BY <1>2, <1>3, <3>1 DEF Flow
  <2> QED
    BY <2>1, <2>2
<1>5. \A k \in 1..Len(down'[c]) :
        Sound(down'[c][k].v) /\ Due(c, down'[c][k], Len(results[c]) + k)
  BY <1>4
<1>6. \A n \in 1..Len(results[c]) : Sound(results[c][n]) /\ Fine(c, results[c][n], n)
  BY <1>2 DEF Flow
<1>7. /\ \A v, n : Due(c, v, n)' <=> Due(c, v, n)
      /\ \A v, n : Fine(c, v, n)' <=> Fine(c, v, n)
  BY DEF Due, Fine
<1>8. Flow(c)'
  BY <1>1, <1>5, <1>6, <1>7 DEF Flow
<1> QED
  BY <1>3, <1>8

LEMMA DueLater ==
  ASSUME NEW r \in Nat, NEW n \in Nat, r <= n, NEW c, NEW m \in Coded, Due(c, m, r)
  PROVE  Due(c, m, n)
<1>1. m.v # Junk => m.v.program \in Nat
  BY DEF Coded, Values
<1> QED
  BY <1>1 DEF Due

LEMMA FaultyWriteOutput == ASSUME FInv, WriteOutput PROVE FInv'
<1> USE PeersAssumption
<1>1. /\ spc = "writeOutput" /\ ServerSends(Sock(i), reply)
      /\ IF i + 1 < NUM_OF_CLIENTS THEN spc' = "getOutput" /\ i' = i + 1
                                   ELSE spc' = "freeEnc" /\ i' = 0
      /\ UNCHANGED <<peerVars, backlog, client_sock, sock_client_map, buffer, prog, reply,
                     enclaveVars>>
  BY DEF WriteOutput, Goto
<1>2. PICK r \in Nat \ {0} : Live(r)
  BY <1>1, ServerLives
<1>3. PICK c \in Clients :
        /\ i \in Clients /\ c = Sock(i) /\ Position(c) = i
        /\ \A d \in Clients : /\ Position(d) \in Clients /\ Position(d)' = Position(d)
                              /\ Sock(Position(d)) = d
  BY <1>1, <1>2, Positions, PositionKept DEF Live, Placed, Results2
<1>4. /\ UNCHANGED <<scenario, cpc, com_key, crounds, results, opc, ocom_key, orounds, oi,
                     up, open, serving, rstP>>
      /\ serving
  BY <1>1, ServerLives DEF peerVars, clientVars, ownerVars, ServerSends
<1>5. /\ DOMAIN down' = Peers /\ DOMAIN rstS' = Peers
      /\ open[c] => down'[c] = Append(down[c], reply) /\ rstS'[c] = rstS[c]
      /\ ~open[c] => down'[c] = down[c]
      /\ \A p \in Peers : p # c => down'[p] = down[p] /\ rstS'[p] = rstS[p]
  BY <1>1, <1>3 DEF ServerSends, FInv, PeerKinds, ServerKinds
<1>6. /\ Outputs(r) /\ reply \in Coded /\ Due(c, reply, r) /\ Sound(reply.v)
  BY <1>1, <1>2, <1>3 DEF Live, Outputs, Worth, Sound, FInv, ServerKinds
<1>7. ~Given(c) /\ (open[c] => Len(results[c]) + Len(down[c]) >= r - 1)
  <2>1. i \in Int
    BY <1>3, ClientsAssumption DEF Clients
  <2>2. ~Given(c)
    BY <1>1, <1>3, <2>1 DEF Given, Results2
  <2> QED
    BY <1>2, <1>3, <2>2 DEF Live, Attend, Replied
<1>8. ASSUME open[c]
      PROVE  /\ Flow(c)' /\ down'[c] \in Seq(Coded) /\ Len(down'[c]) = Len(down[c]) + 1
  <2>1. Len(results[c]) \in Nat /\ Len(down[c]) \in Nat
    BY DEF FInv, PeerKinds
  <2>2. /\ Len(results[c]) + Len(down[c]) + 1 \in Nat
        /\ Len(results[c]) + Len(down[c]) + 1 >= r
    BY <1>7, <1>8, <2>1, SumsMove
  <2>3. Due(c, reply, Len(results[c]) + Len(down[c]) + 1)
    BY <1>6, <2>2, DueLater
  <2> QED
    BY <1>4, <1>5, <1>6, <1>8, <2>3, FlowGrows
<1>9. \A v : Sound(v)' <=> Sound(v)
  BY <1>4, SoundKept
<1>10. \A d, n : InputSent(d, n)' = InputSent(d, n)
  BY <1>4, SoundKept
<1>11. \A d \in Clients : Reads(d)' = Reads(d)
  BY <1>4 DEF Reads
<1>12. ASSUME NEW d \in Clients PROVE ClientSide(d)' /\ Flow(d)' /\ down'[d] \in Seq(Coded)
  <2>1. ClientSide(d) /\ Flow(d) /\ down[d] \in Seq(Coded)
    BY DEF FInv, Clientele, PeerKinds
  <2>2. ClientSide(d)'
    BY <1>4, <1>10, <1>11, <2>1 DEF ClientSide
  <2>3. CASE down'[d] = down[d]
    BY <1>4, <1>9, <2>1, <2>2, <2>3 DEF Flow, Fine, Due
  <2>4. CASE d = c /\ open[c]
    BY <1>8, <2>2, <2>4
  <2> QED
    BY <1>5, <2>3, <2>4
<1>13. PeerKinds' /\ ServerKinds' /\ Clientele'
  <2>1. PeerKinds'
    BY <1>4, <1>5, <1>12 DEF FInv, PeerKinds
  <2>2. ServerKinds'
    BY <1>1, <1>4, <1>5 DEF FInv, ServerKinds
  <2> QED
    BY <1>12, <2>1, <2>2 DEF Clientele
<1>14. UNCHANGED <<enclave, datainput, freed, damaged, com_to_client_key, com_key_program, C,
                   outGarblings, output>>
  BY <1>1 DEF enclaveVars, state
<1>15. EnclaveKinds' /\ Ends'
  <2>1. EnclaveKinds'
    BY <1>14 DEF FInv, EnclaveKinds
  <2>2. Ends
    BY <1>2 DEF Live
  <2>3. \A p \in Peers : rstS'[p] # "none" => ~open[p]
    BY <1>5, <2>2 DEF Ends
  <2> QED
    BY <1>4, <2>1, <2>2, <2>3 DEF Ends, QuitAfter
<1>16. /\ spc \in Decoded /\ spc' \in Decoded /\ spc \notin Before /\ spc' \notin Before
       /\ spc \in Results2 /\ spc' \in Results2 \cup {"freeEnc"} /\ spc' # "writeOutput"
       /\ spc' # "recvInput" /\ spc \notin Garbled /\ spc' \notin Inputs \cup Program
       /\ spc \notin Inputs \cup Program /\ spc \notin {"getGCircuit", "recvInput"}
       /\ spc' \notin {"getGCircuit", "recvInput"}
  BY <1>1 DEF Decoded, Before, Results2, Inputs, Program, Garbled
<1>17. Placed' /\ Connected'
  <2>1. i + 1 < NUM_OF_CLIENTS => i + 1 \in Clients
    BY <1>3, ClientsAssumption DEF Clients
  <2>2. Placed'
    BY <1>1, <1>16, <2>1 DEF Placed, Inputs, Before, Results2
  <2> QED
    BY <1>1, <1>2, <1>4, <1>16, <2>2, ConnectedOn DEF Live, Before
<1>18. \A d \in Clients :
         /\ Got(d)' /\ Got(d) /\ (Taken(d)' <=> Taken(d))
         /\ Given(d)' <=> (Given(d) \/ d = c)
  <2> TAKE d \in Clients
  <2>1. i \in Int /\ Position(d) \in Int /\ i < NUM_OF_CLIENTS /\ Position(d) < NUM_OF_CLIENTS
        /\ NUM_OF_CLIENTS \in Int
    BY <1>3, ClientsAssumption DEF Clients
  <2>2. Position(d) = i <=> d = c
    BY <1>3
  <2>3. Got(d)' /\ Got(d)
    BY <1>16 DEF Got
  <2>4. (Taken(d) <=> Position(d) <= i) /\ (Given(d) <=> Position(d) < i)
    BY <1>1 DEF Taken, Given, Results2
  <2>5. (Taken(d)' <=> Position(d) <= i) /\ (Given(d)' <=> Position(d) <= i)
    <3>1. CASE i + 1 < NUM_OF_CLIENTS
      <4>1. spc' = "getOutput" /\ i' = i + 1 /\ Position(d)' = Position(d)
        BY <1>1, <1>3, <3>1
      <4> QED
        BY <2>1, <4>1 DEF Taken, Given, Results2
    <3>2. CASE ~(i + 1 < NUM_OF_CLIENTS)
      <4>1. spc' = "freeEnc" /\ Position(d) <= i
        BY <1>1, <2>1, <3>2
      <4> QED
        BY <4>1 DEF Taken, Given
    <3> QED
      BY <3>1, <3>2
  <2> QED
    BY <2>1, <2>2, <2>3, <2>4, <2>5
<1>19. Attend(r)'
  <2>1. \A d \in Clients : Turns(d, r)' = Turns(d, r)
    BY <1>18 DEF Turns
  <2>2. ASSUME NEW d \in Clients PROVE Replied(d, r)'
    <3>1. CASE d = c
      <4>1. ASSUME open[c] PROVE Len(results[c]) + Len(down'[c]) >= r
        <5>1. Len(results[c]) \in Int /\ Len(down[c]) \in Int /\ r \in Int
          BY DEF FInv, PeerKinds
        <5>2. Len(down'[c]) = Len(down[c]) + 1 /\ Len(results[c]) + Len(down[c]) >= r - 1
          BY <1>7, <1>8, <4>1
        <5>3. Len(down'[c]) \in Int
          BY <5>1, <5>2
        <5> QED
          BY <5>1, <5>2, <5>3, SumsMove
      <4>2. Given(c)'
        BY <1>18
      <4> QED
        BY <1>4, <3>1, <4>1, <4>2 DEF Replied
    <3>2. CASE d # c
      BY <1>2, <1>4, <1>5, <1>18, <3>2 DEF Live, Attend, Replied
    <3> QED
      BY <3>1, <3>2
  <2> QED
    BY <1>1, <1>2, <1>4, <1>11, <1>16, <2>1, <2>2, AttendKept DEF Live, peerVars, clientVars
<1>20. OwnerTurn(r)'
  <2>1. up'[Owner] = up[Owner] /\ down'[Owner] = down[Owner]
    BY <1>3, <1>4, <1>5
  <2>2. Here(r) => Here(r)'
    <3>1. Here(r) => Begins(r + 1) /\ opc \notin {"ended", "killed"}
      BY <1>16 DEF Here
    <3>2. Begins(r + 1) => Begins(r + 1)'
      BY <1>4, <2>1 DEF Begins, RowAt, Row, Piece, Plain, Encrypt
    <3> QED
      BY <1>1, <1>4, <1>16, <3>1, <3>2 DEF Here, Inputs
  <2>3. Gone => Gone'
    BY <1>1, <1>4, <1>16, <2>1 DEF Gone
  <2>4. OwnerKeys => OwnerKeys'
    BY <1>4 DEF OwnerKeys
  <2> QED
    BY <1>2, <2>2, <2>3, <2>4 DEF Live, OwnerTurn
<1>21. Programs(r)'
  <2>1. Base(r)' = Base(r)
    BY <1>16 DEF Base
  <2>2. Sure(r)' => Sure(r)
    BY <1>11, <1>16, SureKept
  <2> QED
    BY <1>2, <1>4, <1>14, <1>16, <2>1, <2>2, ProgramsKept DEF Live
<1>22. Data(r)'
  <2>1. Fresh' /\ Begun(r)'
    BY <1>2, <1>4, <1>14, <1>16 DEF Live, Data, Fresh, Begun, On
  <2> QED
    BY <1>2, <1>4, <1>11, <1>14, <1>16, <1>18, <2>1, DataKept DEF Live
<1>23. Outputs(r)'
  BY <1>1, <1>4, <1>6, <1>11, <1>14, <1>16, OutputsKept
<1> QED
  BY <1>2, <1>13, <1>15, <1>17, <1>19, <1>20, <1>21, <1>22, <1>23 DEF FInv, Live

(* The next round. *)
LEMMA FreeEncIs ==
  ASSUME FInv, freeEnc
  PROVE  /\ UNCHANGED <<com_to_client_key, com_key_program, datainput, freed, damaged,
                        outGarblings>>
         /\ On' => On
         /\ C' \in [program : Nat \cup {Junk}, gates : Pointer, inpSizes : Pointer]
         /\ output' \in [ptr : Pointer, v : Values] /\ output'.v = output.v
<1>1. /\ output \in [ptr : Pointer, v : Values]
      /\ C \in [program : Nat \cup {Junk}, gates : Pointer, inpSizes : Pointer]
  BY DEF FInv, EnclaveKinds
<1>2. CASE /\ Running
           /\ output' = IF output.ptr = "null" THEN output
                                               ELSE [output EXCEPT !.ptr = "dangling"]
           /\ C' = IF C.inpSizes = "null" THEN C ELSE [C EXCEPT !.inpSizes = "dangling"]
           /\ UNCHANGED <<com_to_client_key, com_key_program, datainput, freed, damaged,
                          outGarblings, outbuf>>
  <2>1. output' \in [ptr : Pointer, v : Values] /\ output'.v = output.v
    BY <1>1, <1>2 DEF Pointer
  <2>2. C' \in [program : Nat \cup {Junk}, gates : Pointer, inpSizes : Pointer]
    BY <1>1, <1>2 DEF Pointer
  <2> QED
    BY <1>2, <2>1, <2>2 DEF Running, On
<1>3. CASE Crash \/ EcallFails
  BY <1>1, <1>3 DEF Crash, EcallFails, On, state
<1> QED
  BY <1>2, <1>3 DEF freeEnc

LEMMA FaultyFreeEnc == ASSUME FInv, FreeEnc PROVE FInv'
<1> USE PeersAssumption
<1>1. /\ spc = "freeEnc" /\ spc' = "recvInput" /\ i' = 0 /\ buffer' = <<>> /\ freeEnc
      /\ UNCHANGED <<peerVars, backlog, client_sock, sock_client_map, prog, reply, sockets>>
  BY DEF FreeEnc, Goto
<1>2. PICK r \in Nat \ {0} : Live(r)
  BY <1>1, ServerLives
<1> DEFINE q == r + 1
<1>3. /\ PeerKinds' /\ Clientele' /\ Ends' /\ DOMAIN rstS' = Peers
      /\ \A c \in Clients : Reads(c)' = Reads(c) /\ up'[c] = up[c]
      /\ UNCHANGED <<open, serving, cpc, crounds, results, opc, ocom_key, orounds, oi, up, down>>
      /\ serving /\ UNCHANGED scenario
  BY <1>1, <1>2, ServerPeers, ServerLives
     DEF Live, OwnerExchange, sockets, peerVars, ownerVars
<1>4. /\ UNCHANGED <<com_to_client_key, com_key_program, datainput, freed, damaged,
                     outGarblings>>
      /\ On' => On
      /\ C' \in [program : Nat \cup {Junk}, gates : Pointer, inpSizes : Pointer]
      /\ output' \in [ptr : Pointer, v : Values] /\ output'.v = output.v
  BY <1>1, FreeEncIs
<1>5. ServerKinds' /\ EnclaveKinds'
  BY <1>1, <1>3, <1>4 DEF FInv, ServerKinds, EnclaveKinds
<1>6. /\ spc \in Decoded /\ spc \notin Before /\ spc' \notin Before
      /\ spc' \notin Decoded \cup Garbled \cup Program \cup Middle
      /\ spc' \in Inputs /\ spc \notin Inputs \cup Program
  BY <1>1 DEF Decoded, Before, Garbled, Program, Middle, Inputs, Results2
<1>7. Placed' /\ Connected'
  <2>1. 0 \in Clients
    BY ClientsAssumption DEF Clients
  <2>2. Placed'
    BY <1>1, <1>6, <2>1 DEF Placed, Results2
  <2> QED
    BY <1>1, <1>2, <1>3, <2>2, ConnectedOn DEF Live
<1>8. \A c \in Clients : ~(Position(c)' < i')
  BY <1>1, <1>2, Positions, PositionKept, ClientsAssumption DEF Live, Clients
<1>9. \A c \in Clients :
        Got(c) /\ ~Got(c)' /\ Taken(c) /\ ~Taken(c)' /\ Given(c) /\ ~Given(c)'
  BY <1>1, <1>6, <1>8 DEF Got, Taken, Given, Results2
<1>10. Attend(q)'
  <2>1. \A c \in Clients : Turns(c, q)' = Turns(c, r)
    BY <1>9 DEF Turns
  <2>2. \A c \in Clients : Replied(c, q)'
    <3> SUFFICES ASSUME NEW c \in Clients PROVE Replied(c, q)'
      OBVIOUS
    <3>1. q - 1 = r
      OBVIOUS
    <3> HIDE DEF q
    <3> QED
      BY <1>2, <1>3, <1>9, <3>1 DEF Live, Attend, Replied
  <2>3. \A c \in Clients : ~(Position(c) < i')
    BY <1>1, <1>8, PositionKept
  <2> HIDE DEF q
  <2> QED
    BY <1>1, <1>2, <1>3, <1>6, <2>1, <2>2, <2>3, AttendKept DEF Live
<1>11. OwnerTurn(q)'
  <2>1. Here(r) => Here(q)'
    <3>1. Here(r) => Begins(q) /\ opc \notin {"ended", "killed"}
      BY <1>1 DEF Here
    <3>2. Begins(q) => Begins(q)'
      BY <1>3 DEF Begins, RowAt, Row, Piece, Plain, Encrypt
    <3> QED
      BY <1>1, <1>3, <3>1, <3>2 DEF Here, Results2
  <2>2. Gone => Gone'
    BY <1>1, <1>3 DEF Gone
  <2>3. OwnerKeys => OwnerKeys'
    BY <1>3 DEF OwnerKeys
  <2> QED
    BY <1>2, <2>1, <2>2, <2>3 DEF Live, OwnerTurn
<1>s. Sure(q)' => AllRead /\ Sure(r)
  <2>1. AllRead' => AllRead
    BY <1>3 DEF AllRead
  <2>2. q # 1
    OBVIOUS
  <2> HIDE DEF q
  <2> QED
    BY <2>1, <2>2 DEF Sure
<1>12. Programs(q)'
  <2>1. Base(r) = 2 * r /\ Base(q)' = 2 * q - 2 /\ 2 * q - 2 = 2 * r
    BY <1>1, <1>6 DEF Base
  <2>2. Behind(r) => Behind(q)'
    <3>1. \A bad \in scenario.badInputs : bad[2] \in Nat
      BY ScenarioSays, RoundsAssumption DEF FInv, PeerKinds
    <3>2. \A n \in Nat : q > n => r > n \/ r = n
      OBVIOUS
    <3> QED
      BY <1>3, <1>4, <1>6, <2>1, <3>1, <3>2 DEF Behind
  <2>3. BadInputsSent' <=> BadInputsSent
    BY DEF BadInputsSent
  <2> HIDE DEF q
  <2> QED
    BY <1>1, <1>2, <1>3, <1>4, <1>s, <2>1, <2>2, <2>3 DEF Live, Programs
<1>13. Data(q)'
  <2>1. \A c \in Clients : Entered(c, q)' /\ Unread(c)'
    BY <1>2, <1>3, <1>4, <1>9 DEF Live, Data, Entered, Unread
  <2>2. Fresh' /\ Begun(q)'
    BY <1>1, <1>2, <1>3, <1>4, <1>6 DEF Live, Data, Fresh, Begun
  <2>3. Counts(q)'
    <3>3. ASSUME On, AllRead, NEW c \in Clients
          PROVE  com_to_client_key[c] = c + Reads(c) + (q - 1) + 0
      <4>1. com_to_client_key[c] = c + Reads(c) + (r - 1) + 1
        BY <1>2, <1>9, <3>3 DEF Live, Data, Counts, Sure
      <4>2. c \in Int /\ Reads(c) \in Int
        BY ReadsAre, ClientsAssumption DEF Clients
      <4> QED
        BY <4>1, <4>2
    <3> HIDE DEF q
    <3> QED
      BY <1>3, <1>4, <1>9, <1>s, <3>3 DEF Counts
  <2> HIDE DEF q
  <2> QED
    BY <1>2, <1>4, <1>s, <2>1, <2>2, <2>3 DEF Live, Data
<1>14. Outputs(q)'
  <2>1. \A v : Worth(v, q)' <=> Worth(v, q)
    BY <1>3, WorthKept
  <2>2. ASSUME NEW v \in Values, Worth(v, r) PROVE Worth(v, q) /\ ~Now(v, q)
    <3>1. v # Junk => v.program \in Nat
      BY DEF Values
    <3> QED
      BY <2>2, <3>1 DEF Worth, Now
  <2>3. outGarblings.v \in Values /\ output.v \in Values /\ reply.v \in Values
    BY DEF FInv, EnclaveKinds, ServerKinds, Coded
  <2>4. open[Owner] => Worth(outGarblings.v, q) /\ ~Now(outGarblings.v, q)
    BY <1>2, <2>2, <2>3 DEF Live, Outputs
  <2>5. /\ Worth(output.v, q) /\ ~Now(output.v, q)
        /\ Worth(reply.v, q) /\ ~Now(reply.v, q)
    BY <1>2, <2>2, <2>3 DEF Live, Outputs
  <2> HIDE DEF q
  <2> QED
    BY <1>1, <1>3, <1>4, <2>1, <2>4, <2>5 DEF Outputs, Now
<1>15. Live(q)' /\ q \in Nat \ {0}
  BY <1>3, <1>7, <1>10, <1>11, <1>12, <1>13, <1>14 DEF Live
<1> HIDE DEF q
<1> QED
  BY <1>3, <1>5, <1>15 DEF FInv

(* Before the first round. *)
LEMMA ArrivalStep ==
  ASSUME FInv, NEW r \in Nat \ {0}, Live(r), spc \in Before, spc' \in Inputs,
         UNCHANGED <<peerVars, sock_client_map, buffer, reply, enclaveVars, sockets>>,
         \A c \in Clients : ~Got(c)', Placed', Connected'
  PROVE  FInv'
<1> USE PeersAssumption
<1>1. /\ PeerKinds' /\ Clientele' /\ Ends' /\ DOMAIN rstS' = Peers
      /\ \A c \in Clients : Reads(c)' = Reads(c)
      /\ UNCHANGED <<scenario, open, serving, cpc, crounds, results, opc, ocom_key, orounds, oi,
                     up, down>>
  BY ServerPeers DEF Live, OwnerExchange, sockets, peerVars, ownerVars
<1>2. UNCHANGED <<enclave, datainput, freed, damaged, com_to_client_key, com_key_program, C,
                  outGarblings, output>>
  BY DEF enclaveVars, state
<1>3. /\ ServerKinds' /\ EnclaveKinds' /\ serving
  <2>1. serving
    BY ServerLives DEF Before
  <2> QED
    BY <1>1, <1>2, <2>1 DEF FInv, ServerKinds, EnclaveKinds
<1>4. /\ spc \in Inputs /\ spc \notin Middle \cup Decoded \cup Program \cup Garbled
      /\ spc' \notin Middle \cup Decoded \cup Program \cup Garbled
      /\ spc # "recvInput"
  BY DEF Before, Inputs, Middle, Decoded, Program, Garbled, Results2
<1>5. \A c \in Clients : ~Got(c) /\ ~Given(c) /\ ~Given(c)' /\ ~Taken(c) /\ ~Taken(c)'
  BY <1>4 DEF Got, Given, Taken, Decoded, Results2
<1>6. Attend(r)'
  <2>1. r = 1 /\ Attend(r)
    BY DEF Live, Attend
  <2>2. ASSUME NEW c \in Clients PROVE Reads(c) = 0
    <3>1. Reads(c) = Turns(c, r)
      BY <2>1 DEF Attend, Attended
    <3> QED
      BY <1>5, <2>1, <3>1 DEF Turns
  <2>3. \A c \in Clients : Attended(c, r)' /\ Known(c)'
    <3> SUFFICES ASSUME NEW c \in Clients PROVE Attended(c, r)' /\ Known(c)'
      OBVIOUS
    <3>1. Reads(c)' = 0 /\ Turns(c, r)' = 0
      BY <1>1, <2>1, <2>2 DEF Turns
    <3>2. ~(spc' = "recvInput" /\ Position(c)' < i')
      BY DEF Got
    <3> QED
      BY <3>1, <3>2 DEF Attended, Known
  <2>4. \A c \in Clients : Replied(c, r)'
    BY <1>1, <1>5, <2>1 DEF Attend, Replied
  <2> QED
    BY <2>1, <2>3, <2>4 DEF Attend
<1>7. OwnerTurn(r)'
  <2>1. Here(r) => Here(r)'
    <3>1. Here(r) => Begins(r) /\ buffer = <<>> /\ opc \notin {"ended", "killed"}
      BY <1>4 DEF Here
    <3>2. Begins(r) => Begins(r)'
      BY <1>1 DEF Begins, RowAt, Row, Piece, Plain, Encrypt
    <3> QED
      BY <1>1, <1>4, <3>1, <3>2 DEF Here, Middle, Decoded, Program, Garbled
  <2>2. Gone => Gone'
    BY <1>1, <1>4 DEF Gone, Before
  <2>3. OwnerKeys => OwnerKeys'
    BY <1>1 DEF OwnerKeys
  <2> QED
    BY <2>1, <2>2, <2>3 DEF Live, OwnerTurn
<1>8. Programs(r)'
  <2>1. spc \in {"accept", "acceptOwner", "recvInput"}
        /\ spc' \in {"accept", "acceptOwner", "recvInput"}
    BY DEF Before, Inputs
  <2>2. Base(r)' = Base(r)
    BY <2>1 DEF Base, Inputs, Before
  <2>3. Sure(r)' => Sure(r)
    BY <1>1, <2>1, SureKept DEF Decoded, Results2
  <2> QED
    BY <1>1, <1>2, <1>4, <2>2, <2>3, ProgramsKept DEF Live, Middle
<1>9. Data(r)'
  <2>1. Fresh' /\ Begun(r)'
    BY <1>1, <1>2, <1>4 DEF Live, Data, Fresh, Begun, On, Middle
  <2> QED
    BY <1>1, <1>2, <1>4, <1>5, <2>1, DataKept DEF Live
<1>10. Outputs(r)'
  <2>1. AllRead => AllRead'
    BY <1>1 DEF AllRead
  <2> QED
    BY <1>1, <1>2, <1>4, <2>1, OutputsWait DEF Live, Decoded, Results2
<1> QED
  BY <1>1, <1>3, <1>6, <1>7, <1>8, <1>9, <1>10 DEF FInv, Live

LEMMA FaultyAccept == ASSUME FInv, Accept PROVE FInv'
<1>1. /\ spc = "accept"
      /\ \/ spc' = "accept" /\ i' = i + 1 /\ i + 1 < NUM_OF_CLIENTS
         \/ spc' = "acceptOwner"
      /\ UNCHANGED <<peerVars, sock_client_map, buffer, prog, reply, enclaveVars, sockets>>
  BY DEF Accept, Goto
<1>2. PICK r \in Nat \ {0} : Live(r)
  BY <1>1, ServerLives
<1>3. Connected' /\ i \in Clients
  BY <1>1, <1>2, AcceptConnects DEF Live, Placed
<1>4. Placed'
  BY <1>1, <1>3, ClientsAssumption DEF Placed, Inputs, Before, Results2, Clients
<1>5. spc \in Before /\ spc' \in Inputs /\ \A c \in Clients : ~Got(c)'
  BY <1>1 DEF Before, Inputs, Got, Middle, Decoded, Program, Garbled, Results2
<1> QED
  BY <1>1, <1>2, <1>3, <1>4, <1>5, ArrivalStep

LEMMA FaultyAcceptOwner == ASSUME FInv, AcceptOwner PROVE FInv'
<1>1. /\ spc = "acceptOwner" /\ spc' = "recvInput" /\ i' = 0
      /\ UNCHANGED <<peerVars, backlog, client_sock, sock_client_map, buffer, prog, reply,
                     enclaveVars, sockets>>
  BY DEF AcceptOwner, Goto
<1>2. PICK r \in Nat \ {0} : Live(r)
  BY <1>1, ServerLives
<1>3. Connected' /\ Placed'
  <2>1. 0 \in Clients /\ UNCHANGED cpc
    BY <1>1, ClientsAssumption DEF Clients, peerVars, clientVars
  <2> QED
    BY <1>1, <1>2, <2>1, ConnectedOn DEF Live, Placed, Inputs, Before, Results2
<1>4. \A c \in Clients : ~(Position(c)' < i')
  BY <1>1, <1>2, Positions, PositionKept, ClientsAssumption DEF Live, Clients
<1>5. spc \in Before /\ spc' \in Inputs /\ \A c \in Clients : ~Got(c)'
  BY <1>1, <1>4 DEF Before, Inputs, Got, Middle, Decoded, Program, Garbled, Results2
<1> QED
  BY <1>1, <1>2, <1>3, <1>5, ArrivalStep

-----------------------------------------------------------------------------
(* The inputs. *)

(* After the last input that it reads, the server waits for the program.   *)
LEMMA InputsOver ==
  ASSUME NEW r \in Nat \ {0}, OwnerTurn(r), spc = "recvInput",
         spc' = "recvInput" \/ (spc' = "recvProgram" /\ i' = 1),
         UNCHANGED <<opc, ocom_key, orounds, oi, buffer>>,
         up'[Owner] = up[Owner], down'[Owner] = down[Owner], open'[Owner] = open[Owner]
  PROVE  OwnerTurn(r)'
<1>1. Here(r) => Here(r)'
  <2>1. Here(r) => Begins(r) /\ buffer = <<>> /\ opc \notin {"ended", "killed"}
    BY DEF Here, Inputs
  <2>2. Begins(r) => Begins(r)'
    BY DEF Begins, RowAt, Row, Piece, Plain, Encrypt
  <2>3. CASE spc' = "recvInput"
    BY <2>1, <2>2, <2>3 DEF Here, Inputs, Results2
  <2>4. CASE spc' = "recvProgram" /\ i' = 1
    <3>1. Begins(r)' => Sends(r, i)'
      BY <2>4 DEF Sends
    <3>2. 1 - 1 = 0 /\ Pieces(Plain(r), 0) = <<>>
      BY PiecesGrow
    <3>3. Pieces(Plain(r), i - 1)' = <<>>
      BY <2>4, <3>2 DEF Pieces, Piece, Plain, Encrypt
    <3> QED
      BY <2>1, <2>2, <2>4, <3>1, <3>3 DEF Here, Inputs, Before, Results2
  <2> QED
    BY <2>3, <2>4
<1>2. Gone => Gone'
  <2>1. Gone => opc \in {"ended", "killed"} /\ up[Owner] = <<>> /\ buffer = <<>>
    BY DEF Gone, Inputs
  <2> QED
    BY <2>1 DEF Gone
<1>3. OwnerKeys'
  BY DEF OwnerTurn, OwnerKeys
<1> QED
  BY <1>1, <1>2, <1>3 DEF OwnerTurn

(* What was before the inputs, as long as the server reads them. *)
LEMMA InputStep ==
  ASSUME FInv, NEW r \in Nat \ {0}, Live(r), spc = "recvInput",
         spc' = "recvInput" \/ (spc' = "recvProgram" /\ i' = 1),
         UNCHANGED <<scenario, ownerVars, buffer, com_key_program, C, outGarblings, output, reply>>,
         up'[Owner] = up[Owner], down'[Owner] = down[Owner], open'[Owner] = open[Owner],
         On' => On, AllRead => AllRead', AllRead' => AllRead \/ r = 1
  PROVE  OwnerTurn(r)' /\ Programs(r)' /\ Outputs(r)'
<1>1. OwnerTurn(r)'
  BY InputsOver DEF Live, ownerVars
<1>2. Programs(r)'
  <2>1. Base(r)' = Base(r)
    BY DEF Base, Inputs, Program
  <2>2. On' => UNCHANGED enclave
    BY DEF On
  <2>s. Sure(r)' => Sure(r)
    BY DEF Sure, Decoded, Results2
  <2>3. CASE ~On'
    BY <2>3 DEF Programs
  <2>4. CASE On'
    BY <2>1, <2>2, <2>4, <2>s, ProgramsKept DEF Live, Garbled, Decoded, Results2
  <2> QED
    BY <2>3, <2>4
<1>3. Outputs(r)'
  BY OutputsWait DEF Live, Garbled, Decoded, Results2
<1> QED
  BY <1>1, <1>2, <1>3

(* The places of the clients while the server reads their inputs. *)
LEMMA InputPlaces ==
  ASSUME FInv, NEW r \in Nat \ {0}, Live(r), spc = "recvInput"
  PROVE  /\ i \in Clients /\ Sock(i) \in Clients /\ Position(Sock(i)) = i
         /\ \A c \in Clients : /\ Position(c) \in Clients /\ Sock(Position(c)) = c
                               /\ Got(c) <=> Position(c) < i
                               /\ Got(c) => Reads(c) = r
                               /\ ~Got(c) => Reads(c) <= r - 1
                               /\ ~Given(c) /\ ~Taken(c)
         /\ Sock(0) \in Clients /\ (i > 0 => Reads(Sock(0)) = r)
<1>1. /\ i \in Clients /\ Sock(i) \in Clients /\ Position(Sock(i)) = i /\ 0 \in Clients
      /\ \A c \in Clients : Position(c) \in Clients /\ Sock(Position(c)) = c
      /\ \A n \in Clients : Sock(n) \in Clients /\ Position(Sock(n)) = n
  BY Positions, ClientsAssumption DEF Live, Placed, Clients
<1>2. ASSUME NEW c \in Clients
      PROVE  /\ Got(c) <=> Position(c) < i
             /\ Got(c) => Reads(c) = r
             /\ ~Got(c) => Reads(c) <= r - 1
             /\ ~Given(c) /\ ~Taken(c)
  <2>1. (Got(c) <=> Position(c) < i) /\ ~Given(c) /\ ~Taken(c)
    BY DEF Got, Given, Taken, Middle, Decoded, Program, Garbled, Results2
  <2>2. Attended(c, r)
    BY DEF Live, Attend
  <2> QED
    BY <2>1, <2>2 DEF Attended, Turns
<1>3. i > 0 => Got(Sock(0))
  BY <1>1, <1>2
<1> QED
  BY <1>1, <1>2, <1>3

LEMMA FaultyRecvInputBreak == ASSUME FInv, RecvInputBreak PROVE FInv'
<1> USE PeersAssumption
<1>1. /\ spc = "recvInput" /\ ServerRecvFails(Sock(i)) /\ spc' = "recvProgram" /\ i' = 1
      /\ UNCHANGED <<peerVars, backlog, client_sock, sock_client_map, buffer, prog, reply,
                     enclaveVars, sockets>>
  BY DEF RecvInputBreak, Goto
<1>2. PICK r \in Nat \ {0} : Live(r)
  BY <1>1, ServerLives
<1>3. /\ PeerKinds' /\ Clientele' /\ Ends' /\ DOMAIN rstS' = Peers
      /\ \A c \in Clients : Reads(c)' = Reads(c)
      /\ UNCHANGED <<scenario, open, serving, cpc, crounds, results, ownerVars, up, down>>
  BY <1>1, <1>2, ServerPeers DEF Live, OwnerExchange, sockets, peerVars
<1>4. UNCHANGED <<enclave, datainput, freed, damaged, com_to_client_key, com_key_program, C,
                  outGarblings, output>>
  BY <1>1 DEF enclaveVars, state
<1>5. PICK c0 \in Clients :
        /\ c0 = Sock(i) /\ Position(c0) = i /\ i \in Clients
        /\ \A c \in Clients : /\ Position(c) \in Clients /\ Position(c)' = Position(c)
                              /\ Got(c) <=> Position(c) < i
                              /\ Got(c) => Reads(c) = r
                              /\ ~Got(c) => Reads(c) <= r - 1
                              /\ ~Given(c) /\ ~Taken(c)
        /\ Sock(0) \in Clients /\ (i > 0 => Reads(Sock(0)) = r) /\ Sock(0)' = Sock(0)
  BY <1>1, <1>2, InputPlaces, PositionKept DEF Sock
<1>6. \A c \in Clients : Got(c)' /\ ~Given(c)' /\ ~Taken(c)'
  BY <1>1 DEF Got, Given, Taken, Middle, Program, Results2
<1>7. /\ ServerKinds' /\ EnclaveKinds' /\ serving /\ Placed' /\ Connected'
  <2>1. serving
    BY <1>1, ServerLives
  <2>2. 1 \in 1..Chunks
    BY ChunksAssumption
  <2>3. Placed'
    BY <1>1, <2>2 DEF Placed, Inputs, Before, Middle, Program, Results2
  <2>4. Connected'
    BY <1>1, <1>2, <1>3, ConnectedOn DEF Live
  <2> QED
    BY <1>1, <1>3, <1>4, <2>1, <2>3, <2>4 DEF FInv, ServerKinds, EnclaveKinds
<1>8. Missed(c0, r)'
  <2>1. up[c0] = <<>> /\ ~open[c0]
    BY <1>1, <1>2, <1>5, FailsWhenClosed DEF Live
  <2>2. crounds[c0] = Reads(c0)
    BY <2>1, ReadsAre DEF Reads
  <2>3. ~Got(c0) /\ crounds[c0] \in Nat
    BY <1>5, ReadsAre, ClientsAssumption DEF Clients
  <2>4. crounds[c0] < r
    BY <1>5, <2>2, <2>3
  <2> QED
    BY <1>3, <1>6, <2>1, <2>4 DEF Missed, Turns
<1>9. Attend(r)'
  <2>1. spc' \notin Before /\ spc \notin Before
    BY <1>1 DEF Before
  <2>2. ASSUME NEW c \in Clients PROVE Attended(c, r)'
    <3>1. Turns(c, r)' = r
      BY <1>6 DEF Turns
    <3>2. CASE Got(c)
      BY <1>1, <1>3, <1>5, <3>1, <3>2 DEF Attended
    <3>3. CASE ~Got(c)
      <4>1. Position(c0)' <= Position(c)' /\ Reads(c)' <= r
        <5>1. Position(c) \in Int /\ i \in Int
          BY <1>5, ClientsAssumption DEF Clients
        <5>2. Position(c0) <= Position(c)
          BY <1>5, <3>3, <5>1
        <5>3. Reads(c) <= r
          BY <1>5, <3>3, ReadsAre
        <5> QED
          BY <1>3, <1>5, <5>2, <5>3
      <4>2. spc' # "recvInput"
        BY <1>1
      <4> QED
        BY <1>8, <2>1, <3>1, <4>1, <4>2 DEF Attended
    <3> QED
      BY <3>2, <3>3
  <2>3. \A c \in Clients : Known(c)' /\ Replied(c, r)'
    BY <1>1, <1>2, <1>3, <1>5, <1>6, <2>1 DEF Live, Attend, Known, Replied
  <2> QED
    BY <2>1, <2>2, <2>3 DEF Attend
<1>10. OwnerTurn(r)' /\ Programs(r)' /\ Outputs(r)'
  <2>1. AllRead <=> AllRead'
    BY <1>3 DEF AllRead
  <2>2. On' => On
    BY <1>4 DEF On
  <2> QED
    BY <1>1, <1>2, <1>3, <1>4, <2>1, <2>2, InputStep
<1>11. Data(r)'
  <2>1. \A c, n : Input(c, n)' = Input(c, n)
    BY <1>3, SoundKept
  <2>2. ASSUME NEW c \in Clients PROVE Entered(c, r)' /\ Unread(c)'
    <3>1. Reads(c) = r => Got(c)
      BY <1>5
    <3>2. Entered(c, r) /\ Unread(c)
      BY <1>2 DEF Live, Data
    <3> QED
      BY <1>1, <1>3, <1>4, <2>1, <3>1, <3>2 DEF Entered, Unread, On
  <2>3. Fresh' /\ Begun(r)'
    <3>1. Fresh'
      BY <1>1 DEF Fresh, Before, Decoded, Results2
    <3>2. On /\ open[Owner] /\ datainput # NULL => i > 0
      BY <1>1, <1>2, <1>5, ClientsAssumption DEF Live, Data, Fresh, Clients
    <3>3. Begun(r)'
      BY <1>3, <1>4, <1>5, <3>2 DEF Begun, On
    <3> QED
      BY <3>1, <3>3
  <2>s. Sure(r)' => Sure(r)
    BY <1>1, <1>3, SureKept DEF Decoded, Results2
  <2>4. Counts(r)'
    BY <1>1, <1>2, <1>3, <1>4, <1>5, <1>6, <2>s DEF Live, Data, Counts, On
  <2> QED
    BY <1>2, <1>4, <2>2, <2>3, <2>4, <2>s DEF Live, Data, On
<1> QED
  BY <1>2, <1>3, <1>7, <1>9, <1>10, <1>11 DEF FInv, Live

(* What passInput does to the enclave. *)
LEMMA InputIs ==
  ASSUME FInv, NEW c \in Clients, NEW m, passInput(c, m)
  PROVE  /\ UNCHANGED <<com_key_program, freed, C, outGarblings, output>>
         /\ On' => On
         /\ damaged' \in BOOLEAN /\ (HasRoom => damaged' = damaged)
         /\ \/ /\ On /\ On'
               /\ \E buf \in [Clients -> Nat \cup {Junk}] :
                    /\ IF datainput = NULL THEN \A d \in Clients : buf[d] \in {freed[d], Junk}
                                           ELSE buf = datainput
                    /\ datainput' = [buf EXCEPT ![c] = Decrypt(com_to_client_key[c], m)]
               /\ com_to_client_key' = [com_to_client_key EXCEPT ![c] = @ + 1]
            \/ ~On' /\ UNCHANGED <<datainput, damaged, com_to_client_key>>
<1>1. /\ freed \in [Clients -> Nat \cup {Junk}] /\ damaged \in BOOLEAN
      /\ datainput = NULL \/ datainput \in [Clients -> Nat \cup {Junk}]
  BY DEF FInv, EnclaveKinds
<1>2. CASE Crash \/ EcallFails
  BY <1>1, <1>2 DEF Crash, EcallFails, On, state
<1>3. CASE /\ Running
           /\ \E buf \in IF datainput = NULL THEN NewInputs ELSE {datainput} :
                datainput' = [buf EXCEPT ![c] = Decrypt(com_to_client_key[c], m)]
           /\ com_to_client_key' = [com_to_client_key EXCEPT ![c] = @ + 1]
           /\ damaged' = (damaged \/ c >= Room)
           /\ UNCHANGED <<com_key_program, freed, C, outGarblings, output, outbuf>>
  <2>1. On /\ On'
    BY <1>3 DEF Running, On
  <2>2. HasRoom => ~(c >= Room)
    BY ClientsAssumption DEF HasRoom, Room, Clients
  <2>3. damaged' \in BOOLEAN /\ (HasRoom => damaged' = damaged)
    BY <1>1, <1>3, <2>2
  <2>4. PICK buf \in IF datainput = NULL THEN NewInputs ELSE {datainput} :
          datainput' = [buf EXCEPT ![c] = Decrypt(com_to_client_key[c], m)]
    BY <1>3
  <2>5. \A b \in NewInputs : /\ b \in [Clients -> Nat \cup {Junk}]
                             /\ \A d \in Clients : b[d] \in {freed[d], Junk}
    BY <1>1 DEF NewInputs
  <2>6. /\ buf \in [Clients -> Nat \cup {Junk}]
        /\ IF datainput = NULL THEN \A d \in Clients : buf[d] \in {freed[d], Junk}
                               ELSE buf = datainput
    BY <1>1, <2>4, <2>5
  <2> QED
    BY <1>3, <2>1, <2>3, <2>4, <2>6
<1> QED
  BY <1>2, <1>3 DEF passInput

(* What the server reads is the input of the round that it is in. *)
LEMMA InputArrives ==
  ASSUME FInv, NEW r \in Nat \ {0}, Live(r), spc = "recvInput", ServerGets(Sock(i))
  PROVE  LET c == Sock(i) IN
         /\ up[c] # <<>> /\ Reads(c) = r - 1
         /\ Head(up[c]) = InputSent(c, r)
<1> USE PeersAssumption
<1>1. PICK c \in Clients :
        /\ c = Sock(i) /\ Position(c) = i /\ i \in Clients
        /\ \A d \in Clients : /\ Position(d) \in Clients /\ Sock(Position(d)) = d
                              /\ Got(d) <=> Position(d) < i
                              /\ Got(d) => Reads(d) = r
                              /\ ~Got(d) => Reads(d) <= r - 1
  BY InputPlaces
<1>2. up[c] # <<>> /\ up[c] \in Seq(FromClient(c)) /\ ClientSide(c)
  BY <1>1 DEF ServerGets, FInv, PeerKinds, Clientele
<1>3. Head(up[c]) = up[c][1] /\ 1 \in 1..Len(up[c])
  BY <1>2
<1>4. i \in Int /\ \A d \in Clients : Position(d) \in Int
  BY <1>1, ClientsAssumption DEF Clients
<1>5. ~Got(c) /\ Turns(c, r) = r - 1
  BY <1>1, <1>4 DEF Turns
<1>6. Reads(c) = r - 1
  <2> SUFFICES ASSUME Reads(c) # r - 1 PROVE FALSE
    OBVIOUS
  <2>1. Attended(c, r)
    BY DEF Live, Attend
  <2>2. PICK d \in Clients : Position(d) <= Position(c) /\ Missed(d, r)
    BY <1>5, <2>1 DEF Attended
  <2>3. d # c
    BY <1>2, <2>2 DEF Missed
  <2>4. Position(d) # i
    BY <1>1, <2>3
  <2>5. Got(d) /\ Reads(d) = r
    BY <1>1, <1>4, <2>2, <2>4
  <2>6. up[d] = <<>> /\ crounds[d] < r
    BY <2>2, <2>5 DEF Missed, Turns
  <2>7. Reads(d) = crounds[d] /\ crounds[d] \in Nat
    BY <2>6, ReadsAre DEF Reads
  <2> QED
    BY <2>5, <2>6, <2>7
<1>7. up[c][1] = InputSent(c, r)
  <2>1. up[c][1] = InputSent(c, Reads(c) + 1)
    BY <1>2, <1>3 DEF ClientSide
  <2>2. Reads(c) + 1 = r
    BY <1>6
  <2> QED
    BY <2>1, <2>2
<1> QED
  BY <1>1, <1>2, <1>3, <1>6, <1>7

(* The client's end, after its first message was read. *)
LEMMA ClientIsRead ==
  ASSUME FInv, NEW c \in Clients, ServerGets(c), UNCHANGED <<scenario, clientVars>>
  PROVE  /\ Reads(c)' = Reads(c) + 1 /\ up'[c] \in Seq(FromClient(c))
         /\ ClientSide(c)' /\ Flow(c)'
<1> USE PeersAssumption
<1>1. /\ up[c] # <<>> /\ up'[c] = Tail(up[c]) /\ up[c] \in Seq(FromClient(c))
      /\ UNCHANGED <<down, open, serving, cpc, com_key, crounds, results>>
  BY DEF ServerGets, FInv, PeerKinds, clientVars
<1>2. /\ up'[c] \in Seq(FromClient(c)) /\ Len(up'[c]) = Len(up[c]) - 1
      /\ \A k \in 1..Len(up'[c]) : up'[c][k] = up[c][k + 1] /\ k + 1 \in 1..Len(up[c])
      /\ Len(up'[c]) \in Nat
  BY <1>1
<1>3. Reads(c) \in Nat /\ crounds[c] \in Nat /\ Len(up[c]) \in Nat
  BY ReadsAre
<1>4. Reads(c)' = Reads(c) + 1
  BY <1>1, <1>2, <1>3 DEF Reads
<1>5. /\ \A v : Sound(v)' <=> Sound(v)
      /\ \A d, n : InputSent(d, n)' = InputSent(d, n)
  BY SoundKept
<1>6. ClientSide(c) /\ Flow(c)
  BY DEF FInv, Clientele
<1>7. \A k \in 1..Len(up'[c]) : up'[c][k] = InputSent(c, Reads(c)' + k)
  <2> SUFFICES ASSUME NEW k \in 1..Len(up'[c]) PROVE up'[c][k] = InputSent(c, Reads(c)' + k)
    OBVIOUS
  <2>1. up'[c][k] = InputSent(c, Reads(c) + (k + 1))
    BY <1>2, <1>6 DEF ClientSide
  <2>2. k \in Int
    BY <1>2
  <2>3. Reads(c) + (k + 1) = Reads(c)' + k
    BY <1>3, <1>4, <2>2
  <2> QED
    BY <2>1, <2>3
<1>8. Len(up'[c]) <= crounds[c]
  <2>1. Len(up[c]) <= crounds[c]
    BY <1>6 DEF ClientSide
  <2> QED
    BY <1>2, <1>3, <2>1
<1>9. ClientSide(c)'
  BY <1>1, <1>5, <1>6, <1>7, <1>8 DEF ClientSide
<1>10. Flow(c)'
  BY <1>1, <1>5, <1>6 DEF Flow, Fine, Due
<1> QED
  BY <1>2, <1>4, <1>9, <1>10

(* The state of the clients, and of their places, after an input was read. *)
LEMMA InputIsRead ==
  ASSUME FInv, NEW r \in Nat \ {0}, Live(r), RecvInput, NEW c0 \in Clients, c0 = Sock(i)
  PROVE  /\ Position(c0) = i /\ i \in Clients
         /\ up[c0] # <<>> /\ Reads(c0) = r - 1 /\ Reads(c0)' = r
         /\ passInput(c0, InputSent(c0, r).m)
         /\ sock_client_map' = [sock_client_map EXCEPT ![i] = c0]
         /\ UNCHANGED <<scenario, ownerVars, down, open, serving, rstS, rstP, cpc, com_key,
                        crounds, results>>
         /\ DOMAIN up' = Peers /\ \A p \in Peers : p # c0 => up'[p] = up[p]
         /\ up'[c0] \in Seq(FromClient(c0))
         /\ \A c \in Clients : /\ c # c0 => Reads(c)' = Reads(c)
                               /\ ClientSide(c)' /\ Flow(c)'
<1> USE PeersAssumption
<1>1. /\ spc = "recvInput" /\ ServerGets(Sock(i))
      /\ sock_client_map' = [sock_client_map EXCEPT ![i] = Head(up[Sock(i)]).id]
      /\ passInput(Head(up[Sock(i)]).id, Head(up[Sock(i)]).m)
      /\ UNCHANGED peerVars
  BY DEF RecvInput
<1>2. Position(c0) = i /\ i \in Clients
  BY <1>1, InputPlaces
<1>3. up[c0] # <<>> /\ Reads(c0) = r - 1 /\ Head(up[c0]) = InputSent(c0, r)
  BY <1>1, InputArrives
<1>4. InputSent(c0, r).id = c0
  BY DEF InputSent
<1>5. UNCHANGED <<scenario, clientVars, ownerVars, cpc, com_key, crounds, results>>
  BY <1>1 DEF peerVars, clientVars
<1>6. /\ UNCHANGED <<down, open, serving, rstS, rstP>>
      /\ DOMAIN up' = Peers /\ \A p \in Peers : p # c0 => up'[p] = up[p]
  BY <1>1 DEF ServerGets, FInv, PeerKinds
<1>7. Reads(c0)' = Reads(c0) + 1 /\ up'[c0] \in Seq(FromClient(c0)) /\ ClientSide(c0)' /\ Flow(c0)'
  BY <1>1, <1>5, ClientIsRead
<1>8. \A c \in Clients : c # c0 => Reads(c)' = Reads(c) /\ ClientSide(c)' /\ Flow(c)'
  <2> SUFFICES ASSUME NEW c \in Clients, c # c0
               PROVE  Reads(c)' = Reads(c) /\ ClientSide(c)' /\ Flow(c)'
    OBVIOUS
  <2>1. ClientSide(c) /\ Flow(c) /\ up'[c] = up[c]
    BY <1>6 DEF FInv, Clientele
  <2> QED
    BY <1>5, <1>6, <2>1, OtherClient
<1>9. Reads(c0)' = r
  BY <1>3, <1>7
<1> QED
  BY <1>1, <1>2, <1>3, <1>4, <1>5, <1>6, <1>7, <1>8, <1>9

(* What the enclave then has of the inputs. *)
LEMMA InputIsEntered ==
  ASSUME FInv, NEW r \in Nat \ {0}, NEW c0 \in Clients, passInput(c0, InputSent(c0, r).m)
  PROVE  \/ /\ On /\ On'
            /\ \E buf \in [Clients -> Nat \cup {Junk}] :
                 /\ IF datainput = NULL THEN \A d \in Clients : buf[d] \in {freed[d], Junk}
                                        ELSE buf = datainput
                 /\ datainput' \in [Clients -> Nat \cup {Junk}]
                 /\ datainput'[c0] \in {Junk, Input(c0, r)}
                 /\ \A d \in Clients : d # c0 => datainput'[d] = buf[d]
            /\ com_to_client_key' \in [Clients -> Int]
            /\ com_to_client_key'[c0] = com_to_client_key[c0] + 1
            /\ \A d \in Clients : d # c0 => com_to_client_key'[d] = com_to_client_key[d]
         \/ ~On' /\ UNCHANGED <<datainput, com_to_client_key>>
<1> DEFINE m == InputSent(c0, r).m
           v == Decrypt(com_to_client_key[c0], m)
<1>1. v \in {Junk, Input(c0, r)}
  BY DEF Decrypt, InputSent, Encrypt
<1>2. v \in Nat \cup {Junk}
  BY <1>1 DEF Input
<1>3. com_to_client_key \in [Clients -> Int]
  BY DEF FInv, EnclaveKinds
<1>4. passInput(c0, m)
  OBVIOUS
<1> HIDE DEF m
<1>5. \/ /\ On /\ On'
         /\ \E buf \in [Clients -> Nat \cup {Junk}] :
              /\ IF datainput = NULL THEN \A d \in Clients : buf[d] \in {freed[d], Junk}
                                     ELSE buf = datainput
              /\ datainput' = [buf EXCEPT ![c0] = v]
         /\ com_to_client_key' = [com_to_client_key EXCEPT ![c0] = @ + 1]
      \/ ~On' /\ UNCHANGED <<datainput, com_to_client_key>>
  BY <1>4, InputIs
<1> HIDE DEF v
<1>6. CASE On /\ On' /\ com_to_client_key' = [com_to_client_key EXCEPT ![c0] = @ + 1]
           /\ \E buf \in [Clients -> Nat \cup {Junk}] :
                /\ IF datainput = NULL THEN \A d \in Clients : buf[d] \in {freed[d], Junk}
                                       ELSE buf = datainput
                /\ datainput' = [buf EXCEPT ![c0] = v]
  <2>1. /\ com_to_client_key' \in [Clients -> Int]
        /\ com_to_client_key'[c0] = com_to_client_key[c0] + 1
        /\ \A d \in Clients : d # c0 => com_to_client_key'[d] = com_to_client_key[d]
    BY <1>3, <1>6
  <2>2. PICK buf \in [Clients -> Nat \cup {Junk}] :
          /\ IF datainput = NULL THEN \A d \in Clients : buf[d] \in {freed[d], Junk}
                                 ELSE buf = datainput
          /\ datainput' = [buf EXCEPT ![c0] = v]
    BY <1>6
  <2>3. /\ datainput' \in [Clients -> Nat \cup {Junk}] /\ datainput'[c0] = v
        /\ \A d \in Clients : d # c0 => datainput'[d] = buf[d]
    BY <1>2, <2>2
  <2> QED
    BY <1>1, <1>6, <2>1, <2>2, <2>3
<1> QED
  BY <1>5, <1>6

LEMMA FaultyRecvInput == ASSUME FInv, RecvInput PROVE FInv'
<1> USE PeersAssumption
<1>1. /\ spc = "recvInput" /\ ServerGets(Sock(i))
      /\ \/ spc' = "recvInput" /\ i' = i + 1 /\ i + 1 < NUM_OF_CLIENTS
         \/ spc' = "recvProgram" /\ i' = 1
      /\ UNCHANGED <<peerVars, backlog, client_sock, buffer, prog, reply>>
  BY DEF RecvInput, Goto
<1>2. PICK r \in Nat \ {0} : Live(r)
  BY <1>1, ServerLives
<1>3. PICK c0 \in Clients :
        /\ c0 = Sock(i) /\ Position(c0) = i /\ i \in Clients
        /\ \A c \in Clients : /\ Position(c) \in Clients /\ Position(c)' = Position(c)
                              /\ Sock(Position(c)) = c
                              /\ Got(c) <=> Position(c) < i
                              /\ Got(c) => Reads(c) = r
                              /\ ~Got(c) => Reads(c) <= r - 1
                              /\ ~Given(c) /\ ~Taken(c)
        /\ Sock(0) \in Clients /\ (i > 0 => Reads(Sock(0)) = r) /\ Sock(0)' = Sock(0)
  BY <1>1, <1>2, InputPlaces, PositionKept DEF Sock
<1>4. /\ up[c0] # <<>> /\ Reads(c0) = r - 1 /\ Reads(c0)' = r
      /\ sock_client_map' = [sock_client_map EXCEPT ![i] = c0]
      /\ UNCHANGED <<scenario, ownerVars, down, open, serving, rstS, rstP, cpc, com_key,
                     crounds, results>>
      /\ DOMAIN up' = Peers /\ \A p \in Peers : p # c0 => up'[p] = up[p]
      /\ up'[c0] \in Seq(FromClient(c0))
      /\ \A c \in Clients : /\ c # c0 => Reads(c)' = Reads(c)
                            /\ ClientSide(c)' /\ Flow(c)'
      /\ passInput(c0, InputSent(c0, r).m)
  BY <1>1, <1>2, <1>3, InputIsRead
<1>5. /\ UNCHANGED <<com_key_program, freed, C, outGarblings, output>>
      /\ On' => On
      /\ damaged' \in BOOLEAN /\ (HasRoom => damaged' = damaged)
  BY <1>4, InputIs
<1>6. /\ \A n \in Clients : n \in Int
      /\ 0 \in Clients
  BY ClientsAssumption DEF Clients
<1>7. ~Got(c0) /\ \A c \in Clients : (Got(c)' <=> Got(c) \/ c = c0) /\ ~Given(c)' /\ ~Taken(c)'
  <2>1. ~Got(c0)
    BY <1>3, <1>6
  <2>2. ASSUME NEW c \in Clients PROVE Got(c)' <=> Got(c) \/ c = c0
    <3>1. CASE spc' = "recvInput" /\ i' = i + 1
      <4>1. Position(c) \in Int /\ i \in Int
        BY <1>3, <1>6
      <4>2. Position(c)' < i' <=> Position(c) < i \/ Position(c) = i
        BY <1>3, <3>1, <4>1
      <4>3. Position(c) = i <=> c = c0
        BY <1>3
      <4> QED
        BY <1>1, <1>3, <3>1, <4>2, <4>3 DEF Got, Middle, Decoded, Program, Garbled, Results2
    <3>2. CASE spc' = "recvProgram"
      <4>1. Got(c)'
        BY <3>2 DEF Got, Middle, Program
      <4>2. Position(c) < i \/ Position(c) = i
        <5>1. Position(c) \in 0..NUM_OF_CLIENTS - 1 /\ i \in Int /\ NUM_OF_CLIENTS \in Int
          BY <1>3, <1>6, ClientsAssumption DEF Clients
        <5>2. ~(i + 1 < NUM_OF_CLIENTS)
          BY <3>2 DEF RecvInput, Goto
        <5> QED
          BY <5>1, <5>2
      <4> QED
        BY <1>3, <4>1, <4>2
    <3> QED
      BY <1>1, <3>1, <3>2
  <2>3. \A c \in Clients : ~Given(c)' /\ ~Taken(c)'
    BY <1>1 DEF Given, Taken, Results2
  <2> QED
    BY <2>1, <2>2, <2>3
<1>8. PeerKinds' /\ Clientele' /\ Ends'
  <2>1. PeerKinds'
    <3>1. \A c \in Clients : up'[c] \in Seq(FromClient(c)) /\ down'[c] \in Seq(Coded)
      BY <1>4 DEF FInv, PeerKinds
    <3> QED
      BY <1>4, <3>1 DEF FInv, PeerKinds
  <2>2. Ends'
    BY <1>2, <1>4 DEF Live, Ends, QuitAfter
  <2> QED
    BY <1>4, <2>1, <2>2 DEF Clientele
<1>9. ServerKinds' /\ serving /\ Placed' /\ Connected'
  <2>1. serving
    BY <1>1, ServerLives
  <2>2. 1 \in 1..Chunks
    BY ChunksAssumption
  <2>3. i + 1 < NUM_OF_CLIENTS => i + 1 \in Clients
    BY <1>3, ClientsAssumption DEF Clients
  <2>4. Placed'
    BY <1>1, <2>2, <2>3 DEF Placed, Inputs, Before, Middle, Program, Results2
  <2>5. Connected'
    BY <1>1, <1>2, <1>4, ConnectedOn DEF Live
  <2>6. sock_client_map' \in [Clients -> Clients \cup {Unknown}]
    BY <1>4 DEF FInv, ServerKinds
  <2> QED
    BY <1>1, <1>4, <2>1, <2>4, <2>5, <2>6 DEF FInv, ServerKinds
<1>10. EnclaveKinds'
  <2>1. datainput' = NULL \/ datainput' \in [Clients -> Nat \cup {Junk}]
    BY <1>4, InputIsEntered DEF FInv, EnclaveKinds
  <2>2. com_to_client_key' \in [Clients -> Int]
    BY <1>4, InputIsEntered DEF FInv, EnclaveKinds
  <2> QED
    BY <1>5, <2>1, <2>2 DEF FInv, EnclaveKinds
<1>11. Attend(r)'
  <2>1. spc' \notin Before /\ spc \notin Before
    BY <1>1 DEF Before
  <2>2. \A c \in Clients : c # c0 => Turns(c, r)' = Turns(c, r)
    BY <1>7 DEF Turns
  <2>3. ASSUME NEW d \in Clients, Missed(d, r) PROVE Missed(d, r)'
    <3>1. d # c0
      BY <1>4, <2>3 DEF Missed
    <3> QED
      BY <1>4, <2>2, <2>3, <3>1 DEF Missed
  <2>4. ASSUME NEW c \in Clients PROVE Attended(c, r)'
    <3>1. CASE c = c0
      <4>1. Turns(c, r)' = r
        BY <1>7, <3>1 DEF Turns
      <4> QED
        BY <1>4, <3>1, <4>1 DEF Attended
    <3>2. CASE c # c0
      <4>1. Attended(c, r)
        BY <1>2 DEF Live, Attend
      <4>2. spc' = "recvInput" /\ Position(c)' < i' => Got(c)
        BY <1>7, <3>2 DEF Got
      <4>3. \A d \in Clients : Position(d)' = Position(d)
        BY <1>3
      <4> QED
        BY <1>3, <1>4, <2>1, <2>2, <2>3, <3>2, <4>1, <4>2, <4>3 DEF Attended
    <3> QED
      BY <3>1, <3>2
  <2>5. ASSUME NEW c \in Clients PROVE Known(c)'
    <3>1. sock_client_map \in [Clients -> Clients \cup {Unknown}]
      BY DEF FInv, ServerKinds
    <3>2. CASE c = c0
      BY <1>3, <1>4, <3>1, <3>2 DEF Known
    <3>3. CASE c # c0
      <4>1. Position(c) # i
        BY <1>3, <3>3
      <4> QED
        BY <1>2, <1>3, <1>4, <2>1, <3>1, <3>3, <4>1 DEF Live, Attend, Known
    <3> QED
      BY <3>2, <3>3
  <2>6. \A c \in Clients : Replied(c, r)'
    BY <1>2, <1>3, <1>4, <1>7 DEF Live, Attend, Replied
  <2> QED
    BY <2>1, <2>4, <2>5, <2>6 DEF Attend
<1>12. OwnerTurn(r)' /\ Programs(r)' /\ Outputs(r)'
  <2>1. (AllRead => AllRead') /\ (AllRead' => AllRead \/ r = 1)
    BY <1>4 DEF AllRead
  <2>2. UNCHANGED <<scenario, ownerVars, buffer, com_key_program, C, outGarblings, output, reply>>
    BY <1>1, <1>4, <1>5
  <2>3. up'[Owner] = up[Owner] /\ down'[Owner] = down[Owner] /\ open'[Owner] = open[Owner]
    BY <1>4
  <2> QED
    BY <1>1, <1>2, <1>5, <2>1, <2>2, <2>3, InputStep
<1>13. Data(r)'
  <2>1. \A c, n : Input(c, n)' = Input(c, n)
    BY <1>4, SoundKept
  <2>2. /\ datainput = NULL \/ datainput \in [Clients -> Nat \cup {Junk}]
        /\ NULL \notin [Clients -> Nat \cup {Junk}]
    BY NullAssumption DEF FInv, EnclaveKinds
  <2>3. ASSUME NEW c \in Clients PROVE Entered(c, r)'
    <3>1. CASE ~On'
      BY <3>1 DEF Entered
    <3>2. CASE On' /\ c = c0
      <4>1. datainput' # NULL /\ datainput'[c0] \in {Junk, Input(c0, r)}
        BY <1>4, <2>2, <3>2, InputIsEntered
      <4> QED
        BY <2>1, <3>2, <4>1 DEF Entered
    <3>3. CASE On' /\ c # c0
      <4>1. SUFFICES ASSUME Got(c)', Reads(c)' = r
                     PROVE  datainput' # NULL /\ datainput'[c] \in {Junk, Input(c, r)}
        BY <2>1 DEF Entered
      <4>2. Got(c) /\ Reads(c) = r
        BY <1>4, <1>7, <3>3, <4>1
      <4>3. Entered(c, r) /\ On
        BY <1>2, <1>5, <3>3 DEF Live, Data
      <4>4. datainput # NULL /\ datainput[c] \in {Junk, Input(c, r)}
        BY <1>1, <4>2, <4>3 DEF Entered
      <4> QED
        BY <1>4, <2>2, <3>3, <4>4, InputIsEntered
    <3> QED
      BY <3>1, <3>2, <3>3
  <2>4. ASSUME NEW c \in Clients PROVE Unread(c)'
    <3> SUFFICES ASSUME Reads(c)' = 0
                 PROVE  freed'[c] = Junk /\ (datainput' # NULL => datainput'[c] = Junk)
      BY DEF Unread
    <3>1. c # c0 /\ Reads(c) = 0
      BY <1>4
    <3>2. freed[c] = Junk /\ (datainput # NULL => datainput[c] = Junk)
      BY <1>2, <3>1 DEF Live, Data, Unread
    <3> QED
      BY <1>4, <1>5, <3>1, <3>2, InputIsEntered
  <2>5. Fresh'
    <3>1. i + 1 # 0
      BY <1>3, <1>6 DEF Clients
    <3> QED
      BY <1>1, <3>1 DEF Fresh, Before, Decoded, Results2
  <2>6. Begun(r)'
    <3>1. Sock(0) # c0 => Reads(Sock(0)) = r
      BY <1>3, <1>6 DEF Clients
    <3>2. Reads(Sock(0))' = r
      BY <1>3, <1>4, <3>1
    <3> QED
      BY <3>2 DEF Begun
  <2>7. Counts(r)'
    <3> SUFFICES ASSUME On', AllRead' \/ r = 1
                 PROVE  \A c \in Clients :
                          com_to_client_key'[c] = c + Reads(c)' + (r - 1)
                                                    + IF Taken(c)' THEN 1 ELSE 0
      BY DEF Counts, Sure
    <3> TAKE c \in Clients
    <3>1. AllRead \/ r = 1
      BY <1>4 DEF AllRead
    <3>2. com_to_client_key[c] = c + Reads(c) + (r - 1) + IF Taken(c) THEN 1 ELSE 0
      BY <1>1, <1>2, <1>5, <3>1 DEF Live, Data, Counts, Sure, Decoded, Results2
    <3>3. com_to_client_key'[c] = IF c = c0 THEN com_to_client_key[c] + 1 ELSE com_to_client_key[c]
      BY <1>4, InputIsEntered
    <3>4. c \in Int /\ Reads(c) \in Int
      BY <1>6, ReadsAre
    <3>5. Reads(c)' = IF c = c0 THEN Reads(c) + 1 ELSE Reads(c)
      BY <1>4
    <3>6. (IF Taken(c) THEN 1 ELSE 0) = 0 /\ (IF Taken(c)' THEN 1 ELSE 0) = 0
      BY <1>3, <1>7
    <3> QED
      BY <3>2, <3>3, <3>4, <3>5, <3>6
  <2>8. Sure(r)' => Sure(r)
    BY <1>1, <1>4 DEF Sure, AllRead, Decoded, Results2
  <2> QED
    BY <1>2, <1>5, <2>3, <2>4, <2>5, <2>6, <2>7, <2>8 DEF Live, Data
<1> QED
  BY <1>2, <1>4, <1>8, <1>9, <1>10, <1>11, <1>12, <1>13 DEF FInv, Live

-----------------------------------------------------------------------------
(* The end of the server, and the network. *)

LEMMA FaultyServerKilled == ASSUME FInv, ServerKilled PROVE FInv'
<1>1. /\ spc' = "killed" /\ ServerEnds
      /\ UNCHANGED <<peerVars, backlog, client_sock, sock_client_map, buffer, prog, reply,
                     enclaveVars>>
  BY DEF ServerKilled, Goto
<1>2. /\ UNCHANGED <<scenario, cpc, com_key, crounds, results, down, open, rstS>>
      /\ serving' = FALSE /\ up' = [p \in Peers |-> <<>>]
  BY <1>1 DEF ServerEnds, peerVars, clientVars
<1>3. \A c \in Clients : up'[c] = <<>> /\ Len(up'[c]) = 0 /\ up'[c] \in Seq(FromClient(c))
  <2>1. \A c \in Clients : up'[c] = <<>>
    BY <1>2, PeersAssumption
  <2>2. \A S : <<>> \in Seq(S) /\ Len(<<>>) = 0
    OBVIOUS
  <2> QED
    BY <2>1, <2>2
<1>4. PeerKinds'
  BY <1>2, <1>3 DEF FInv, PeerKinds
<1>5. ServerKinds' /\ EnclaveKinds'
  BY <1>1, <1>2 DEF FInv, ServerKinds, EnclaveKinds, enclaveVars, state
<1>6. ASSUME NEW c \in Clients PROVE ClientSide(c)' /\ Flow(c)'
  <2>1. ClientSide(c) /\ Flow(c) /\ crounds[c] \in Nat
    BY DEF FInv, Clientele, PeerKinds
  <2>2. \A v : Sound(v)' <=> Sound(v)
    BY <1>2, SoundKept
  <2>3. Flow(c)'
    BY <1>2, <2>1, <2>2 DEF Flow, Fine, Due
  <2>4. Len(up'[c]) <= crounds'[c] /\ \A k \in 1..Len(up'[c]) : FALSE
    BY <1>2, <1>3, <2>1
  <2>5. ClientSide(c)'
    BY <1>2, <2>1, <2>4 DEF ClientSide
  <2> QED
    BY <2>3, <2>5
<1> QED
  BY <1>2, <1>4, <1>5, <1>6 DEF FInv, Clientele

LEMMA FaultyNetwork == ASSUME FInv, Network PROVE FInv'
<1>1. /\ UNCHANGED <<peerVars, serverVars, backlog, enclaveVars, up, down, open, serving>>
      /\ DOMAIN rstS' = Peers
      /\ \A p \in Peers : rstS'[p] = "none" <=> rstS[p] = "none"
      /\ rstP = [p \in Peers |-> "none"] => rstP' = rstP
  BY DEF Network, ResetArrives, FInv, ServerKinds
<1>2. /\ UNCHANGED <<scenario, cpc, com_key, crounds, results, ownerVars>>
      /\ UNCHANGED <<spc, i, client_sock, sock_client_map, reply>>
  BY <1>1 DEF peerVars, clientVars, serverVars
<1>3. PeerKinds' /\ ServerKinds' /\ EnclaveKinds'
  BY <1>1, <1>2 DEF FInv, PeerKinds, ServerKinds, EnclaveKinds, enclaveVars, state
<1>4. \A c \in Clients : ClientSide(c)' /\ Flow(c)' /\ Reads(c)' = Reads(c)
  BY <1>1, <1>2, OtherClient DEF FInv, Clientele
<1>5. ASSUME serving PROVE \E r \in Nat \ {0} : Live(r)'
  <2>1. PICK r \in Nat \ {0} : Live(r)
    BY <1>5 DEF FInv
  <2>2. Ends'
    BY <1>1, <1>2, <2>1 DEF Live, Ends, QuitAfter
  <2>3. Connected'
    BY <1>1, <1>2, <2>1 DEF Live, Connected
  <2>4. \A d : Turns(d, r)' = Turns(d, r) /\ (Given(d)' <=> Given(d))
    BY <1>2, PlacesKept
  <2>5. \A d \in Clients : (Missed(d, r) => Missed(d, r)') /\ Replied(d, r)'
    BY <1>1, <1>2, <2>1, <2>4 DEF Missed, Live, Attend, Replied
  <2> QED
    BY <1>1, <1>2, <1>4, <2>1, <2>2, <2>3, <2>5, ClientMoves
<1> QED
  BY <1>1, <1>3, <1>4, <1>5 DEF FInv, Clientele

LEMMA FaultyStutter == ASSUME FInv, UNCHANGED vars PROVE FInv'
<1>1. UNCHANGED <<scenario, clientVars, ownerVars, serverVars, backlog, enclaveVars, sockets>>
  BY DEF vars
<1>2. ASSUME NEW r \in Nat \ {0}, Live(r) PROVE OwnerTurn(r)'
  BY <1>1, <1>2, OwnerTurnKept DEF Live, sockets
<1> QED
  BY <1>1, <1>2, OwnerMoves DEF OwnerChannelStep

LEMMA FInitially == Init => FInv
<1> SUFFICES ASSUME Init PROVE FInv
  OBVIOUS
<1> USE ClientsAssumption, PeersAssumption
        DEF Init, DataOwnerInit, SocketsInit, EnclaveInit
<1>1. PeerKinds /\ ServerKinds /\ EnclaveKinds
  <2>1. PeerKinds
    <3>1. \A c \in Clients : up[c] \in Seq(FromClient(c)) /\ down[c] \in Seq(Coded)
      OBVIOUS
    <3> QED
      BY <3>1 DEF PeerKinds, Clients
  <2>2. ServerKinds
    BY JunkIsSound DEF ServerKinds
  <2>3. EnclaveKinds
    BY JunkIsSound DEF EnclaveKinds, Clients, Pointer
  <2> QED
    BY <2>1, <2>2, <2>3
<1>2. \A c \in Clients : /\ up[c] = <<>> /\ down[c] = <<>> /\ results[c] = <<>> /\ open[c]
                         /\ Len(up[c]) = 0 /\ Len(down[c]) = 0 /\ Len(results[c]) = 0
                         /\ crounds[c] = 0 /\ Reads(c) = 0
                         /\ com_key[c] = c /\ cpc[c] = "connect" /\ c \in Int
  <2>1. \A c \in Clients : /\ up[c] = <<>> /\ down[c] = <<>> /\ results[c] = <<>> /\ open[c]
                           /\ crounds[c] = 0 /\ com_key[c] = c /\ cpc[c] = "connect" /\ c \in Int
    BY DEF Clients
  <2>2. Len(<<>>) = 0
    OBVIOUS
  <2> QED
    BY <2>1, <2>2 DEF Reads
<1>3. Clientele
  <2> SUFFICES ASSUME NEW c \in Clients PROVE ClientSide(c) /\ Flow(c)
    BY DEF Clientele
  <2>1. \A k \in 1..0 : FALSE
    OBVIOUS
  <2>2. ClientSide(c)
    BY <1>2, <2>1 DEF ClientSide
  <2>3. Flow(c)
    BY <1>2, <2>1 DEF Flow
  <2> QED
    BY <2>2, <2>3
<1>4. \A c : ~Got(c) /\ ~Given(c) /\ ~Taken(c)
  BY DEF Got, Given, Taken, Middle, Decoded, Program, Garbled, Results2
<1>5. Ends /\ Placed /\ Connected
  <2>1. scenario.quitAfter \in [Peers -> Nat]
    BY ScenariosAssumption
  <2>2. Ends
    BY <1>2, <2>1 DEF Ends, QuitAfter
  <2>3. Placed
    BY DEF Placed, Inputs, Before, Results2, Clients
  <2>4. Connected
    BY DEF Connected
  <2> QED
    BY <2>2, <2>3, <2>4
<1>6. Attend(1)
  <2> SUFFICES ASSUME NEW c \in Clients PROVE Attended(c, 1) /\ Known(c) /\ Replied(c, 1)
    BY DEF Attend
  <2>1. Turns(c, 1) = 0
    BY <1>4 DEF Turns
  <2> QED
    BY <1>2, <1>4, <2>1 DEF Attended, Known, Replied
<1>7. OwnerTurn(1)
  <2>1. Begins(1)
    BY DEF Begins, Row
  <2> QED
    BY <2>1 DEF OwnerTurn, OwnerKeys, Here, Results2
<1>8. Programs(1)
  <2>1. Base(1) = 0
    BY DEF Base, Inputs, Before
  <2>2. \A bad \in scenario.badInputs : bad[2] \in Nat /\ bad[2] > 0
    BY RoundsAssumption, ScenariosAssumption
  <2>3. Behind(1)
    BY <2>2 DEF Behind, Garbled, Decoded, Results2
  <2> QED
    BY <2>1, <2>3 DEF Programs
<1>9. Data(1)
  <2>1. Fresh /\ Begun(1)
    BY DEF Fresh, Begun, Program
  <2>2. \A c \in Clients : Entered(c, 1) /\ Unread(c)
    BY <1>4 DEF Entered, Unread
  <2>3. Counts(1)
    BY <1>2, <1>4 DEF Counts
  <2> QED
    BY <2>1, <2>2, <2>3 DEF Data
<1>10. Outputs(1)
  BY JunkIsSound DEF Outputs
<1> QED
  BY <1>1, <1>3, <1>5, <1>6, <1>7, <1>8, <1>9, <1>10 DEF FInv, Live

LEMMA FaultySteps == ASSUME FInv, [Next]_vars PROVE FInv'
<1>1. ASSUME NEW c \in Clients, Client(c) PROVE FInv'
  BY <1>1, FaultyConnect, FaultySendInput, FaultyRecvResult, FaultyLeave, FaultyBrokenPipe
     DEF Client, DataOwner
<1>2. ASSUME ProgramOwner PROVE FInv'
  BY <1>2, FaultyOwnerConnect, FaultyPrepareProgram, FaultySendPiece, FaultyRecvAck,
     FaultyRecvPiece, FaultySendAck, FaultyEvaluate, FaultySendGoutput, FaultyRecvSize,
     FaultyOwnerLeave, FaultyOwnerBrokenPipe
     DEF ProgramOwner
<1>3. ASSUME Server PROVE FInv'
  BY <1>3, FaultyAccept, FaultyAcceptOwner, FaultyRecvInput, FaultyRecvInputBreak,
     FaultyRecvProgram, FaultyAckProgram, FaultyPassProgram, FaultyGetGCircuit,
     FaultySendGProgram, FaultyRecvGAck, FaultyRecvGoutput, FaultySendSize, FaultyGetOutput,
     FaultyWriteOutput, FaultyFreeEnc, FaultyServerKilled
     DEF Server
<1> QED
  BY <1>1, <1>2, <1>3, FaultyNetwork, FaultyStutter DEF Next

LEMMA FaultyHolds == Spec => []FInv
<1>1. Init => FInv
  BY FInitially
<1>2. FInv /\ [Next]_vars => FInv'
  BY FaultySteps
<1> QED
  BY <1>1, <1>2, PTL DEF Spec

-----------------------------------------------------------------------------
(* The results that a client has read are sound, and fine for it. *)
LEMMA ReadResults ==
  ASSUME FInv, NEW c \in Clients, NEW n \in DOMAIN results[c]
  PROVE  /\ Sound(results[c][n]) /\ Fine(c, results[c][n], n)
<1>1. results[c] \in Seq(Values) /\ Flow(c)
  BY DEF FInv, PeerKinds, Clientele
<1>2. DOMAIN results[c] = 1..Len(results[c])
  BY <1>1
<1> QED
  BY <1>1, <1>2 DEF Flow

(* Whoever leaves, whichever inputs are refused and however the enclave    *)
(* fails (client.c, server.c, Enclave.cpp): a result of a round that every *)
(* peer took part in was computed from the program and the inputs of that  *)
(* one round, and a client reads no result before its round.               *)
THEOREM ResultsAreNeverMixed == Spec => []NeverMixed
<1>1. FInv => NeverMixed
  BY ReadResults DEF NeverMixed, Sound, Fine
<1> QED
  BY <1>1, FaultyHolds, PTL

(* In the same circumstances: the result of the current program that a     *)
(* client reads was computed from the input that it sent itself in this    *)
(* round, though the server hands out the results by the positions of the  *)
(* connections and the enclave by the numbers in the messages.             *)
THEOREM ResultsAreOfOwnInput == Spec => []OwnInput
<1>1. FInv => OwnInput
  BY ReadResults DEF OwnInput, Fine
<1> QED
  BY <1>1, FaultyHolds, PTL

(* If the inputs of all clients fit into the enclave's buffer, and a       *)
(* client that has a refused input stays until it has sent it: from the    *)
(* round of the first refused input on, no client reads a result that was  *)
(* computed in that round or later.  getGCircuit then returns without      *)
(* incrementing com_key_program, and the counter never catches up.         *)
THEOREM NothingAfterRefusal ==
  ASSUME HasRoom, BadInputsSent
  PROVE  Spec => []NothingAfterBadInput
<1>1. FInv => NothingAfterBadInput
  BY ReadResults DEF NothingAfterBadInput, Sound
<1> QED
  BY <1>1, FaultyHolds, PTL
=============================================================================
